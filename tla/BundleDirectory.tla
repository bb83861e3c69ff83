--------------------------- MODULE BundleDirectory ---------------------------
(****************************************************************************)
(* The bundle a runtime starts from when it works offline: a directory with *)
(* a manifest and a knowledge-graph snapshot (bundle.py), written by the    *)
(* command line's `pull` and `sync` (harness_cli.py) file by file, in place *)
(* and verified afterwards, and read by verify_bundle().                    *)
(*                                                                          *)
(* A snapshot's content is told apart by the bundle it belongs to and by    *)
(* whether some edge is repeated in it (a v1 file may repeat edges; a v2    *)
(* file cannot): that is what the hashed rows of _hash_kg_snapshot_file()   *)
(* depend on, and the schema version and updated_at are not part of them.   *)
(****************************************************************************)
EXTENDS Naturals

CONSTANTS Bundles,      \* bundle references the control plane publishes
          MaxPulls      \* bound: pulls and syncs started

VARIABLES manifest,     \* manifest.json: absent, torn, or what it claims
          snapshot,     \* kg_snapshot.sqlite: absent, torn, or what it holds
          pull,         \* the one `pull` or `sync` under way
          pulls         \* how many were started

bundleVars == <<manifest, snapshot, pull, pulls>>

ASSUME MaxPullsAssumption == MaxPulls \in Nat

Absent == [file |-> "absent"]
Torn   == [file |-> "torn"]

Manifests == [file : {"whole"}, ref : Bundles, repeated : BOOLEAN,
              hashed : BOOLEAN, signed : BOOLEAN]
Snapshots == [file : {"whole"}, ref : Bundles, repeated : BOOLEAN, schema : 1 .. 2]

(* The rows that are hashed, and the rows the manifest's hash was taken of. *)
Content(f) == <<f.ref, f.repeated>>

(* Mutant: the signature is checked, the snapshot it stands for is not. *)
Accepts_Unhashed(m, s, key) == s.file # "absent" /\ m.signed /\ key

(* verify_bundle() past load_manifest(): the snapshot must be there; its rows,
   which a torn file does not give, must match the manifest's hash, where it
   has one; and the signature must check out against the caller's key.     *)
Accepts(m, s, key) ==
  /\ s.file # "absent"
  /\ m.hashed => s.file = "whole" /\ Content(s) = Content(m)
  /\ m.signed
  /\ key

(* Mutant: the migration adds the merged edges to those it found. *)
Opened_Repeats(s) == [s EXCEPT !.schema = 2, !.repeated = TRUE]

(* LocalKGStore._initialize_sync() on a whole file: a v1 file is migrated,
   which merges the edges it repeats.                                       *)
Opened(s) == [s EXCEPT !.schema = 2, !.repeated = FALSE]

(* _build_kg_snapshot_sqlite(): a v2 file, whose upserts merge repeats.     *)
BuildSnapshot(m) ==
  [file |-> "whole", ref |-> m.ref, repeated |-> FALSE, schema |-> 2]

NoPull == [at |-> "none"]
Pulls == {NoPull} \cup [at : {"manifest", "snapshot", "verify"}, of : Manifests]

BundleTypeOK ==
  /\ manifest \in {Absent, Torn} \cup Manifests
  /\ snapshot \in {Absent, Torn} \cup Snapshots
  /\ pull \in Pulls
  /\ pulls \in 0 .. MaxPulls

(* No directory yet, or one that an earlier version of the command line
   pulled and verified: a v1 snapshot, repeats included.                    *)
BundleInit ==
  /\ \/ manifest = Absent /\ snapshot = Absent
     \/ /\ manifest \in {m \in Manifests : m.signed}
        /\ snapshot = [file |-> "whole", ref |-> manifest.ref,
                       repeated |-> manifest.repeated, schema |-> 1]
  /\ pull = NoPull
  /\ pulls = 0

-----------------------------------------------------------------------------
(* cmd_pull() has its answer from the control plane and starts to write.
   cmd_sync() reads the old manifest first, so it needs one it can read; it
   is not verified before its agent and tenant are used for the new pull.
   A refused or unreachable request returns before anything is written.     *)
PullFetched ==
  /\ pull = NoPull
  /\ pulls < MaxPulls
  /\ \E m \in Manifests : pull' = [at |-> "manifest", of |-> m]
  /\ pulls' = pulls + 1
  /\ UNCHANGED <<manifest, snapshot>>

(* save_bundle(): the manifest is overwritten, then the snapshot.           *)
WriteManifest ==
  /\ pull.at = "manifest"
  /\ manifest' = pull.of
  /\ pull' = [pull EXCEPT !.at = "snapshot"]
  /\ UNCHANGED <<snapshot, pulls>>

WriteSnapshot ==
  /\ pull.at = "snapshot"
  /\ snapshot' = BuildSnapshot(pull.of)
  /\ pull' = [pull EXCEPT !.at = "verify"]
  /\ UNCHANGED <<manifest, pulls>>

(* The bundle just written is verified: the exit code tells the operator,
   and the files stay as they are either way.                               *)
PullVerified ==
  /\ pull.at = "verify"
  /\ pull' = NoPull
  /\ UNCHANGED <<manifest, snapshot, pulls>>

(* The command line dies, or the disk is full, before or while it writes.   *)
PullDies ==
  /\ pull.at \in {"manifest", "snapshot"}
  /\ \/ UNCHANGED <<manifest, snapshot>>
     \/ pull.at = "manifest" /\ manifest' = Torn /\ UNCHANGED snapshot
     \/ pull.at = "snapshot" /\ snapshot' = Torn /\ UNCHANGED manifest
  /\ pull' = NoPull
  /\ UNCHANGED pulls

BundleNext ==
  \/ PullFetched \/ WriteManifest \/ WriteSnapshot \/ PullVerified \/ PullDies
=============================================================================
