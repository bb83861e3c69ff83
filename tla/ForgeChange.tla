---------------------------- MODULE ForgeChange ----------------------------
(****************************************************************************)
(* The two ways a change comes in: Forge.request_change(), where an engine  *)
(* proposes a diff, the compatibility gate judges it, a sandbox may run it  *)
(* and the trace records it; and governed_import() of an agent's file that  *)
(* was edited in OpenCode. Requests interleave at their awaits; an import   *)
(* has none, but an editor may write the file while it runs. Policies may   *)
(* be added at any time, by the program that owns the gate.                 *)
(*                                                                          *)
(* A file is a name, and a change says of its new content only whether it   *)
(* parses. Instructions, reasons and obligations are left out.              *)
(****************************************************************************)
EXTENDS Naturals, Sequences, FiniteSets

CONSTANTS Files,         \* files that a diff may change
          Checked,       \* those that the gate can parse: .py and .json
          Python,        \* those that the sandbox runs: .py
          TemplateFile,  \* the file of the template in the library
          AgentFile,     \* the agent file that is imported
          Callers,       \* principals that a caller may name
          Environments,  \* environments that a caller may name
          Policies,      \* policies, as records of effect, who, file and env
          MaxRequests,   \* bound: calls of request_change()
          MaxImports,    \* bound: calls of governed_import()
          MaxPolicies    \* bound: policies added

VARIABLES policies,      \* the gate's policy graph
          request,       \* each call of request_change()
          import,        \* each call of governed_import()
          trace          \* the workflow trace

forgeVars == <<policies, request, import, trace>>

Anyone == "any"
Template == "template-engine"
OpenCode == "opencode"
Default == "default"
Dev == "dev"

ASSUME ForgeAssumption ==
  /\ Python \subseteq Checked /\ Checked \subseteq Files
  /\ TemplateFile \in Python /\ AgentFile \in Files \ Checked
  /\ Policies \subseteq [effect : {"permit", "forbid"},
                         who : Callers \cup {Anyone, Template, OpenCode},
                         file : Files \cup {Anyone},
                         env : Environments \cup {Anyone}]
  /\ Dev \in Environments
  /\ {MaxRequests, MaxImports, MaxPolicies} \subseteq Nat

Requested == 1 .. MaxRequests
Imports == 1 .. MaxImports
NoDiff == [engine |-> OpenCode, files |-> {}, parses |-> TRUE]
Proposals ==
  [engine : {Template}, files : {{TemplateFile}}, parses : BOOLEAN] \cup
  {d \in [engine : {OpenCode}, files : SUBSET Files, parses : BOOLEAN] :
     d.parses \/ d.files \cap Checked # {}}
NoRequest == [at |-> "none", principal |-> Default, env |-> Dev, diff |-> NoDiff,
              todo |-> {}, ran |-> TRUE, allow |-> FALSE, under |-> {}]
NoImport == [at |-> "none", under |-> {}]

Requests ==
  [at : {"none", "propose", "sandbox", "passed", "failed", "raised"},
   principal : Callers \cup {Default}, env : Environments,
   diff : Proposals, todo : SUBSET Files,
   ran : BOOLEAN, allow : BOOLEAN, under : SUBSET Policies]
ImportStates ==
  [at : {"none", "gated", "imported", "denied", "invalid", "raised"},
   under : SUBSET Policies]
TraceEntries ==
  [kind : {"evaluated"}, of : Requested, allow : BOOLEAN, passed : BOOLEAN] \cup
  [kind : {"denied", "invalid", "imported"}, of : Imports, allow : BOOLEAN, passed : BOOLEAN]

ForgeTypeOK ==
  /\ policies \subseteq Policies
  /\ request \in [Requested -> Requests]
  /\ import \in [Imports -> ImportStates]
  /\ trace \in Seq(TraceEntries)
  /\ \A r \in Requested :
       /\ request[r].todo \subseteq request[r].diff.files \cap Python
       /\ request[r].at = "propose" => request[r].todo = {}
       /\ request[r].under \subseteq policies
  /\ \A i \in Imports : import[i].under \subseteq policies

ForgeInit ==
  /\ policies = {}
  /\ request = [r \in Requested |-> NoRequest]
  /\ import = [i \in Imports |-> NoImport]
  /\ trace = <<>>

-----------------------------------------------------------------------------
(* CompatibilityGate.evaluate().                                            *)

(* The policies that apply to a file, for a principal, in an environment.   *)
Matching(f, who, env, under) ==
  {p \in under : /\ p.who \in {Anyone, who}
                 /\ p.file \in {Anyone, f}
                 /\ p.env \in {Anyone, env}}

(* PolicyGraph.evaluate() for one file: a forbid that matches decides, and
   without a permit that does the answer is no.                             *)
Permitted(f, who, env, under) ==
  LET effects == {p.effect : p \in Matching(f, who, env, under)}
  IN  "permit" \in effects /\ "forbid" \notin effects

Principal(diff, principal) == IF principal = Default THEN diff.engine ELSE principal

(* Mutant: the last file's decision is the answer. *)
Evaluate_SomeFile(diff, principal, env, under) ==
  /\ diff.parses
  /\ diff.files # {} =>
       \E f \in diff.files : Permitted(f, Principal(diff, principal), env, under)

(* Nothing that does not parse passes; of what does, every file must. A diff
   that changes nothing passes.                                             *)
Evaluate(diff, principal, env, under) ==
  /\ diff.parses
  /\ \A f \in diff.files : Permitted(f, Principal(diff, principal), env, under)

Entry(kind, of, allow, passed) == [kind |-> kind, of |-> of, allow |-> allow, passed |-> passed]

(* add_policy()                                                             *)
AddPolicy(p) ==
  /\ p \notin policies /\ Cardinality(policies) < MaxPolicies
  /\ policies' = policies \cup {p}
  /\ UNCHANGED <<request, import, trace>>

-----------------------------------------------------------------------------
(* request_change(), with the principal and the environment of the caller.  *)
RequestChange(r, principal, env) ==
  /\ request[r].at = "none"
  /\ \A q \in 1 .. r - 1 : request[q].at # "none"
  /\ request' = [request EXCEPT ![r].at = "propose", ![r].principal = principal, ![r].env = env]
  /\ UNCHANGED <<policies, import, trace>>

(* Mutant: only a change that passed is traced. *)
Concluded_Passes(r, q) ==
  LET passed == q.allow /\ q.ran
  IN  /\ request' = [request EXCEPT ![r] = [q EXCEPT !.at = IF passed THEN "passed" ELSE "failed"]]
      /\ trace' = IF passed THEN Append(trace, Entry("evaluated", r, q.allow, passed)) ELSE trace

(* The verdict is traced, and returned.                                     *)
Concluded(r, q) ==
  LET passed == q.allow /\ q.ran
  IN  /\ request' = [request EXCEPT ![r] = [q EXCEPT !.at = IF passed THEN "passed" ELSE "failed"]]
      /\ trace' = Append(trace, Entry("evaluated", r, q.allow, passed))

(* The engine proposes: any engine anything, the template engine its template's
   file or, where none matches, what its fallback proposed. The gate judges
   that at once. Allowed, it goes to the sandbox, if there is one.          *)
Proposed(r) ==
  /\ request[r].at = "propose"
  /\ \E diff \in Proposals :
       LET allow == Evaluate(diff, request[r].principal, request[r].env, policies)
           q == [request[r] EXCEPT !.diff = diff, !.allow = allow, !.under = policies]
           runs == diff.files \cap Python
       IN  \/ Concluded(r, q)
           \/ /\ allow /\ runs # {}
              /\ request' = [request EXCEPT ![r] = [q EXCEPT !.at = "sandbox", !.todo = runs]]
              /\ UNCHANGED trace
  /\ UNCHANGED <<policies, import>>

(* One file is run, and passes or not: exit status, or the timeout.         *)
SandboxRan(r) ==
  /\ request[r].at = "sandbox"
  /\ \E f \in request[r].todo, success \in BOOLEAN :
       LET q == [request[r] EXCEPT !.todo = @ \ {f}, !.ran = @ /\ success]
       IN  IF q.todo = {} THEN Concluded(r, q)
           ELSE request' = [request EXCEPT ![r] = q] /\ UNCHANGED trace
  /\ UNCHANGED <<policies, import>>

(* The engine is unavailable, exits badly, runs out of time or answers nonsense;
   no template matches or it lacks parameters; the sandbox cannot start; or the
   caller gives up: nothing is traced.                                      *)
RequestRaises(r) ==
  /\ request[r].at \in {"propose", "sandbox"}
  /\ request' = [request EXCEPT ![r].at = "raised"]
  /\ UNCHANGED <<policies, import, trace>>

-----------------------------------------------------------------------------
(* governed_import()                                                        *)
ImportDiff == [engine |-> OpenCode, files |-> {AgentFile}, parses |-> TRUE]

(* The file is read, and that text goes through the gate, ...               *)
ImportGated(i) ==
  /\ import[i].at = "none"
  /\ LET allow == Evaluate(ImportDiff, Default, Dev, policies)
     IN  /\ import' = [import EXCEPT ![i] = [at |-> IF allow THEN "gated" ELSE "denied",
                                             under |-> policies]]
         /\ trace' = IF allow THEN trace ELSE Append(trace, Entry("denied", i, FALSE, FALSE))
  /\ UNCHANGED <<policies, request>>

(* ... and if it passes, import_agent() reads the file again and parses that. A
   file that is gone, or whose scope is not one, raises; an editor may have
   written it since the gate, so that any of these may come.                *)
ImportParsed(i) ==
  /\ import[i].at = "gated"
  /\ \/ /\ import' = [import EXCEPT ![i].at = "imported"]
        /\ trace' = Append(trace, Entry("imported", i, TRUE, TRUE))
     \/ /\ import' = [import EXCEPT ![i].at = "invalid"]
        /\ trace' = Append(trace, Entry("invalid", i, TRUE, FALSE))
     \/ /\ import' = [import EXCEPT ![i].at = "raised"]
        /\ UNCHANGED trace
  /\ UNCHANGED <<policies, request>>

ForgeNext ==
  \/ \E p \in Policies : AddPolicy(p)
  \/ \E r \in Requested :
       \/ \E principal \in Callers \cup {Default}, env \in Environments :
            RequestChange(r, principal, env)
       \/ Proposed(r) \/ SandboxRan(r) \/ RequestRaises(r)
  \/ \E i \in Imports : ImportGated(i) \/ ImportParsed(i)

ForgeSpec == ForgeInit /\ [][ForgeNext]_forgeVars

-----------------------------------------------------------------------------
(* replay_and_verify(): the template is rendered again with the parameters of
   the entry, and gated with the policies of now. Neither the principal nor the
   environment of the request is in the entry, so that the gate takes its
   defaults: the template engine, and "dev".                                *)
Replayable(e) == e.kind = "evaluated" /\ request[e.of].diff.engine = Template

(* Mutant: the replay is judged as an improvised change. *)
Reproducible_AsOpenCode(e) ==
  Evaluate([request[e.of].diff EXCEPT !.engine = OpenCode], Default, Dev, policies) = e.allow

Reproducible(e) == Evaluate(request[e.of].diff, Default, Dev, policies) = e.allow

EntriesOf(kinds, k) == {n \in DOMAIN trace : trace[n].kind \in kinds /\ trace[n].of = k}

(* Every request and every import that returns has left exactly one entry, with
   what it returned, although others were traced while it waited. One that raised
   or was cancelled has left none, whatever the gate had said: Forge's docstring
   promises more (EveryRequestIsTraced).                                     *)
OneEntryPerDecision ==
  /\ \A r \in Requested :
       LET entries == EntriesOf({"evaluated"}, r)
       IN  IF request[r].at \in {"passed", "failed"}
           THEN \E n \in entries :
                  /\ entries = {n}
                  /\ trace[n].passed = (request[r].at = "passed")
                  /\ trace[n].allow = request[r].allow
           ELSE entries = {}
  /\ \A i \in Imports :
       LET entries == EntriesOf({"denied", "invalid", "imported"}, i)
       IN  IF import[i].at \in {"denied", "invalid", "imported"}
           THEN \E n \in entries : entries = {n} /\ trace[n].kind = import[i].at
           ELSE entries = {}

(* "Every request_change() call produces exactly one signed, hash-chained trace
   entry recording what was proposed, whether it passed the gate, and whether it
   ran" (forge.py:684-688): a request that is over has one, however it ended.*)
EveryRequestIsTraced ==
  \A r \in Requested :
    request[r].at \in {"passed", "failed", "raised"} =>
      Cardinality(EntriesOf({"evaluated"}, r)) = 1

(* What passed, or was imported, consists of files that each had a permit, and
   no forbid, among the policies when it was judged, for the principal and the
   environment of the call, all of which parse and, in a request that went
   through the sandbox, run.                                                *)
PassedIsPermitted ==
  LET judged(f, whos, env, under) ==
        LET said(effect) ==
              \E p \in under : /\ p.effect = effect /\ p.who \in whos
                              /\ p.file \in {Anyone, f} /\ p.env \in {Anyone, env}
        IN  said("permit") /\ ~said("forbid")
  IN  /\ \A r \in Requested : request[r].at = "passed" =>
           LET q == request[r]
               who == IF q.principal = Default THEN q.diff.engine ELSE q.principal
           IN  /\ \A f \in q.diff.files : judged(f, {Anyone, who}, q.env, q.under)
               /\ q.diff.parses /\ q.ran
      /\ \A i \in Imports : import[i].at = "imported" =>
           judged(AgentFile, {Anyone, OpenCode}, Dev, import[i].under)

(* Replaying an entry gives another verdict than the request did only for a
   reason: a caller that named a principal, or an environment other than "dev",
   neither of which the entry has; or a policy added since, a forbid where it had
   been allowed and a permit where it had not.                               *)
ReplayAgrees ==
  \A n \in DOMAIN trace :
    LET e == trace[n]
        r == request[e.of]
    IN  Replayable(e) /\ ~Reproducible(e) /\ r.principal = Default /\ r.env = Dev =>
          \E p \in policies \ r.under :
            p.effect = (IF e.allow THEN "forbid" ELSE "permit")
=============================================================================
