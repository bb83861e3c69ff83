------------------------ MODULE ForgeChange_proofs --------------------------
(***************************************************************************)
(* Proofs about ForgeChange, for all files, callers, policies and any      *)
(* number of requests and imports: the types, that each decision leaves    *)
(* one entry, that what passed was permitted, and when a replay differs.   *)
(***************************************************************************)
EXTENDS ForgeChange, TLAPS

(* What was decided is what the gate says of the policies of then.         *)
Judged ==
  /\ \A r \in Requested :
       LET q == request[r]
       IN  /\ q.at \in {"sandbox", "passed", "failed"} =>
                (q.allow <=> Evaluate(q.diff, q.principal, q.env, q.under))
           /\ q.at = "sandbox" => q.allow
           /\ q.at = "passed" => q.allow /\ q.ran
           /\ q.at = "none" => q.todo = {}
  /\ \A i \in Imports :
       import[i].at \in {"gated", "imported"} => Evaluate(ImportDiff, Default, Dev, import[i].under)

-----------------------------------------------------------------------------
(* Types.                                                                  *)
LEMMA NoDiffIsAProposal == NoDiff \in Proposals
BY DEF NoDiff, Proposals, OpenCode

LEMMA EntriesAreTyped ==
  /\ \A r \in Requested, a, p \in BOOLEAN : Entry("evaluated", r, a, p) \in TraceEntries
  /\ \A i \in Imports, k \in {"denied", "invalid", "imported"}, a, p \in BOOLEAN :
       Entry(k, i, a, p) \in TraceEntries
BY Zenon DEF Entry, TraceEntries

(* A verdict: what becomes of the request, and the entry.                  *)
LEMMA ConcludedTypes ==
  ASSUME ForgeTypeOK, NEW r \in Requested, NEW q \in Requests, Concluded(r, q)
  PROVE  \E at \in {"passed", "failed"} :
           /\ request' = [request EXCEPT ![r] = [q EXCEPT !.at = at]]
           /\ at = "passed" <=> q.allow /\ q.ran
           /\ trace' = Append(trace, Entry("evaluated", r, q.allow, at = "passed"))
<1> DEFINE passed == q.allow /\ q.ran
<1>1. passed \in BOOLEAN
  BY DEF Requests
<1>2. CASE passed
  <2>1. /\ request' = [request EXCEPT ![r] = [q EXCEPT !.at = "passed"]]
        /\ trace' = Append(trace, Entry("evaluated", r, q.allow, TRUE))
    BY <1>2 DEF Concluded
  <2>2. QED
    BY <1>2, <2>1
<1>3. CASE ~passed
  <2>1. /\ request' = [request EXCEPT ![r] = [q EXCEPT !.at = "failed"]]
        /\ trace' = Append(trace, Entry("evaluated", r, q.allow, FALSE))
    BY <1>3 DEF Concluded
  <2>2. QED
    BY <1>3, <2>1
<1>4. QED
  BY <1>2, <1>3

LEMMA RequestStepTypes ==
  ASSUME ForgeTypeOK, NEW r \in Requested, NEW q \in Requests,
         q.todo \subseteq q.diff.files \cap Python, q.at = "propose" => q.todo = {},
         q.under \subseteq policies,
         request' = [request EXCEPT ![r] = q], UNCHANGED <<policies, import>>,
         trace' \in Seq(TraceEntries)
  PROVE  ForgeTypeOK'
BY DEF ForgeTypeOK

(* The fields of a request that a step sets.                               *)
LEMMA RequestUpdates ==
  ASSUME NEW q \in Requests,
         NEW at \in {"sandbox", "passed", "failed", "raised"}
  PROVE  [q EXCEPT !.at = at] \in Requests
BY Zenon DEF Requests

LEMMA ProposalFiles == \A d \in Proposals : d.files \subseteq Files
BY ForgeAssumption DEF Proposals

LEMMA EvaluateIsBoolean ==
  ASSUME NEW d \in Proposals, NEW who, NEW env, NEW under
  PROVE  Evaluate(d, who, env, under) \in BOOLEAN
BY DEF Evaluate, Permitted

(* A request is judged: what is known of it then.                          *)
LEMMA ConcludedRequest ==
  ASSUME ForgeTypeOK, NEW r \in Requested, NEW q \in Requests, Concluded(r, q)
  PROVE  \E new \in Requests :
           /\ request' = [request EXCEPT ![r] = new]
           /\ trace' = Append(trace, Entry("evaluated", r, new.allow, new.at = "passed"))
           /\ new.at \in {"passed", "failed"} /\ (new.at = "passed" <=> new.allow /\ new.ran)
           /\ new.todo = q.todo /\ new.diff = q.diff /\ new.allow = q.allow
           /\ new.under = q.under /\ new.principal = q.principal
           /\ new.env = q.env
<1>1. PICK at \in {"passed", "failed"} :
        /\ request' = [request EXCEPT ![r] = [q EXCEPT !.at = at]]
        /\ at = "passed" <=> q.allow /\ q.ran
        /\ trace' = Append(trace, Entry("evaluated", r, q.allow, at = "passed"))
  BY ConcludedTypes
<1> DEFINE new == [q EXCEPT !.at = at]
<1>2. /\ new \in Requests /\ new.at = at /\ new.todo = q.todo /\ new.diff = q.diff
      /\ new.allow = q.allow /\ new.under = q.under /\ new.principal = q.principal
      /\ new.env = q.env
      /\ new.ran = q.ran
  BY RequestUpdates, Zenon DEF Requests
<1> HIDE DEF new
<1>3. request' = [request EXCEPT ![r] = new]
  BY <1>1 DEF new
<1>4. trace' = Append(trace, Entry("evaluated", r, new.allow, new.at = "passed"))
  BY <1>1, <1>2
<1>5. QED
  BY <1>1, <1>2, <1>3, <1>4

(* What any step of a request does: it goes on, or it is concluded.        *)
StaysOpen(r, new) ==
  new.at \in {"propose", "sandbox", "raised"} /\ UNCHANGED trace

IsConcluded(r, new) ==
  /\ new.at \in {"passed", "failed"} /\ (new.at = "passed" <=> new.allow /\ new.ran)
  /\ trace' = Append(trace, Entry("evaluated", r, new.allow, new.at = "passed"))

Justified(new) ==
  /\ new.todo \subseteq new.diff.files \cap Python
  /\ new.at = "propose" => new.todo = {}
  /\ new.under \subseteq policies
  /\ new.at \in {"sandbox", "passed", "failed"} =>
       (new.allow <=> Evaluate(new.diff, new.principal, new.env, new.under))
  /\ new.at = "sandbox" => new.allow

LEMMA RequestSteps ==
  ASSUME ForgeTypeOK, Judged, NEW r \in Requested,
         \/ \E principal \in Callers \cup {Default}, env \in Environments :
              RequestChange(r, principal, env)
         \/ Proposed(r) \/ SandboxRan(r) \/ RequestRaises(r)
  PROVE  /\ UNCHANGED <<policies, import>>
         /\ request[r].at \in {"none", "propose", "sandbox"}
         /\ \E new \in Requests :
              /\ request' = [request EXCEPT ![r] = new]
              /\ Justified(new)
              /\ StaysOpen(r, new) \/ IsConcluded(r, new)
<1>0. /\ request[r] \in Requests /\ request[r].under \subseteq policies
      /\ request[r].todo \subseteq request[r].diff.files \cap Python
      /\ request[r].at = "propose" => request[r].todo = {}
  BY DEF ForgeTypeOK
<1>p. policies \in SUBSET Policies
  BY DEF ForgeTypeOK
<1>1. ASSUME NEW principal \in Callers \cup {Default}, NEW env \in Environments,
             RequestChange(r, principal, env)
      PROVE  /\ UNCHANGED <<policies, import>>
             /\ request[r].at \in {"none", "propose", "sandbox"}
             /\ \E new \in Requests :
                  /\ request' = [request EXCEPT ![r] = new]
                  /\ Justified(new)
                  /\ StaysOpen(r, new) \/ IsConcluded(r, new)
  <2>0. request[r].at = "none" /\ UNCHANGED <<policies, import, trace>>
    BY <1>1 DEF RequestChange
  <2> DEFINE new == [request[r] EXCEPT !.at = "propose", !.principal = principal, !.env = env]
  <2>1. new \in Requests
    BY <1>0, ZenonT(30) DEF Requests
  <2>2. /\ new.at = "propose" /\ new.todo = request[r].todo
        /\ new.diff = request[r].diff /\ new.under = request[r].under
    BY <1>0, Zenon DEF Requests
  <2> HIDE DEF new
  <2>3. request' = [request EXCEPT ![r] = new]
    BY <1>1 DEF RequestChange, new
  <2>4. request[r].todo = {}
    BY <2>0 DEF Judged
  <2>5. QED
    BY <1>0, <2>0, <2>1, <2>2, <2>3, <2>4 DEF Justified, StaysOpen
<1>2. CASE Proposed(r)
  <2>1. PICK diff \in Proposals :
          LET allow == Evaluate(diff, request[r].principal, request[r].env, policies)
              q == [request[r] EXCEPT !.diff = diff, !.allow = allow, !.under = policies]
              runs == diff.files \cap Python
          IN  \/ Concluded(r, q)
              \/ /\ allow /\ runs # {}
                 /\ request' = [request EXCEPT ![r] = [q EXCEPT !.at = "sandbox", !.todo = runs]]
                 /\ UNCHANGED trace
    BY <1>2 DEF Proposed
  <2>2. request[r].at = "propose" /\ UNCHANGED <<policies, import>>
    BY <1>2 DEF Proposed
  <2> DEFINE allow == Evaluate(diff, request[r].principal, request[r].env, policies)
             q == [request[r] EXCEPT !.diff = diff, !.allow = allow, !.under = policies]
             runs == diff.files \cap Python
  <2>a. \/ Concluded(r, q)
        \/ /\ allow /\ runs # {}
           /\ request' = [request EXCEPT ![r] = [q EXCEPT !.at = "sandbox", !.todo = runs]]
           /\ UNCHANGED trace
    BY <2>1
  <2>b. q = [request[r] EXCEPT !.diff = diff, !.allow = allow, !.under = policies]
    OBVIOUS
  <2>3. allow \in BOOLEAN
    BY EvaluateIsBoolean
  <2>c. allow <=> Evaluate(diff, request[r].principal, request[r].env, policies)
    OBVIOUS
  <2> HIDE DEF q, allow
  <2>4. /\ q \in Requests /\ q.diff = diff /\ q.allow = allow /\ q.under = policies
        /\ q.todo = request[r].todo /\ q.principal = request[r].principal
        /\ q.env = request[r].env
    BY <1>0, <1>p, <2>b, <2>3, Zenon DEF Requests
  <2>5. CASE Concluded(r, q)
    <3>1. PICK new \in Requests :
            /\ request' = [request EXCEPT ![r] = new]
            /\ IsConcluded(r, new)
            /\ new.todo = q.todo /\ new.diff = q.diff /\ new.allow = q.allow
            /\ new.under = q.under /\ new.principal = q.principal
            /\ new.env = q.env
      BY <2>4, <2>5, ConcludedRequest DEF IsConcluded
    <3>2. Justified(new)
      BY <1>0, <2>2, <2>4, <2>c, <3>1 DEF Justified, IsConcluded
    <3>3. QED
      BY <2>2, <3>1, <3>2
  <2>6. CASE /\ allow /\ runs # {}
             /\ request' = [request EXCEPT ![r] = [q EXCEPT !.at = "sandbox", !.todo = runs]]
             /\ UNCHANGED trace
    <3> DEFINE new == [q EXCEPT !.at = "sandbox", !.todo = runs]
    <3>0. new = [q EXCEPT !.at = "sandbox", !.todo = runs] /\ request' = [request EXCEPT ![r] = new]
      BY <2>6
    <3>1. runs \in SUBSET Files
      BY ProposalFiles
    <3> HIDE DEF new, runs
    <3>2. /\ new \in Requests /\ new.at = "sandbox" /\ new.todo = runs
          /\ new.diff = q.diff /\ new.allow = q.allow /\ new.under = q.under
          /\ new.principal = q.principal /\ new.env = q.env
      BY <2>4, <3>0, <3>1, Zenon DEF Requests
    <3>4. Justified(new) /\ StaysOpen(r, new)
      BY <2>4, <2>6, <2>c, <3>2 DEF Justified, StaysOpen, runs
    <3>5. QED
      BY <2>2, <3>0, <3>2, <3>4
  <2>7. QED
    BY <2>a, <2>5, <2>6
<1>3. CASE SandboxRan(r)
  <2>1. PICK f \in request[r].todo, success \in BOOLEAN :
          LET q == [request[r] EXCEPT !.todo = @ \ {f}, !.ran = @ /\ success]
          IN  IF q.todo = {} THEN Concluded(r, q)
              ELSE request' = [request EXCEPT ![r] = q] /\ UNCHANGED trace
    BY <1>3 DEF SandboxRan
  <2>2. request[r].at = "sandbox" /\ UNCHANGED <<policies, import>>
    BY <1>3 DEF SandboxRan
  <2>3. /\ request[r].allow
        /\ request[r].allow <=> Evaluate(request[r].diff, request[r].principal,
                                         request[r].env, request[r].under)
    BY <2>2 DEF Judged
  <2> DEFINE q == [request[r] EXCEPT !.todo = @ \ {f}, !.ran = @ /\ success]
  <2>a. \/ Concluded(r, q)
        \/ request' = [request EXCEPT ![r] = q] /\ UNCHANGED trace
    BY <2>1
  <2>b. q = [request[r] EXCEPT !.todo = @ \ {f}, !.ran = @ /\ success]
    OBVIOUS
  <2> HIDE DEF q
  <2>4. /\ q \in Requests /\ q.at = request[r].at /\ q.todo = request[r].todo \ {f}
        /\ q.diff = request[r].diff /\ q.allow = request[r].allow
        /\ q.under = request[r].under /\ q.principal = request[r].principal
        /\ q.env = request[r].env
    BY <1>0, <2>b, Zenon DEF Requests
  <2>5. CASE Concluded(r, q)
    <3>1. PICK new \in Requests :
            /\ request' = [request EXCEPT ![r] = new]
            /\ IsConcluded(r, new)
            /\ new.todo = q.todo /\ new.diff = q.diff /\ new.allow = q.allow
            /\ new.under = q.under /\ new.principal = q.principal
            /\ new.env = q.env
      BY <2>4, <2>5, ConcludedRequest DEF IsConcluded
    <3>2. Justified(new)
      BY <1>0, <2>3, <2>4, <3>1 DEF Justified, IsConcluded
    <3>3. QED
      BY <2>2, <3>1, <3>2
  <2>6. CASE request' = [request EXCEPT ![r] = q] /\ UNCHANGED trace
    <3>1. Justified(q) /\ StaysOpen(r, q)
      BY <1>0, <2>2, <2>3, <2>4, <2>6 DEF Justified, StaysOpen
    <3>2. QED
      BY <2>2, <2>4, <2>6, <3>1
  <2>7. QED
    BY <2>a, <2>5, <2>6
<1>4. CASE RequestRaises(r)
  <2> DEFINE new == [request[r] EXCEPT !.at = "raised"]
  <2>1. /\ new \in Requests /\ new.at = "raised" /\ new.todo = request[r].todo
        /\ new.diff = request[r].diff /\ new.under = request[r].under
    BY <1>0, Zenon DEF Requests
  <2>2. request' = [request EXCEPT ![r] = new]
    BY <1>4 DEF RequestRaises
  <2> HIDE DEF new
  <2>3. request[r].at \in {"propose", "sandbox"} /\ UNCHANGED <<policies, import, trace>>
    BY <1>4 DEF RequestRaises
  <2>4. Justified(new) /\ StaysOpen(r, new)
    BY <1>0, <2>1, <2>3 DEF Justified, StaysOpen
  <2>5. QED
    BY <2>1, <2>2, <2>3, <2>4
<1>5. QED
  BY <1>1, <1>2, <1>3, <1>4

(* What a step of an import does.                                          *)
LEMMA ImportSteps ==
  ASSUME ForgeTypeOK, Judged, NEW i \in Imports, ImportGated(i) \/ ImportParsed(i)
  PROVE  /\ UNCHANGED <<policies, request>>
         /\ import[i].at \in {"none", "gated"}
         /\ \E new \in ImportStates :
              /\ import' = [import EXCEPT ![i] = new]
              /\ new.under \subseteq policies
              /\ new.at \in {"gated", "imported"} => Evaluate(ImportDiff, Default, Dev, new.under)
              /\ \/ new.at \in {"gated", "raised"} /\ UNCHANGED trace
                 \/ /\ new.at \in {"denied", "invalid", "imported"}
                    /\ \E a, p \in BOOLEAN : trace' = Append(trace, Entry(new.at, i, a, p))
<1>0. import[i] \in ImportStates /\ import[i].under \subseteq policies /\ policies \in SUBSET Policies
  BY DEF ForgeTypeOK
<1>1. CASE ImportGated(i)
  <2>1. CASE Evaluate(ImportDiff, Default, Dev, policies)
    <3> DEFINE new == [at |-> "gated", under |-> policies]
    <3>1. new \in ImportStates
      BY <1>0 DEF ImportStates
    <3>2. import' = [import EXCEPT ![i] = new] /\ trace' = trace /\ UNCHANGED <<policies, request>>
          /\ import[i].at = "none"
      BY <1>1, <2>1 DEF ImportGated
    <3>3. QED
      BY <2>1, <3>1, <3>2
  <2>2. CASE ~Evaluate(ImportDiff, Default, Dev, policies)
    <3> DEFINE new == [at |-> "denied", under |-> policies]
    <3>1. new \in ImportStates
      BY <1>0 DEF ImportStates
    <3>2. /\ import' = [import EXCEPT ![i] = new]
          /\ trace' = Append(trace, Entry("denied", i, FALSE, FALSE))
          /\ UNCHANGED <<policies, request>> /\ import[i].at = "none"
      BY <1>1, <2>2 DEF ImportGated
    <3>3. QED
      BY <3>1, <3>2
  <2>3. QED
    BY <2>1, <2>2
<1>2. CASE ImportParsed(i)
  <2>1. PICK at \in {"imported", "invalid", "raised"} :
          /\ import' = [import EXCEPT ![i].at = at]
          /\ \/ at = "raised" /\ UNCHANGED trace
             \/ /\ at \in {"imported", "invalid"}
                /\ \E a, p \in BOOLEAN : trace' = Append(trace, Entry(at, i, a, p))
    BY <1>2 DEF ImportParsed
  <2>2. import[i].at = "gated" /\ UNCHANGED <<policies, request>>
    BY <1>2 DEF ImportParsed
  <2> DEFINE new == [import[i] EXCEPT !.at = at]
  <2>3. new \in ImportStates /\ new.at = at /\ new.under = import[i].under
    BY <1>0, Zenon DEF ImportStates
  <2>4. import' = [import EXCEPT ![i] = new]
    BY <2>1
  <2> HIDE DEF new
  <2>5. Evaluate(ImportDiff, Default, Dev, new.under)
    BY <2>2, <2>3 DEF Judged
  <2>6. QED
    BY <1>0, <2>1, <2>2, <2>3, <2>4, <2>5
<1>3. QED
  BY <1>1, <1>2

(* The steps, with all that the invariants ask of them.                    *)
RequestStep(r, new) ==
  /\ UNCHANGED <<policies, import>>
  /\ request[r].at \in {"none", "propose", "sandbox"}
  /\ request' = [request EXCEPT ![r] = new]
  /\ Justified(new)
  /\ StaysOpen(r, new) \/ IsConcluded(r, new)

ImportStep(i, new) ==
  /\ UNCHANGED <<policies, request>>
  /\ import[i].at \in {"none", "gated"}
  /\ import' = [import EXCEPT ![i] = new]
  /\ new.under \subseteq policies
  /\ new.at \in {"gated", "imported"} => Evaluate(ImportDiff, Default, Dev, new.under)
  /\ \/ new.at \in {"gated", "raised"} /\ UNCHANGED trace
     \/ /\ new.at \in {"denied", "invalid", "imported"}
        /\ \E a, p \in BOOLEAN : trace' = Append(trace, Entry(new.at, i, a, p))

LEMMA Steps ==
  ASSUME ForgeTypeOK, Judged, ForgeNext
  PROVE  \/ \E p \in Policies : AddPolicy(p)
         \/ \E r \in Requested, new \in Requests : RequestStep(r, new)
         \/ \E i \in Imports, new \in ImportStates : ImportStep(i, new)
<1>1. ASSUME NEW r \in Requested,
             \/ \E principal \in Callers \cup {Default}, env \in Environments :
              RequestChange(r, principal, env)
             \/ Proposed(r) \/ SandboxRan(r) \/ RequestRaises(r)
      PROVE  \E new \in Requests : RequestStep(r, new)
  BY <1>1, RequestSteps DEF RequestStep
<1>2. ASSUME NEW i \in Imports, ImportGated(i) \/ ImportParsed(i)
      PROVE  \E new \in ImportStates : ImportStep(i, new)
  BY <1>2, ImportSteps DEF ImportStep
<1>3. QED
  BY <1>1, <1>2 DEF ForgeNext

-----------------------------------------------------------------------------
(* The types, and what a verdict rests on.                                 *)
LEMMA TypesAndJudgedStart == ForgeInit => ForgeTypeOK /\ Judged
<1> SUFFICES ASSUME ForgeInit PROVE ForgeTypeOK /\ Judged
  OBVIOUS
<1>1. NoRequest \in Requests
  BY NoDiffIsAProposal, ForgeAssumption, Zenon DEF NoRequest, Requests
<1>2. NoImport \in ImportStates
  BY DEF NoImport, ImportStates
<1>3. <<>> \in Seq(TraceEntries)
  OBVIOUS
<1>4. ForgeTypeOK
  BY <1>1, <1>2, <1>3 DEF ForgeInit, ForgeTypeOK, NoRequest, NoImport
<1>5. Judged
  BY DEF ForgeInit, Judged, NoRequest, NoImport
<1>6. QED
  BY <1>4, <1>5

LEMMA TypesAndJudgedKept ==
  ForgeTypeOK /\ Judged /\ [ForgeNext]_forgeVars => ForgeTypeOK' /\ Judged'
<1> SUFFICES ASSUME ForgeTypeOK, Judged, [ForgeNext]_forgeVars
             PROVE  ForgeTypeOK' /\ Judged'
  OBVIOUS
<1>1. ASSUME NEW p \in Policies, AddPolicy(p)
      PROVE  ForgeTypeOK' /\ Judged'
  <2>1. policies' = policies \cup {p} /\ UNCHANGED <<request, import, trace>>
    BY <1>1 DEF AddPolicy
  <2>2. ForgeTypeOK'
    BY <2>1 DEF ForgeTypeOK
  <2>3. Judged'
    BY <2>1 DEF Judged
  <2>4. QED
    BY <2>2, <2>3
<1>2. ASSUME NEW r \in Requested, NEW new \in Requests, RequestStep(r, new)
      PROVE  ForgeTypeOK' /\ Judged'
  <2>1. new.allow \in BOOLEAN /\ (new.at = "passed") \in BOOLEAN
    BY DEF Requests
  <2>2. Entry("evaluated", r, new.allow, new.at = "passed") \in TraceEntries
    BY <2>1, EntriesAreTyped
  <2>3. trace' \in Seq(TraceEntries)
    BY <1>2, <2>2 DEF RequestStep, StaysOpen, IsConcluded, ForgeTypeOK
  <2>4. ForgeTypeOK'
    BY <1>2, <2>3, RequestStepTypes DEF RequestStep, Justified
  <2>5. Judged'
    <3>1. /\ request' = [request EXCEPT ![r] = new] /\ import' = import
          /\ request \in [Requested -> Requests]
      BY <1>2 DEF RequestStep, ForgeTypeOK
    <3>2. /\ new.at \in {"sandbox", "passed", "failed"} =>
               (new.allow <=> Evaluate(new.diff, new.principal, new.env, new.under))
          /\ new.at = "sandbox" => new.allow
          /\ new.at = "passed" => new.allow /\ new.ran
          /\ new.at # "none"
      BY <1>2 DEF RequestStep, Justified, StaysOpen, IsConcluded
    <3>3. QED
      BY <3>1, <3>2 DEF Judged
  <2>6. QED
    BY <2>4, <2>5
<1>3. ASSUME NEW i \in Imports, NEW new \in ImportStates, ImportStep(i, new)
      PROVE  ForgeTypeOK' /\ Judged'
  <2>1. trace' \in Seq(TraceEntries)
    <3>1. CASE UNCHANGED trace
      BY <3>1 DEF ForgeTypeOK
    <3>2. CASE /\ new.at \in {"denied", "invalid", "imported"}
               /\ \E a, p \in BOOLEAN : trace' = Append(trace, Entry(new.at, i, a, p))
      <4>1. PICK a \in BOOLEAN, p \in BOOLEAN : trace' = Append(trace, Entry(new.at, i, a, p))
        BY <3>2
      <4>2. Entry(new.at, i, a, p) \in TraceEntries
        BY <3>2, EntriesAreTyped
      <4>3. QED
        BY <4>1, <4>2 DEF ForgeTypeOK
    <3>3. QED
      BY <1>3, <3>1, <3>2 DEF ImportStep
  <2>2. ForgeTypeOK'
    BY <1>3, <2>1 DEF ForgeTypeOK, ImportStep
  <2>3. Judged'
    BY <1>3 DEF Judged, ImportStep, ForgeTypeOK
  <2>4. QED
    BY <2>2, <2>3
<1>4. CASE UNCHANGED forgeVars
  BY <1>4 DEF forgeVars, ForgeTypeOK, Judged
<1>5. QED
  BY <1>1, <1>2, <1>3, <1>4, Steps

LEMMA TypesAndJudged == ForgeSpec => [](ForgeTypeOK /\ Judged)
BY TypesAndJudgedStart, TypesAndJudgedKept, PTL DEF ForgeSpec

(* Every request, import and trace entry is of its type: what is judged is *)
(* a proposal, under policies that the gate still has.                     *)
THEOREM ForgeTypes == ForgeSpec => []ForgeTypeOK
BY TypesAndJudged, PTL

-----------------------------------------------------------------------------
(* A request that passed, or an import that went through, was permitted    *)
(* file by file, with no forbid, by the policies it was judged under.      *)
THEOREM Permission == ForgeSpec => []PassedIsPermitted
<1>1. ASSUME ForgeTypeOK, Judged PROVE PassedIsPermitted
  <2>1. ASSUME NEW r \in Requested, request[r].at = "passed"
        PROVE  /\ Evaluate(request[r].diff, request[r].principal, request[r].env, request[r].under)
               /\ request[r].ran
    BY <1>1, <2>1 DEF Judged
  <2>2. ASSUME NEW i \in Imports, import[i].at = "imported"
        PROVE  Permitted(AgentFile, OpenCode, Dev, import[i].under)
    BY <1>1, <2>2 DEF Judged, Evaluate, ImportDiff, Principal
  <2>3. QED
    BY <2>1, <2>2 DEF PassedIsPermitted, Evaluate, Permitted, Matching, Principal
<1>2. QED
  BY <1>1, TypesAndJudged, PTL

-----------------------------------------------------------------------------
(* One entry per decision.                                                 *)
RequestTraced(r) ==
  LET entries == EntriesOf({"evaluated"}, r)
  IN  IF request[r].at \in {"passed", "failed"}
      THEN \E n \in entries :
             /\ entries = {n}
             /\ trace[n].passed = (request[r].at = "passed")
             /\ trace[n].allow = request[r].allow
      ELSE entries = {}

ImportTraced(i) ==
  LET entries == EntriesOf({"denied", "invalid", "imported"}, i)
  IN  IF import[i].at \in {"denied", "invalid", "imported"}
      THEN \E n \in entries : entries = {n} /\ trace[n].kind = import[i].at
      ELSE entries = {}

LEMMA TraceAppends ==
  ASSUME trace \in Seq(TraceEntries), NEW e \in TraceEntries, trace' = Append(trace, e)
  PROVE  /\ DOMAIN trace' = DOMAIN trace \cup {Len(trace) + 1}
         /\ Len(trace) + 1 \notin DOMAIN trace
         /\ \A n \in DOMAIN trace : trace'[n] = trace[n]
         /\ trace'[Len(trace) + 1] = e
OBVIOUS

(* An entry of one decision is none of another's.                          *)
LEMMA OthersKeepTheirEntries ==
  ASSUME trace \in Seq(TraceEntries), NEW e \in TraceEntries, trace' = Append(trace, e),
         NEW kinds, NEW k, e.kind \notin kinds \/ e.of # k
  PROVE  EntriesOf(kinds, k)' = EntriesOf(kinds, k)
BY TraceAppends DEF EntriesOf

LEMMA OwnEntry ==
  ASSUME trace \in Seq(TraceEntries), NEW e \in TraceEntries, trace' = Append(trace, e),
         NEW kinds, NEW k, e.kind \in kinds, e.of = k, EntriesOf(kinds, k) = {}
  PROVE  EntriesOf(kinds, k)' = {Len(trace) + 1} /\ trace'[Len(trace) + 1] = e
BY TraceAppends DEF EntriesOf

(* A request that the step did not touch, and no entry of its own.         *)
LEMMA RequestStays ==
  ASSUME trace \in Seq(TraceEntries), NEW r \in Requested, RequestTraced(r),
         request'[r] = request[r],
         \/ UNCHANGED trace
         \/ \E e \in TraceEntries : /\ trace' = Append(trace, e)
                                    /\ e.kind # "evaluated" \/ e.of # r
  PROVE  RequestTraced(r)'
<1>1. CASE UNCHANGED trace
  BY <1>1 DEF RequestTraced, EntriesOf
<1>2. ASSUME NEW e \in TraceEntries, trace' = Append(trace, e), e.kind # "evaluated" \/ e.of # r
      PROVE  RequestTraced(r)'
  <2>1. EntriesOf({"evaluated"}, r)' = EntriesOf({"evaluated"}, r)
    BY <1>2, OthersKeepTheirEntries
  <2>2. \A n \in EntriesOf({"evaluated"}, r) : trace'[n] = trace[n]
    BY <1>2, TraceAppends DEF EntriesOf
  <2>3. QED
    BY <2>1, <2>2 DEF RequestTraced
<1>3. QED
  BY <1>1, <1>2

LEMMA ImportStays ==
  ASSUME trace \in Seq(TraceEntries), NEW i \in Imports, ImportTraced(i),
         import'[i] = import[i],
         \/ UNCHANGED trace
         \/ \E e \in TraceEntries : /\ trace' = Append(trace, e)
                                    /\ e.kind = "evaluated" \/ e.of # i
  PROVE  ImportTraced(i)'
<1> DEFINE kinds == {"denied", "invalid", "imported"}
<1>1. CASE UNCHANGED trace
  BY <1>1 DEF ImportTraced, EntriesOf
<1>2. ASSUME NEW e \in TraceEntries, trace' = Append(trace, e), e.kind = "evaluated" \/ e.of # i
      PROVE  ImportTraced(i)'
  <2>1. EntriesOf(kinds, i)' = EntriesOf(kinds, i)
    BY <1>2, OthersKeepTheirEntries
  <2>2. \A n \in EntriesOf(kinds, i) : trace'[n] = trace[n]
    BY <1>2, TraceAppends DEF EntriesOf
  <2>3. QED
    BY <2>1, <2>2 DEF ImportTraced
<1>3. QED
  BY <1>1, <1>2

LEMMA TracedStarts == ForgeInit => OneEntryPerDecision
BY DEF ForgeInit, OneEntryPerDecision, EntriesOf, NoRequest, NoImport

LEMMA TracedKept ==
  ForgeTypeOK /\ Judged /\ OneEntryPerDecision /\ [ForgeNext]_forgeVars => OneEntryPerDecision'
<1> SUFFICES ASSUME ForgeTypeOK, Judged, [ForgeNext]_forgeVars,
                    \A r \in Requested : RequestTraced(r), \A i \in Imports : ImportTraced(i)
             PROVE  /\ \A r \in Requested : RequestTraced(r)'
                    /\ \A i \in Imports : ImportTraced(i)'
  BY DEF OneEntryPerDecision, RequestTraced, ImportTraced
<1>t. trace \in Seq(TraceEntries)
  BY DEF ForgeTypeOK
<1>1. CASE UNCHANGED <<request, import, trace>>
  BY <1>1 DEF RequestTraced, ImportTraced, EntriesOf
<1>2. ASSUME NEW r \in Requested, NEW new \in Requests, RequestStep(r, new)
      PROVE  /\ \A s \in Requested : RequestTraced(s)'
             /\ \A i \in Imports : ImportTraced(i)'
  <2> DEFINE e == Entry("evaluated", r, new.allow, new.at = "passed")
  <2>1. e \in TraceEntries
    <3>1. new.allow \in BOOLEAN /\ (new.at = "passed") \in BOOLEAN
      BY DEF Requests
    <3>2. QED
      BY <3>1, EntriesAreTyped
  <2>2. e.kind = "evaluated" /\ e.of = r /\ e.allow = new.allow /\ e.passed = (new.at = "passed")
    BY DEF Entry
  <2>3. /\ request'[r] = new /\ \A s \in Requested : s # r => request'[s] = request[s]
        /\ import' = import
    BY <1>2 DEF RequestStep, ForgeTypeOK
  <2>4. UNCHANGED trace \/ trace' = Append(trace, e)
    BY <1>2 DEF RequestStep, StaysOpen, IsConcluded
  <2> HIDE DEF e
  <2>5. \A i \in Imports : ImportTraced(i)'
    BY <1>t, <2>1, <2>2, <2>3, <2>4, ImportStays
  <2>6. ASSUME NEW s \in Requested, s # r
        PROVE  RequestTraced(s)'
    BY <1>t, <2>1, <2>2, <2>3, <2>4, <2>6, RequestStays
  <2>7. RequestTraced(r)'
    <3>1. EntriesOf({"evaluated"}, r) = {}
      BY <1>2 DEF RequestStep, RequestTraced
    <3>2. CASE StaysOpen(r, new)
      BY <2>3, <3>1, <3>2 DEF StaysOpen, RequestTraced, EntriesOf
    <3>3. CASE IsConcluded(r, new)
      <4>1. trace' = Append(trace, e) /\ new.at \in {"passed", "failed"}
        BY <3>3 DEF IsConcluded, e
      <4>2. EntriesOf({"evaluated"}, r)' = {Len(trace) + 1} /\ trace'[Len(trace) + 1] = e
        BY <1>t, <2>1, <2>2, <3>1, <4>1, OwnEntry
      <4>3. QED
        BY <2>2, <2>3, <4>1, <4>2 DEF RequestTraced
    <3>4. QED
      BY <1>2, <3>2, <3>3 DEF RequestStep
  <2>8. QED
    BY <2>5, <2>6, <2>7
<1>3. ASSUME NEW i \in Imports, NEW new \in ImportStates, ImportStep(i, new)
      PROVE  /\ \A r \in Requested : RequestTraced(r)'
             /\ \A j \in Imports : ImportTraced(j)'
  <2> DEFINE kinds == {"denied", "invalid", "imported"}
  <2>1. /\ import'[i] = new /\ \A j \in Imports : j # i => import'[j] = import[j]
        /\ request' = request
    BY <1>3 DEF ImportStep, ForgeTypeOK
  <2>2. EntriesOf(kinds, i) = {}
    BY <1>3 DEF ImportStep, ImportTraced
  <2>3. CASE new.at \in {"gated", "raised"} /\ UNCHANGED trace
    <3>1. ImportTraced(i)'
      BY <2>1, <2>2, <2>3 DEF ImportTraced, EntriesOf
    <3>2. QED
      BY <1>t, <2>1, <2>3, <3>1, ImportStays, RequestStays
  <2>4. ASSUME new.at \in kinds, NEW a \in BOOLEAN, NEW p \in BOOLEAN,
               trace' = Append(trace, Entry(new.at, i, a, p))
        PROVE  /\ \A r \in Requested : RequestTraced(r)'
               /\ \A j \in Imports : ImportTraced(j)'
    <3> DEFINE e == Entry(new.at, i, a, p)
    <3>1. e \in TraceEntries /\ trace' = Append(trace, e)
      BY <2>4, EntriesAreTyped
    <3>2. e.kind = new.at /\ e.of = i
      BY DEF Entry
    <3> HIDE DEF e
    <3>3. \A r \in Requested : RequestTraced(r)'
      BY <1>t, <2>1, <2>4, <3>1, <3>2, RequestStays
    <3>4. ASSUME NEW j \in Imports, j # i
          PROVE  ImportTraced(j)'
      BY <1>t, <2>1, <3>1, <3>2, <3>4, ImportStays
    <3>5. ImportTraced(i)'
      <4>1. EntriesOf(kinds, i)' = {Len(trace) + 1} /\ trace'[Len(trace) + 1] = e
        BY <1>t, <2>2, <2>4, <3>1, <3>2, OwnEntry
      <4>2. QED
        BY <2>1, <2>4, <3>2, <4>1 DEF ImportTraced
    <3>6. QED
      BY <3>3, <3>4, <3>5
  <2>5. QED
    BY <1>3, <2>3, <2>4 DEF ImportStep
<1>4. CASE \E p \in Policies : AddPolicy(p)
  BY <1>1, <1>4 DEF AddPolicy
<1>5. CASE UNCHANGED forgeVars
  BY <1>1, <1>5 DEF forgeVars
<1>6. QED
  BY <1>2, <1>3, <1>4, <1>5, Steps

(* Whatever was traced in between, a decision that was returned left one   *)
(* entry, with what was returned, and one that was not left none.          *)
THEOREM OneEntry == ForgeSpec => []OneEntryPerDecision
BY TypesAndJudged, TracedStarts, TracedKept, PTL DEF ForgeSpec

-----------------------------------------------------------------------------
(* More policies change a verdict in one way only each: a forbid takes it  *)
(* back, a permit grants it.                                               *)
LEMMA VerdictsChange ==
  ASSUME NEW diff, NEW env, NEW under, NEW more, under \subseteq more,
         Evaluate(diff, Default, env, under) # Evaluate(diff, Default, env, more)
  PROVE  \E p \in more \ under :
           p.effect = (IF Evaluate(diff, Default, env, under) THEN "forbid" ELSE "permit")
<1> DEFINE who == diff.engine
<1>1. \A u : Evaluate(diff, Default, env, u) <=>
               diff.parses /\ \A f \in diff.files : Permitted(f, who, env, u)
  BY DEF Evaluate, Principal
<1>2. CASE Evaluate(diff, Default, env, under)
  <2>1. PICK f \in diff.files : Permitted(f, who, env, under) /\ ~Permitted(f, who, env, more)
    BY <1>1, <1>2 DEF Evaluate
  <2>2. \E p \in more \ under : p.effect = "forbid"
    BY <2>1 DEF Permitted, Matching
  <2>3. QED
    BY <1>2, <2>2
<1>3. CASE ~Evaluate(diff, Default, env, under)
  <2>1. PICK f \in diff.files : ~Permitted(f, who, env, under) /\ Permitted(f, who, env, more)
    BY <1>1, <1>3 DEF Evaluate
  <2>2. \E p \in more \ under : p.effect = "permit"
    BY <2>1 DEF Permitted, Matching
  <2>3. QED
    BY <1>3, <2>2
<1>4. QED
  BY <1>2, <1>3

(* A replay under the policies of now differs from the verdict in the      *)
(* trace only for a policy added since, or for a principal or an           *)
(* environment that the request named and its entry has not.               *)
THEOREM Replays == ForgeSpec => []ReplayAgrees
<1>1. ASSUME ForgeTypeOK, Judged, OneEntryPerDecision PROVE ReplayAgrees
  <2> SUFFICES ASSUME NEW n \in DOMAIN trace, Replayable(trace[n]), ~Reproducible(trace[n]),
                      request[trace[n].of].principal = Default,
                      request[trace[n].of].env = Dev
               PROVE  \E p \in policies \ request[trace[n].of].under :
                        p.effect = (IF trace[n].allow THEN "forbid" ELSE "permit")
    BY DEF ReplayAgrees
  <2> DEFINE r == trace[n].of
  <2>1. trace[n] \in TraceEntries /\ trace[n].kind = "evaluated"
    BY <1>1 DEF ForgeTypeOK, Replayable
  <2>2. r \in Requested
    BY <2>1 DEF TraceEntries
  <2>3. n \in EntriesOf({"evaluated"}, r)
    BY <2>1 DEF EntriesOf
  <2>4. request[r].at \in {"passed", "failed"} /\ trace[n].allow = request[r].allow
    BY <1>1, <2>2, <2>3 DEF OneEntryPerDecision
  <2>5. /\ request[r].allow <=> Evaluate(request[r].diff, Default, Dev, request[r].under)
        /\ request[r].allow \in BOOLEAN /\ request[r].under \subseteq policies
        /\ request[r].diff \in Proposals
    BY <1>1, <2>2, <2>4 DEF Judged, ForgeTypeOK, Requests
  <2>6. Evaluate(request[r].diff, Default, Dev, policies) # trace[n].allow
    BY DEF Reproducible
  <2>7. /\ Evaluate(request[r].diff, Default, Dev, request[r].under) \in BOOLEAN
        /\ Evaluate(request[r].diff, Default, Dev, policies) \in BOOLEAN
    BY <2>5, EvaluateIsBoolean
  <2>8. Evaluate(request[r].diff, Default, Dev, request[r].under) = trace[n].allow
    BY <2>4, <2>5, <2>7
  <2>9. QED
    BY <2>5, <2>6, <2>8, VerdictsChange
<1>2. QED
  BY <1>1, TypesAndJudged, OneEntry, PTL
=============================================================================
