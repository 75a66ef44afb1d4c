------------------------- MODULE IdempotencyProofs -------------------------
(***************************************************************************)
(* TLAPS proofs about Idempotency: whatever the number of runs, attempts,  *)
(* faults and purges, one key is created for each record there was, two    *)
(* clients told of one record are told one outcome, and, where no take-    *)
(* over falls inside a re-mint's statement, the recorded secret is the     *)
(* one that opens the key.                                                 *)
(***************************************************************************)
EXTENDS Idempotency, FiniteSetTheorems, TLAPS

USE DEF Working, Retried, Answered, Armed

\* What the parts of the invariant say of the numbers they compare.
LEMMA Shapes ==
    ASSUME TypeOK
    PROVE  /\ MaxAttempts \in Nat /\ minted \in Nat /\ purges \in Nat
           /\ marker.attempt \in Nat /\ marker.target \in Nat /\ marker.by \in Nat
           /\ marker.target \in Attempts \cup {0}
           /\ \A r \in Runs : /\ runs[r].attempt \in Nat /\ runs[r].target \in Nat
                              /\ runs[r].target \in Attempts \cup {0}
                              /\ runs[r].attempt \in 0..MaxAttempts
                              /\ runs[r] \in RunType
BY IdempotencyAssumption DEF TypeOK, RunType, Attempts

\* No record means no target, so a new id joins the targets by itself; every other
\* step keeps them within what they were.
LEMMA TargetsShrink ==
    ASSUME TypeOK, TargetsCounted, Targets' \subseteq Targets,
           purges' = purges, (marker.state = "none") = (marker.state = "none")'
    PROVE  TargetsCounted'
<1>1. IsFiniteSet(Attempts)
  BY IdempotencyAssumption, FS_Interval DEF Attempts
<1>2. IsFiniteSet(Targets)
  BY <1>1, FS_Subset DEF Targets
<1>3. Cardinality(Targets') <= Cardinality(Targets)
  BY <1>2, FS_Subset
<1>4. Cardinality(Targets) \in Nat /\ Cardinality(Targets') \in Nat
  BY <1>2, FS_Subset, FS_CardinalityType
<1> QED BY <1>3, <1>4, Shapes DEF TargetsCounted

\* A step of one run that keeps its attempt and target or lets both go, and touches
\* no table: the run is not answered with an outcome, lands a re-mint only while it
\* holds the marker, and has no key to report.
LEMMA RunStep ==
    ASSUME IInv, NEW r \in Runs,
           UNCHANGED <<marker, secret, revoked, minted, purges>>,
           faults' \in 0..MaxFaults,
           runs' \in [Runs -> RunType],
           \A p \in Runs \ {r} : runs'[p] = runs[p],
           \/ runs'[r].attempt = 0 /\ runs'[r].target = 0 /\ runs'[r].pc \notin Armed
           \/ /\ runs'[r].attempt = runs[r].attempt /\ runs'[r].target = runs[r].target
              /\ runs[r].pc \in Armed,
           runs'[r].pc \notin {"recorded", "replayed"},
           runs'[r].pc = "landing" => Holds(runs[r].attempt),
           runs'[r].pc = "finish" => runs'[r].kind = "refused"
    PROVE  IInv'
<1>1. TypeOK'
  BY DEF IInv, TypeOK
<1>2. FromMinted'
  <2>1. \A p \in Runs : /\ runs'[p].attempt <= minted /\ runs'[p].target <= minted
                        /\ runs'[p].pc \in Armed => runs'[p].attempt # 0 /\ runs'[p].target # 0
                        /\ runs'[p].pc = "replayed" => runs'[p].target # 0
                        /\ runs'[p].pc = "finish" => runs'[p].kind # "none"
    BY Shapes DEF IInv, FromMinted
  <2> QED BY <2>1 DEF IInv, FromMinted
<1>3. AttemptsDiffer'
  BY DEF IInv, AttemptsDiffer
<1>4. HolderOnTarget'
  BY DEF IInv, HolderOnTarget, Holds
<1>5. LandingHolds'
  BY DEF IInv, LandingHolds, Holds
<1>6. IssuedHolds'
  BY DEF IInv, IssuedHolds, Holds
<1>7. (Overtaking \/ RecordedSecretWorks)'
  BY DEF IInv, RecordedSecretWorks
<1>8. ToldIsRecorded' /\ AnswersAgree'
  BY DEF IInv, ToldIsRecorded, AnswersAgree
<1>9. TargetsCounted'
  <2>1. Targets' \subseteq Targets
    BY Shapes DEF IInv, Targets, Attempts
  <2> QED BY <2>1, TargetsShrink DEF IInv
<1> QED BY <1>1, <1>2, <1>3, <1>4, <1>5, <1>6, <1>7, <1>8, <1>9 DEF IInv

\* Runs that let go of everything.
LEMMA BareStep ==
    ASSUME IInv, NEW r \in Runs, NEW pc \in (Working \cup Retried \cup Answered) \ Armed,
           pc # "replayed",
           UNCHANGED <<marker, secret, revoked, minted, purges>>,
           faults' \in 0..MaxFaults,
           runs' = [runs EXCEPT ![r] = Bare(r, pc)]
    PROVE  IInv'
<1>1. Bare(r, pc) \in RunType /\ runs \in [Runs -> RunType]
  BY Shapes DEF IInv, TypeOK, RunType, Bare, Run
<1>2. /\ runs' \in [Runs -> RunType]
      /\ \A p \in Runs \ {r} : runs'[p] = runs[p]
      /\ runs'[r] = Bare(r, pc)
  BY <1>1
<1>3. runs'[r].attempt = 0 /\ runs'[r].target = 0 /\ runs'[r].pc = pc
  BY <1>2 DEF Bare, Run
<1> QED BY <1>2, <1>3, RunStep

\* A run that goes on to `pc` with the attempt and the target it has.
LEMMA MoveStep ==
    ASSUME IInv, NEW r \in Runs, NEW pc \in Armed \ {"recorded"},
           runs[r].pc \in Armed,
           UNCHANGED <<marker, secret, revoked, minted, purges>>,
           faults' \in 0..MaxFaults,
           pc = "landing" => Holds(runs[r].attempt),
           \/ runs' = [runs EXCEPT ![r].pc = pc] /\ pc # "finish"
           \/ runs' = [runs EXCEPT ![r].pc = pc, ![r].kind = "refused"]
    PROVE  IInv'
<1>1. runs \in [Runs -> RunType] /\ pc \in Working
  BY DEF IInv, TypeOK
<1>2. CASE runs' = [runs EXCEPT ![r].pc = pc] /\ pc # "finish"
  <2>1. /\ runs' \in [Runs -> RunType]
        /\ \A p \in Runs \ {r} : runs'[p] = runs[p]
        /\ runs'[r].attempt = runs[r].attempt /\ runs'[r].target = runs[r].target
        /\ runs'[r].pc = pc
    BY <1>1, <1>2 DEF RunType
  <2> QED BY <1>2, <2>1, RunStep
<1>3. CASE runs' = [runs EXCEPT ![r].pc = pc, ![r].kind = "refused"]
  <2> DEFINE next == [runs[r] EXCEPT !.pc = pc, !.kind = "refused"]
  <2>1. /\ next \in RunType
        /\ next.attempt = runs[r].attempt /\ next.target = runs[r].target
        /\ next.pc = pc /\ next.kind = "refused"
    BY <1>1 DEF RunType
  <2>2. runs' = [runs EXCEPT ![r] = next]
    BY <1>1, <1>3
  <2> HIDE DEF next
  <2>3. /\ runs' \in [Runs -> RunType]
        /\ \A p \in Runs \ {r} : runs'[p] = runs[p]
        /\ runs'[r] = next
    BY <1>1, <2>1, <2>2
  <2> QED BY <2>1, <2>3, RunStep
<1> QED BY <1>2, <1>3

\* The steps that only move a run.
LEMMA QuietSteps ==
    ASSUME IInv, NEW r \in Runs,
           \/ Refuse(r) \/ HandlerFails(r) \/ ReMintReads(r) \/ ReadWhy(r) \/ Crash(r)
    PROVE  IInv'
<1>1. faults' \in 0..MaxFaults
  BY IdempotencyAssumption
     DEF Refuse, HandlerFails, ReMintReads, ReadWhy, Crash, Fault, IInv, TypeOK
<1>2. CASE Refuse(r)
  <2>1. runs' = [runs EXCEPT ![r].pc = "finish", ![r].kind = "refused"]
    BY <1>2 DEF Refuse, Refusal
  <2>2. runs[r].pc \in Armed /\ UNCHANGED <<marker, secret, revoked, minted, purges>>
    BY <1>2 DEF Refuse
  <2>3. "finish" \in Armed \ {"recorded"}
    OBVIOUS
  <2> QED BY <1>1, <2>1, <2>2, <2>3, MoveStep
<1>3. CASE HandlerFails(r)
  <2>1. runs' = [runs EXCEPT ![r].pc = "release"]
    BY <1>3 DEF HandlerFails
  <2>2. runs[r].pc \in Armed /\ UNCHANGED <<marker, secret, revoked, minted, purges>>
    BY <1>3 DEF HandlerFails
  <2>3. "release" \in Armed \ {"recorded"}
    OBVIOUS
  <2> QED BY <1>1, <2>1, <2>2, <2>3, MoveStep
<1>4. CASE ReMintReads(r)
  <2>1. \/ Holds(runs[r].attempt) /\ runs' = [runs EXCEPT ![r].pc = "landing"]
        \/ runs' = [runs EXCEPT ![r].pc = "finish", ![r].kind = "refused"]
    BY <1>4 DEF ReMintReads, Refusal
  <2> QED BY <1>1, <1>4, <2>1, MoveStep DEF ReMintReads
<1>5. CASE ReadWhy(r)
  <2>1. \E pc \in {"gone", "unrecorded"} : runs' = [runs EXCEPT ![r] = Bare(r, pc)]
    BY <1>5 DEF ReadWhy
  <2> QED BY <1>1, <1>5, <2>1, BareStep DEF ReadWhy
<1>6. CASE Crash(r)
  BY <1>1, <1>6, BareStep DEF Crash
<1> QED BY <1>2, <1>3, <1>4, <1>5, <1>6

\* Reading the record ends in a bare run, or in the replay of a kept outcome.
LEMMA ReadRecordStep ==
    ASSUME IInv, NEW r \in Runs, ReadRecord(r)
    PROVE  IInv'
<1> DEFINE told == Run(r, "replayed", 0, marker.target, marker.kind, marker.by)
<1>1. \/ \E pc \in {"failed", "reused", "rearm", "takeover"} : runs' = [runs EXCEPT ![r] = Bare(r, pc)]
      \/ marker.state = "finished" /\ runs' = [runs EXCEPT ![r] = told]
  BY DEF ReadRecord, AfterRead
<1>2. /\ UNCHANGED <<marker, secret, revoked, minted, purges>>
      /\ faults' \in 0..MaxFaults /\ purges' = purges
  BY DEF ReadRecord, IInv, TypeOK
<1>3. CASE \E pc \in {"failed", "reused", "rearm", "takeover"} :
              runs' = [runs EXCEPT ![r] = Bare(r, pc)]
  BY <1>2, <1>3, BareStep
<1>4. CASE marker.state = "finished" /\ runs' = [runs EXCEPT ![r] = told]
  <2>1. told \in RunType /\ runs \in [Runs -> RunType]
    BY Shapes DEF IInv, TypeOK, RunType, Run
  <2>2. /\ runs' \in [Runs -> RunType]
        /\ \A p \in Runs \ {r} : runs'[p] = runs[p]
        /\ runs'[r] = told
    BY <1>4, <2>1
  <2>3. /\ runs'[r].pc = "replayed" /\ runs'[r].attempt = 0
        /\ runs'[r].target = marker.target /\ runs'[r].kind = marker.kind
        /\ runs'[r].by = marker.by
    BY <2>2 DEF Run
  <2> HIDE DEF told
  <2>4. TypeOK'
    BY <1>2, <2>2 DEF ReadRecord, IInv, TypeOK
  <2>5. FromMinted'
    <3>1. \A p \in Runs : /\ runs'[p].attempt <= minted /\ runs'[p].target <= minted
                          /\ runs'[p].pc \in Armed => runs'[p].attempt # 0 /\ runs'[p].target # 0
                          /\ runs'[p].pc = "replayed" => runs'[p].target # 0
                          /\ runs'[p].pc = "finish" => runs'[p].kind # "none"
      BY <1>4, <2>2, <2>3, Shapes DEF IInv, FromMinted
    <3> QED BY <1>2, <3>1 DEF IInv, FromMinted
  <2>6. AttemptsDiffer' /\ HolderOnTarget' /\ LandingHolds' /\ IssuedHolds'
    BY <1>2, <2>2, <2>3
       DEF IInv, AttemptsDiffer, HolderOnTarget, LandingHolds, IssuedHolds, Holds
  <2>7. (Overtaking \/ RecordedSecretWorks)'
    BY <1>2 DEF IInv, RecordedSecretWorks
  <2>8. ToldIsRecorded' /\ AnswersAgree'
    BY <1>2, <1>4, <2>2, <2>3 DEF IInv, ToldIsRecorded, AnswersAgree
  <2>9. TargetsCounted'
    <3>1. Targets' \subseteq Targets
      BY <1>2, <2>2, <2>3, Shapes DEF IInv, Targets
    <3> QED BY <1>2, <3>1, TargetsShrink DEF IInv
  <2> QED BY <2>4, <2>5, <2>6, <2>7, <2>8, <2>9 DEF IInv
<1> QED BY <1>1, <1>3, <1>4

\* A secret is put on a key: on a new one, or by a re-mint that lands.
LEMMA IssueStep ==
    ASSUME IInv, NEW r \in Runs, NEW pc \in {"finish", "release"},
           \/ runs[r].pc = "create" /\ secret[runs[r].target] = 0
           \/ runs[r].pc = "landing",
           UNCHANGED <<marker, revoked, minted, purges>>,
           faults' \in 0..MaxFaults,
           secret' = [secret EXCEPT ![runs[r].target] = runs[r].attempt],
           runs' \in [Runs -> RunType],
           \A p \in Runs \ {r} : runs'[p] = runs[p],
           runs'[r].attempt = runs[r].attempt, runs'[r].target = runs[r].target,
           runs'[r].pc = pc, pc = "finish" => runs'[r].kind = "ok"
    PROVE  IInv'
<1> DEFINE t == runs[r].target
           a == runs[r].attempt
<1>1. /\ t \in Attempts /\ a \in Attempts /\ a # 0
      /\ secret' \in [Attempts -> 0..MaxAttempts]
      /\ secret'[t] = a
      /\ \A u \in Attempts \ {t} : secret'[u] = secret[u]
  BY Shapes DEF IInv, TypeOK, FromMinted, Attempts
<1>2. TypeOK'
  BY <1>1 DEF IInv, TypeOK
<1>3. FromMinted' /\ AttemptsDiffer' /\ HolderOnTarget' /\ LandingHolds'
  BY <1>1 DEF IInv, FromMinted, AttemptsDiffer, HolderOnTarget, LandingHolds, Holds
<1>4. IssuedHolds'
  <2> SUFFICES ASSUME NEW p \in Runs, p # r, ~Overtaking,
                      runs[p].pc = "finish", runs[p].kind = "ok", Holds(runs[p].attempt)
               PROVE  \/ secret'[runs[p].target] = runs[p].attempt
                      \/ runs[p].target \in revoked
    BY <1>1 DEF IssuedHolds, Holds
  <2>1. runs[p].attempt # 0 /\ runs[p].target = marker.target /\ runs[p].target \in Attempts
    BY Shapes DEF IInv, FromMinted, HolderOnTarget
  <2>2. secret[runs[p].target] = runs[p].attempt \/ runs[p].target \in revoked
    BY DEF IInv, IssuedHolds
  <2>3. CASE runs[p].target # t
    BY <1>1, <2>1, <2>2, <2>3
  <2>4. CASE runs[p].target = t /\ runs[p].target \notin revoked
    <3>1. runs[r].pc = "landing"
      BY <2>1, <2>2, <2>4
    <3>2. Holds(a)
      BY <2>1, <2>4, <3>1 DEF IInv, LandingHolds
    <3>3. runs[p].attempt = a
      BY <3>2 DEF Holds
    <3> QED BY <2>1, <3>3 DEF IInv, AttemptsDiffer
  <2> QED BY <2>3, <2>4
<1>5. (Overtaking \/ RecordedSecretWorks)'
  <2> SUFFICES ASSUME ~Overtaking, marker.kind = "ok", marker.target \notin revoked
               PROVE  secret'[marker.target] = marker.by
    BY DEF RecordedSecretWorks
  <2>1. /\ marker.state = "finished" /\ marker.by = marker.attempt /\ marker.attempt # 0
        /\ marker.target \in Attempts
    BY Shapes DEF IInv, TypeOK, FromMinted
  <2>2. secret[marker.target] = marker.by
    BY DEF IInv, RecordedSecretWorks
  <2>3. t # marker.target
    BY <2>1, <2>2 DEF IInv, LandingHolds, Holds
  <2> QED BY <1>1, <2>1, <2>2, <2>3
<1>6. ToldIsRecorded' /\ AnswersAgree'
  BY DEF IInv, ToldIsRecorded, AnswersAgree
<1>7. TargetsCounted'
  <2>1. Targets' \subseteq Targets
    BY <1>1, Shapes DEF IInv, Targets
  <2> QED BY <2>1, TargetsShrink DEF IInv
<1> QED BY <1>2, <1>3, <1>4, <1>5, <1>6, <1>7 DEF IInv

\* The create of the key, and the re-mint of its secret.
LEMMA KeySteps ==
    ASSUME IInv, NEW r \in Runs, InsertKey(r) \/ ReMintLands(r)
    PROVE  IInv'
<1> DEFINE ok == [runs[r] EXCEPT !.pc = "finish", !.kind = "ok"]
           failed == [runs[r] EXCEPT !.pc = "release"]
<1>1. /\ runs \in [Runs -> RunType]
      /\ ok \in RunType /\ failed \in RunType
      /\ ok.attempt = runs[r].attempt /\ ok.target = runs[r].target /\ ok.pc = "finish"
      /\ ok.kind = "ok"
      /\ failed.attempt = runs[r].attempt /\ failed.target = runs[r].target
      /\ failed.pc = "release"
  BY DEF IInv, TypeOK, RunType
<1>2. UNCHANGED <<marker, revoked, minted, purges>> /\ faults' \in 0..MaxFaults
  BY IdempotencyAssumption DEF InsertKey, ReMintLands, Fault, IInv, TypeOK
<1>3. \/ /\ runs[r].pc = "create" /\ UNCHANGED secret
         /\ runs' = [runs EXCEPT ![r].pc = "remint"]
      \/ /\ runs[r].pc = "landing" /\ UNCHANGED secret
         /\ runs' = [runs EXCEPT ![r].pc = "finish", ![r].kind = "refused"]
      \/ /\ \/ runs[r].pc = "create" /\ secret[runs[r].target] = 0
            \/ runs[r].pc = "landing"
         /\ secret' = [secret EXCEPT ![runs[r].target] = runs[r].attempt]
         /\ runs' = [runs EXCEPT ![r] = ok] \/ runs' = [runs EXCEPT ![r] = failed]
  BY <1>1 DEF InsertKey, ReMintLands, Refusal
<1>4. CASE \/ /\ runs[r].pc = "create" /\ UNCHANGED secret
              /\ runs' = [runs EXCEPT ![r].pc = "remint"]
           \/ /\ runs[r].pc = "landing" /\ UNCHANGED secret
              /\ runs' = [runs EXCEPT ![r].pc = "finish", ![r].kind = "refused"]
  <2>1. {"finish", "remint"} \subseteq Armed \ {"recorded"} /\ runs[r].pc \in Armed
    BY <1>4
  <2> QED BY <1>2, <1>4, <2>1, MoveStep
<1>5. CASE /\ \/ runs[r].pc = "create" /\ secret[runs[r].target] = 0
              \/ runs[r].pc = "landing"
           /\ secret' = [secret EXCEPT ![runs[r].target] = runs[r].attempt]
           /\ runs' = [runs EXCEPT ![r] = ok] \/ runs' = [runs EXCEPT ![r] = failed]
  <2> HIDE DEF ok, failed
  <2>1. /\ runs' \in [Runs -> RunType]
        /\ \A p \in Runs \ {r} : runs'[p] = runs[p]
        /\ runs'[r] = ok \/ runs'[r] = failed
    BY <1>1, <1>5
  <2>2. /\ runs'[r].attempt = runs[r].attempt /\ runs'[r].target = runs[r].target
        /\ runs'[r].pc \in {"finish", "release"}
        /\ runs'[r].pc = "finish" => runs'[r].kind = "ok"
    BY <1>1, <2>1
  <2> QED BY <1>2, <1>5, <2>1, <2>2, IssueStep
<1> QED BY <1>3, <1>4, <1>5

\* The statement of finish, which records the holder's outcome or touches nothing.
LEMMA FinishStep ==
    ASSUME IInv, NEW r \in Runs, Finish(r)
    PROVE  IInv'
<1> DEFINE told == [runs[r] EXCEPT !.pc = "recorded", !.by = runs[r].attempt]
           record == [marker EXCEPT !.state = "finished", !.kind = runs[r].kind,
                                    !.by = runs[r].attempt]
<1>1. /\ UNCHANGED <<secret, revoked, minted, purges>>
      /\ faults' \in 0..MaxFaults /\ purges' = purges /\ runs[r].pc = "finish"
  BY DEF Finish, IInv, TypeOK
<1>2. CASE ~Holds(runs[r].attempt)
  <2>1. runs' = [runs EXCEPT ![r].pc = "lost"] /\ UNCHANGED marker
    BY <1>2 DEF Finish
  <2>2. "lost" \in Armed \ {"recorded"} /\ runs[r].pc \in Armed
    BY <1>1
  <2> QED BY <1>1, <2>1, <2>2, MoveStep
<1>3. CASE Holds(runs[r].attempt)
  <2>1. runs \in [Runs -> RunType] /\ runs[r].kind # "none" /\ runs[r].attempt # 0
    BY <1>1 DEF IInv, TypeOK, FromMinted
  <2>2. marker' = record /\ runs' = [runs EXCEPT ![r] = told]
    BY <1>3, <2>1 DEF Finish
  <2>3. /\ told \in RunType /\ told.pc = "recorded" /\ told.attempt = runs[r].attempt
        /\ told.target = runs[r].target /\ told.kind = runs[r].kind
        /\ told.by = runs[r].attempt
    BY <2>1, Shapes DEF IInv, RunType
  <2>4. /\ record \in [state : {"none", "pending", "finished"}, target : 0..MaxAttempts,
                       digest : Digests \cup {0}, attempt : 0..MaxAttempts,
                       since : Nat, age : Nat, kind : {"none", "ok", "refused"},
                       by : 0..MaxAttempts]
        /\ record.state = "finished" /\ record.kind = runs[r].kind
        /\ record.by = runs[r].attempt /\ record.attempt = marker.attempt
        /\ record.target = marker.target
    BY <2>1, Shapes DEF IInv, TypeOK, RunType
  <2> HIDE DEF told, record
  <2>5. /\ runs' \in [Runs -> RunType] /\ runs'[r] = told
        /\ \A p \in Runs \ {r} : runs'[p] = runs[p]
    BY <2>1, <2>2, <2>3
  <2>6. /\ marker.state = "pending" /\ marker.attempt = runs[r].attempt
        /\ marker.target = runs[r].target
    BY <1>3, <2>1 DEF Holds, IInv, HolderOnTarget
  <2>7. TypeOK'
    BY <1>1, <2>1, <2>2, <2>4, <2>5, <2>6 DEF IInv, TypeOK
  <2>8. FromMinted'
    <3>1. \A p \in Runs : /\ runs'[p].attempt <= minted /\ runs'[p].target <= minted
                          /\ runs'[p].pc \in Armed => runs'[p].attempt # 0 /\ runs'[p].target # 0
                          /\ runs'[p].pc = "replayed" => runs'[p].target # 0
                          /\ runs'[p].pc = "finish" => runs'[p].kind # "none"
      BY <1>1, <2>3, <2>5 DEF IInv, FromMinted
    <3> QED BY <1>1, <2>1, <2>2, <2>4, <2>6, <3>1 DEF IInv, FromMinted
  <2>9. AttemptsDiffer'
    BY <2>3, <2>5 DEF IInv, AttemptsDiffer
  <2>10. HolderOnTarget' /\ IssuedHolds'
    BY <2>2, <2>4 DEF HolderOnTarget, IssuedHolds, Holds
  <2>11. LandingHolds'
    <3> SUFFICES ASSUME NEW p \in Runs, p # r, ~Overtaking, runs[p].pc = "landing",
                        marker.target = runs[p].target
                 PROVE  FALSE
      BY <2>2, <2>3, <2>4, <2>5 DEF LandingHolds
    <3>1. Holds(runs[p].attempt)
      BY DEF IInv, LandingHolds
    <3>2. runs[p].attempt = runs[r].attempt
      BY <2>6, <3>1 DEF Holds
    <3> QED BY <2>1, <3>2 DEF IInv, AttemptsDiffer
  <2>12. (Overtaking \/ RecordedSecretWorks)'
    BY <1>1, <1>3, <2>2, <2>4, <2>6 DEF IInv, IssuedHolds, RecordedSecretWorks
  <2>13. ToldIsRecorded' /\ AnswersAgree'
    BY <2>2, <2>3, <2>4, <2>5, <2>6 DEF IInv, ToldIsRecorded, AnswersAgree
  <2>14. TargetsCounted'
    <3>1. Targets' \subseteq Targets
      BY <1>1, <2>2, <2>3, <2>4, <2>5 DEF Targets
    <3>2. (marker.state = "none") = (marker.state = "none")'
      BY <2>2, <2>4, <2>6
    <3> QED BY <1>1, <3>1, <3>2, TargetsShrink DEF IInv
  <2> QED BY <2>7, <2>8, <2>9, <2>10, <2>11, <2>12, <2>13, <2>14 DEF IInv
<1> QED BY <1>2, <1>3

\* The statement of release, which leaves the marker to the next request.
LEMMA ReleaseStep ==
    ASSUME IInv, NEW r \in Runs, Release(r)
    PROVE  IInv'
<1> DEFINE record == [marker EXCEPT !.attempt = 0, !.since = 0]
<1>1. /\ UNCHANGED <<secret, revoked, minted, purges>>
      /\ faults' \in 0..MaxFaults /\ purges' = purges /\ runs[r].pc = "release"
      /\ runs' = [runs EXCEPT ![r] = Bare(r, "failed")]
  BY DEF Release, IInv, TypeOK
<1>2. CASE ~Holds(runs[r].attempt)
  <2>1. "failed" \in (Working \cup Retried \cup Answered) \ Armed /\ UNCHANGED marker
    BY <1>2 DEF Release
  <2> QED BY <1>1, <2>1, BareStep
<1>3. CASE Holds(runs[r].attempt)
  <2>1. /\ runs \in [Runs -> RunType] /\ Bare(r, "failed") \in RunType
        /\ runs[r].attempt # 0
    BY <1>1, Shapes DEF IInv, TypeOK, FromMinted, RunType, Bare, Run
  <2>2. /\ runs' \in [Runs -> RunType]
        /\ \A p \in Runs \ {r} : runs'[p] = runs[p]
        /\ runs'[r].pc = "failed" /\ runs'[r].attempt = 0 /\ runs'[r].target = 0
    BY <1>1, <2>1 DEF Bare, Run
  <2>3. marker' = record
    BY <1>3 DEF Release
  <2>4. /\ record \in [state : {"none", "pending", "finished"}, target : 0..MaxAttempts,
                       digest : Digests \cup {0}, attempt : 0..MaxAttempts,
                       since : Nat, age : Nat, kind : {"none", "ok", "refused"},
                       by : 0..MaxAttempts]
        /\ record.state = "pending" /\ record.kind = "none" /\ record.attempt = 0
        /\ record.target = marker.target /\ marker.state = "pending"
    <3>1. marker.state = "pending" /\ marker.kind = "none" /\ 0 \in 0..MaxAttempts
      BY <1>3, Shapes DEF Holds, IInv, TypeOK
    <3> QED BY <3>1 DEF IInv, TypeOK
  <2> HIDE DEF record
  <2>5. TypeOK'
    BY <1>1, <2>2, <2>3, <2>4 DEF IInv, TypeOK
  <2>6. FromMinted'
    <3>1. \A p \in Runs : /\ runs'[p].attempt <= minted /\ runs'[p].target <= minted
                          /\ runs'[p].pc \in Armed => runs'[p].attempt # 0 /\ runs'[p].target # 0
                          /\ runs'[p].pc = "replayed" => runs'[p].target # 0
                          /\ runs'[p].pc = "finish" => runs'[p].kind # "none"
      BY <2>2, Shapes DEF IInv, FromMinted
    <3> QED BY <1>1, <2>3, <2>4, <3>1, Shapes DEF IInv, FromMinted
  <2>7. AttemptsDiffer'
    BY <2>2 DEF IInv, AttemptsDiffer
  <2>8. HolderOnTarget'
    BY <2>3, <2>4 DEF HolderOnTarget, Holds
  <2>9. IssuedHolds'
    <3>1. \A p \in Runs : runs'[p].pc = "finish" => runs'[p].attempt # 0
      BY <2>2 DEF IInv, FromMinted
    <3> QED BY <2>3, <2>4, <3>1 DEF IssuedHolds, Holds
  <2>10. LandingHolds'
    <3> SUFFICES ASSUME NEW p \in Runs, p # r, ~Overtaking, runs[p].pc = "landing",
                        marker.target = runs[p].target
                 PROVE  FALSE
      BY <2>2, <2>3, <2>4 DEF LandingHolds
    <3>1. Holds(runs[p].attempt)
      BY DEF IInv, LandingHolds
    <3>2. runs[p].attempt = runs[r].attempt
      BY <1>3, <3>1 DEF Holds
    <3> QED BY <2>1, <3>2 DEF IInv, AttemptsDiffer
  <2>11. (Overtaking \/ RecordedSecretWorks)'
    BY <2>3, <2>4 DEF RecordedSecretWorks
  <2>12. ToldIsRecorded' /\ AnswersAgree'
    BY <2>2, <2>3, <2>4 DEF IInv, ToldIsRecorded, AnswersAgree
  <2>13. TargetsCounted'
    <3>1. Targets' \subseteq Targets
      BY <1>1, <2>2, <2>3, <2>4, Shapes DEF IInv, Targets, Attempts
    <3>2. (marker.state = "none") = (marker.state = "none")'
      BY <2>3, <2>4
    <3> QED BY <1>1, <3>1, <3>2, TargetsShrink DEF IInv
  <2> QED BY <2>5, <2>6, <2>7, <2>8, <2>9, <2>10, <2>11, <2>12, <2>13 DEF IInv
<1> QED BY <1>2, <1>3

\* A hand-over: the new attempt is nobody's, and no re-mint of the holder it takes
\* the marker from is about to land.
LEMMA ArmStep ==
    ASSUME IInv, NEW r \in Runs, Arm(r), marker.state = "pending",
           HolderLands => Overtaking,
           UNCHANGED <<secret, revoked, purges>>, faults' \in 0..MaxFaults
    PROVE  IInv'
<1> DEFINE record == [marker EXCEPT !.attempt = minted', !.since = 0]
           armed == Run(r, "create", minted', marker.target, "none", 0)
<1>1. /\ minted' = minted + 1 /\ minted' \in 0..MaxAttempts /\ minted' # 0
      /\ marker' = record /\ runs' = [runs EXCEPT ![r] = armed]
  BY Shapes DEF Arm, TargetOf, IInv
<1>2. /\ runs \in [Runs -> RunType] /\ armed \in RunType
      /\ marker.target # 0 /\ marker.target <= minted
      /\ armed.pc = "create" /\ armed.attempt = minted' /\ armed.target = marker.target
  BY <1>1, Shapes DEF IInv, TypeOK, FromMinted, RunType, Run
<1>3. /\ record \in [state : {"none", "pending", "finished"}, target : 0..MaxAttempts,
                     digest : Digests \cup {0}, attempt : 0..MaxAttempts,
                     since : Nat, age : Nat, kind : {"none", "ok", "refused"},
                     by : 0..MaxAttempts]
      /\ record.state = "pending" /\ record.kind = "none" /\ record.attempt = minted'
      /\ record.target = marker.target
  BY <1>1, Shapes DEF IInv, TypeOK
<1> HIDE DEF record, armed
<1>4. /\ runs' \in [Runs -> RunType] /\ runs'[r] = armed
      /\ \A p \in Runs \ {r} : runs'[p] = runs[p]
  BY <1>1, <1>2
<1>5. TypeOK'
  BY <1>1, <1>3, <1>4 DEF IInv, TypeOK
<1>6. FromMinted'
  <2>1. \A p \in Runs : /\ runs'[p].attempt <= minted' /\ runs'[p].target <= minted'
                        /\ runs'[p].pc \in Armed => runs'[p].attempt # 0 /\ runs'[p].target # 0
                        /\ runs'[p].pc = "replayed" => runs'[p].target # 0
                        /\ runs'[p].pc = "finish" => runs'[p].kind # "none"
    BY <1>1, <1>2, <1>4, Shapes DEF IInv, FromMinted
  <2> QED BY <1>1, <1>2, <1>3, <2>1, Shapes DEF IInv, FromMinted
<1>7. \A p \in Runs : p # r => runs'[p].attempt # minted'
  BY <1>1, <1>4, Shapes DEF IInv, FromMinted
<1>8. AttemptsDiffer'
  BY <1>2, <1>4, <1>7 DEF IInv, AttemptsDiffer
<1>9. HolderOnTarget' /\ IssuedHolds'
  BY <1>1, <1>2, <1>3, <1>4, <1>7 DEF HolderOnTarget, IssuedHolds, Holds
<1>10. LandingHolds'
  <2> SUFFICES ASSUME NEW p \in Runs, p # r, ~Overtaking, runs[p].pc = "landing",
                      marker.target = runs[p].target
               PROVE  FALSE
    BY <1>1, <1>2, <1>3, <1>4 DEF LandingHolds
  <2> QED BY DEF IInv, LandingHolds, HolderLands
<1>11. (Overtaking \/ RecordedSecretWorks)'
  BY <1>1, <1>3 DEF RecordedSecretWorks
<1>12. ToldIsRecorded' /\ AnswersAgree'
  BY <1>1, <1>2, <1>3, <1>4 DEF IInv, ToldIsRecorded, AnswersAgree
<1>13. TargetsCounted'
  <2>1. Targets' \subseteq Targets
    BY <1>1, <1>2, <1>3, <1>4, Shapes DEF IInv, Targets
  <2>2. (marker.state = "none") = (marker.state = "none")'
    BY <1>1, <1>3
  <2> QED BY <2>1, <2>2, TargetsShrink DEF IInv
<1> QED BY <1>5, <1>6, <1>8, <1>9, <1>10, <1>11, <1>12, <1>13 DEF IInv

\* The two hand-overs, of a released marker and of an abandoned one.
LEMMA HandOverSteps ==
    ASSUME IInv, NEW r \in Runs, RearmReleased(r) \/ TakeOverPending(r)
    PROVE  IInv'
<1>1. UNCHANGED <<secret, revoked, purges>> /\ faults' \in 0..MaxFaults
  BY IdempotencyAssumption DEF RearmReleased, TakeOverPending, Fault, IInv, TypeOK
<1>2. "wait" \in (Working \cup Retried \cup Answered) \ Armed
  OBVIOUS
<1>3. CASE InProgress(r)
  BY <1>1, <1>2, <1>3, BareStep DEF InProgress
<1>4. CASE RearmReleased(r) /\ Released /\ Arm(r)
  <2>1. marker.state = "pending" /\ ~HolderLands
    BY <1>4 DEF Released, Holds, HolderLands, IInv, FromMinted
  <2> QED BY <1>1, <1>4, <2>1, ArmStep
<1>5. CASE Arm(r) /\ marker.state = "pending" /\ (HolderLands => Overtaking)
  BY <1>1, <1>5, ArmStep
<1> QED BY <1>3, <1>4, <1>5 DEF RearmReleased, TakeOverPending, Abandoned

\* The unique key's first writer: the record's new target joins the others.
LEMMA WriteRecordStep ==
    ASSUME IInv, NEW r \in Runs, WriteRecord(r)
    PROVE  IInv'
<1>1. /\ UNCHANGED <<secret, revoked, purges>>
      /\ faults' \in 0..MaxFaults
  BY DEF WriteRecord, IInv, TypeOK
<1>2. CASE marker.state # "none"
  <2>1. "duplicate" \in (Working \cup Retried \cup Answered) \ Armed
    OBVIOUS
  <2> QED BY <1>1, <1>2, <2>1, BareStep DEF WriteRecord
<1>3. CASE marker.state = "none"
  <2> DEFINE armed == Run(r, "create", minted', minted', "none", 0)
             record == Marker("pending", minted', runs[r].digest, minted', 0, 0)
  <2>1. /\ minted' = minted + 1 /\ minted' \in 0..MaxAttempts /\ minted' # 0
        /\ minted' \in Attempts /\ marker' = record
        /\ runs' = [runs EXCEPT ![r] = armed]
    BY <1>3, Shapes DEF WriteRecord, IInv, Attempts
  <2>2. /\ runs \in [Runs -> RunType] /\ armed \in RunType
        /\ armed.pc = "create" /\ armed.attempt = minted' /\ armed.target = minted'
    BY <2>1, Shapes DEF IInv, TypeOK, RunType, Run
  <2>3. /\ record \in [state : {"none", "pending", "finished"}, target : 0..MaxAttempts,
                       digest : Digests \cup {0}, attempt : 0..MaxAttempts,
                       since : Nat, age : Nat, kind : {"none", "ok", "refused"},
                       by : 0..MaxAttempts]
        /\ record.state = "pending" /\ record.kind = "none" /\ record.attempt = minted'
        /\ record.target = minted'
    BY <2>1, Shapes DEF IInv, RunType, Marker
  <2> HIDE DEF record, armed
  <2>4. /\ runs' \in [Runs -> RunType] /\ runs'[r] = armed
        /\ \A p \in Runs \ {r} : runs'[p] = runs[p]
    BY <2>1, <2>2
  <2>5. TypeOK'
    BY <1>1, <2>1, <2>3, <2>4 DEF IInv, TypeOK
  <2>6. FromMinted'
    <3>1. \A p \in Runs : /\ runs'[p].attempt <= minted' /\ runs'[p].target <= minted'
                          /\ runs'[p].pc \in Armed => runs'[p].attempt # 0 /\ runs'[p].target # 0
                          /\ runs'[p].pc = "replayed" => runs'[p].target # 0
                          /\ runs'[p].pc = "finish" => runs'[p].kind # "none"
      BY <2>1, <2>2, <2>4, Shapes DEF IInv, FromMinted
    <3> QED BY <2>1, <2>3, <3>1 DEF FromMinted
  <2>7. \A p \in Runs : p # r => runs'[p].attempt # minted' /\ runs'[p].target # minted'
    BY <2>1, <2>4, Shapes DEF IInv, FromMinted
  <2>8. AttemptsDiffer'
    BY <2>2, <2>4, <2>7 DEF IInv, AttemptsDiffer
  <2>9. HolderOnTarget' /\ LandingHolds' /\ IssuedHolds'
    BY <2>1, <2>2, <2>3, <2>4, <2>7
       DEF HolderOnTarget, LandingHolds, IssuedHolds, Holds
  <2>10. (Overtaking \/ RecordedSecretWorks)'
    BY <2>1, <2>3 DEF RecordedSecretWorks
  <2>11. ToldIsRecorded' /\ AnswersAgree'
    BY <2>1, <2>2, <2>3, <2>4, <2>7 DEF IInv, ToldIsRecorded, AnswersAgree
  <2>12. TargetsCounted'
    <3>1. Targets' \subseteq Targets \cup {minted'}
      BY <1>1, <2>1, <2>2, <2>3, <2>4 DEF Targets
    <3>2. IsFiniteSet(Attempts)
      BY IdempotencyAssumption, FS_Interval DEF Attempts
    <3>3. IsFiniteSet(Targets)
      BY <3>2, FS_Subset DEF Targets
    <3>4. /\ IsFiniteSet(Targets \cup {minted'})
          /\ Cardinality(Targets \cup {minted'}) <= Cardinality(Targets) + 1
          /\ Cardinality(Targets) \in Nat
      BY <3>3, FS_AddElement, FS_CardinalityType
    <3>5. /\ Cardinality(Targets') <= Cardinality(Targets \cup {minted'})
          /\ Cardinality(Targets') \in Nat /\ Cardinality(Targets \cup {minted'}) \in Nat
      BY <3>1, <3>4, FS_Subset, FS_CardinalityType
    <3>6. Cardinality(Targets) <= purges /\ purges' = purges /\ purges \in Nat
      BY <1>1, <1>3, Shapes DEF IInv, TargetsCounted
    <3> HIDE DEF Targets
    <3> QED BY <2>1, <2>3, <3>4, <3>5, <3>6 DEF TargetsCounted
  <2> QED BY <2>5, <2>6, <2>8, <2>9, <2>10, <2>11, <2>12 DEF IInv
<1> QED BY <1>2, <1>3

\* A key that is revoked keeps its target.
LEMMA RevokeStep ==
    ASSUME IInv, NEW t \in Attempts, Revoke(t)
    PROVE  IInv'
<1>1. TypeOK' /\ FromMinted' /\ AttemptsDiffer' /\ HolderOnTarget' /\ LandingHolds'
  BY DEF Revoke, IInv, TypeOK, FromMinted, AttemptsDiffer, HolderOnTarget, LandingHolds, Holds
<1>2. IssuedHolds' /\ (Overtaking \/ RecordedSecretWorks)' /\ ToldIsRecorded' /\ AnswersAgree'
  BY DEF Revoke, IInv, IssuedHolds, RecordedSecretWorks, ToldIsRecorded, AnswersAgree, Holds
<1>3. TargetsCounted'
  BY DEF Revoke, IInv, TargetsCounted, Targets
<1> QED BY <1>1, <1>2, <1>3 DEF IInv

\* A record that is purged stays in the count of those there were.
LEMMA PurgeStep ==
    ASSUME IInv, Purge
    PROVE  IInv'
<1>1. /\ UNCHANGED <<secret, revoked, runs, minted, faults>>
      /\ purges' = purges + 1 /\ purges' \in 0..MaxPurges
      /\ marker.state # "none" /\ marker' = NoMarker
  BY IdempotencyAssumption DEF Purge, Holds, IInv, TypeOK
<1>2. /\ NoMarker \in [state : {"none", "pending", "finished"}, target : 0..MaxAttempts,
                       digest : Digests \cup {0}, attempt : 0..MaxAttempts,
                       since : Nat, age : Nat, kind : {"none", "ok", "refused"},
                       by : 0..MaxAttempts]
      /\ NoMarker.state = "none" /\ NoMarker.kind = "none" /\ NoMarker.target = 0
      /\ NoMarker.attempt = 0
  BY Shapes DEF IInv, NoMarker, Marker
<1>3. TypeOK'
  BY <1>1, <1>2 DEF IInv, TypeOK
<1>4. FromMinted'
  BY <1>1, <1>2, Shapes DEF IInv, FromMinted
<1>5. AttemptsDiffer' /\ HolderOnTarget' /\ IssuedHolds'
  BY <1>1, <1>2 DEF IInv, AttemptsDiffer, HolderOnTarget, IssuedHolds, Holds
<1>6. LandingHolds' /\ ToldIsRecorded'
  BY <1>1, <1>2 DEF IInv, FromMinted, LandingHolds, ToldIsRecorded
<1>7. (Overtaking \/ RecordedSecretWorks)' /\ AnswersAgree'
  BY <1>1, <1>2 DEF IInv, RecordedSecretWorks, AnswersAgree
<1>8. TargetsCounted'
  <2>1. Targets' \subseteq Targets
    BY <1>1, <1>2 DEF Targets, Attempts
  <2>2. IsFiniteSet(Attempts)
    BY IdempotencyAssumption, FS_Interval DEF Attempts
  <2>3. IsFiniteSet(Targets)
    BY <2>2, FS_Subset DEF Targets
  <2>4. /\ Cardinality(Targets') <= Cardinality(Targets)
        /\ Cardinality(Targets) \in Nat /\ Cardinality(Targets') \in Nat
    BY <2>1, <2>3, FS_Subset, FS_CardinalityType
  <2>5. Cardinality(Targets) <= purges + 1 /\ purges \in Nat
    BY <1>1, Shapes DEF IInv, TargetsCounted
  <2> HIDE DEF Targets
  <2> QED BY <1>1, <1>2, <2>4, <2>5 DEF TargetsCounted
<1> QED BY <1>3, <1>4, <1>5, <1>6, <1>7, <1>8 DEF IInv

\* Time ages the record, and nothing else of it.
LEMMA TickStep ==
    ASSUME IInv, Tick
    PROVE  IInv'
<1>1. /\ UNCHANGED <<secret, revoked, runs, minted, faults, purges>>
      /\ marker' \in [state : {"none", "pending", "finished"}, target : 0..MaxAttempts,
                      digest : Digests \cup {0}, attempt : 0..MaxAttempts,
                      since : Nat, age : Nat, kind : {"none", "ok", "refused"},
                      by : 0..MaxAttempts]
      /\ marker'.state = marker.state /\ marker'.target = marker.target
      /\ marker'.attempt = marker.attempt /\ marker'.kind = marker.kind
      /\ marker'.by = marker.by
  <2> DEFINE older == Older(marker.age, Retention)
             since == IF marker.state = "pending" /\ marker.attempt # 0
                      THEN Older(marker.since, AbandonAge) ELSE marker.since
  <2>1. marker' = [marker EXCEPT !.age = older, !.since = since]
    BY DEF Tick
  <2>2. older \in Nat /\ since \in Nat
    BY DEF IInv, TypeOK, Older
  <2> HIDE DEF older, since
  <2>3. UNCHANGED <<secret, revoked, runs, minted, faults, purges>>
    BY DEF Tick
  <2> QED BY <2>1, <2>2, <2>3 DEF IInv, TypeOK
<1>2. TypeOK' /\ FromMinted' /\ AttemptsDiffer' /\ HolderOnTarget' /\ LandingHolds'
  BY <1>1 DEF IInv, TypeOK, FromMinted, AttemptsDiffer, HolderOnTarget, LandingHolds, Holds
<1>3. IssuedHolds' /\ (Overtaking \/ RecordedSecretWorks)' /\ ToldIsRecorded' /\ AnswersAgree'
  BY <1>1 DEF IInv, IssuedHolds, RecordedSecretWorks, ToldIsRecorded, AnswersAgree, Holds
<1>4. TargetsCounted'
  BY <1>1 DEF IInv, TargetsCounted, Targets
<1> QED BY <1>2, <1>3, <1>4 DEF IInv

LEMMA StutterStep ==
    ASSUME IInv, UNCHANGED vars
    PROVE  IInv'
<1>1. TypeOK' /\ FromMinted' /\ AttemptsDiffer' /\ HolderOnTarget' /\ LandingHolds'
  BY DEF vars, IInv, TypeOK, FromMinted, AttemptsDiffer, HolderOnTarget, LandingHolds, Holds
<1>2. IssuedHolds' /\ (Overtaking \/ RecordedSecretWorks)' /\ ToldIsRecorded' /\ AnswersAgree'
  BY DEF vars, IInv, IssuedHolds, RecordedSecretWorks, ToldIsRecorded, AnswersAgree, Holds
<1>3. TargetsCounted'
  BY DEF vars, IInv, TargetsCounted, Targets
<1> QED BY <1>1, <1>2, <1>3 DEF IInv

\* At first there is no record and no run holds anything.
LEMMA InitIInv == Init => IInv
<1> SUFFICES ASSUME Init PROVE IInv
  OBVIOUS
<1>1. /\ marker.state = "none" /\ marker.target = 0 /\ marker.attempt = 0
      /\ marker.kind = "none"
      /\ marker \in [state : {"none", "pending", "finished"}, target : 0..MaxAttempts,
                     digest : Digests \cup {0}, attempt : 0..MaxAttempts,
                     since : Nat, age : Nat, kind : {"none", "ok", "refused"},
                     by : 0..MaxAttempts]
  BY IdempotencyAssumption DEF Init, NoMarker, Marker
<1>2. runs \in [Runs -> RunType]
  BY IdempotencyAssumption DEF Init, RunType
<1>3. \A r \in Runs : runs[r].pc = "idle" /\ runs[r].attempt = 0 /\ runs[r].target = 0
  BY DEF Init
<1>4. TypeOK
  BY <1>1, <1>2, IdempotencyAssumption DEF Init, TypeOK
<1>5. FromMinted /\ AttemptsDiffer /\ HolderOnTarget /\ LandingHolds /\ IssuedHolds
  BY <1>1, <1>3 DEF Init, FromMinted, AttemptsDiffer, HolderOnTarget, LandingHolds, IssuedHolds
<1>6. RecordedSecretWorks /\ ToldIsRecorded /\ AnswersAgree
  BY <1>1, <1>3 DEF RecordedSecretWorks, ToldIsRecorded, AnswersAgree
<1>7. TargetsCounted
  <2>1. Targets = {}
    BY <1>1, <1>3 DEF Init, Targets, Attempts
  <2> QED BY <1>1, <2>1, FS_EmptySet DEF Init, TargetsCounted
<1> QED BY <1>4, <1>5, <1>6, <1>7 DEF IInv

\* Every step keeps the invariant.
LEMMA NextIInv == IInv /\ [Next]_vars => IInv'
<1> SUFFICES ASSUME IInv, [Next]_vars PROVE IInv'
  OBVIOUS
<1>1. ASSUME NEW r \in Runs, WriteRecord(r) PROVE IInv'
  BY <1>1, WriteRecordStep
<1>2. ASSUME NEW r \in Runs, Step(r) PROVE IInv'
  BY <1>2, ReadRecordStep, HandOverSteps, QuietSteps, KeySteps, FinishStep, ReleaseStep
     DEF Step
<1>3. ASSUME NEW r \in Runs, HandlerFails(r) \/ Crash(r) PROVE IInv'
  BY <1>3, QuietSteps
<1>4. ASSUME NEW t \in Attempts, Revoke(t) PROVE IInv'
  BY <1>4, RevokeStep
<1> QED BY <1>1, <1>2, <1>3, <1>4, PurgeStep, TickStep, StutterStep DEF Next

\* The invariant holds throughout: the numbers of runs, attempts, faults and purges
\* are any.
THEOREM IdempotencyInvariant == Spec => []IInv
<1> QED BY InitIInv, NextIInv, PTL DEF Spec

\* The id of the create comes from the marker (write_record, take_over_pending), so
\* every record there was has created at most one key.
THEOREM OneCreateHolds == Spec => []OneCreate
<1>1. IInv => OneCreate
  <2> SUFFICES ASSUME IInv PROVE OneCreate
    OBVIOUS
  <2>1. {t \in Attempts : secret[t] # 0} \subseteq Targets /\ IsFiniteSet(Attempts)
    BY IdempotencyAssumption, FS_Interval DEF Targets, Attempts
  <2>2. IsFiniteSet(Targets)
    BY <2>1, FS_Subset DEF Targets
  <2>3. /\ Cardinality({t \in Attempts : secret[t] # 0}) <= Cardinality(Targets)
        /\ Cardinality({t \in Attempts : secret[t] # 0}) \in Nat
        /\ Cardinality(Targets) \in Nat
    BY <2>1, <2>2, FS_Subset, FS_CardinalityType
  <2>4. Cardinality(Targets) <= purges + 1 /\ purges \in Nat
    BY <2>3, Shapes DEF IInv, TargetsCounted
  <2> QED BY <2>3, <2>4 DEF OneCreate
<1> QED BY <1>1, IdempotencyInvariant, PTL

\* finish_pending asks for the attempt that holds the marker, and a finished marker
\* is never written again: clients told of one record are told one outcome.
THEOREM AnswersAgreeHolds == Spec => []AnswersAgree
<1>1. IInv => AnswersAgree
  BY DEF IInv
<1> QED BY <1>1, IdempotencyInvariant, PTL

\* Where no take-over falls inside a re-mint's statement, the key opens with the
\* secret of the attempt that the marker records.
THEOREM RecordedSecretHolds == ~Overtaking => (Spec => []RecordedSecretWorks)
<1> SUFFICES ASSUME ~Overtaking PROVE Spec => []RecordedSecretWorks
  OBVIOUS
<1>1. IInv => RecordedSecretWorks
  BY DEF IInv
<1> QED BY <1>1, IdempotencyInvariant, PTL
=============================================================================
