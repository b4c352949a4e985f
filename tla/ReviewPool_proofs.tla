------------------------- MODULE ReviewPool_proofs -------------------------
(* The review pool for any number of findings, jobs, permits and people:   *)
(* its types, the two passes behind every decision, the candidates that    *)
(* stay on the ledger, and that it drains.                                 *)
EXTENDS ReviewPool, FiniteSetTheorems, TLAPS

-----------------------------------------------------------------------------
(* The inductive invariant.  TypeOK does not say what a request in flight   *)
(* asks for, nor that a writer about to write has read; a decision is       *)
(* written on two agreeing passes only, and these no longer change once a   *)
(* candidate has left the queue.                                            *)

RequestInv ==
    /\ \A u \in User : tri[u] # None => tri[u].to \in State
    /\ \A u \in Jev : tri[u] # None => tri[u].to \in Verdict
    /\ \A u \in User \cup Jev : tri[u] # None => seen[u] \in Row
    /\ \A j \in Job : pc[j] = "write" => seen[j] \in Row

Decided(j) == Agreed(j, "true_positive") \/ Agreed(j, "false_positive")

DecisionInv ==
    \A j \in Job :
       /\ pc[j] \in {"read", "write"} /\ op[j] = "set" => Decided(j)
       /\ j \in ByCandidate /\ pc[j] \in {"read", "write"} =>
            cand[j] # "pending" /\ Decided(j)
       /\ j \in ByCandidate /\ cand[j] # "pending" =>
            pc[j] \in {"read", "write"} \cup Outcome

IInv == TypeOK /\ RequestInv /\ DecisionInv /\ CandidateOnLedger

\* The actions of Next, one disjunct each.
Step ==
    \/ SpawnCheck \/ JoinAll \/ SetPause \/ Cancel
    \/ \E j \in Job :
          \/ Spawn(j) \/ BeginReview(j) \/ SkipReview(j) \/ Answer(j)
          \/ AnswerFailed(j) \/ ReadRow(j) \/ WriteRow(j) \/ WriteFailed(j)
          \/ SettleFinding(j) \/ SettleCandidate(j) \/ SettleFailed(j)
    \/ \E u \in User \cup Jev : OtherRead(u) \/ OtherWrite(u)

LEMMA NextIsStep == Next => Step
  BY DEF Next, Step, Spawner, Review

-----------------------------------------------------------------------------
LEMMA InitInv == Init => IInv
<1>. SUFFICES ASSUME Init PROVE IInv
  OBVIOUS
<1>1. row \in [Finding -> Row]
  BY DEF Init, Row, State
<1>2. /\ tri \in [User \cup Jev -> {None} \cup
                    [f : Finding, to : State \cup Verdict, fp : BOOLEAN]]
      /\ seen \in [Writer -> Row \cup {None}]
  <2>. DEFINE Request == [f : Finding, to : State \cup Verdict, fp : BOOLEAN]
  <2>. HIDE DEF Request
  <2>1. tri \in [User \cup Jev -> {None} \cup Request]
    BY DEF Init
  <2>2. seen \in [Writer -> Row \cup {None}]
    BY DEF Init
  <2>. QED  BY <2>1, <2>2 DEF Request
<1>3. /\ pauses \in 0..MaxPauses /\ triaged \in 0..MaxTriage
      /\ abort \in BOOLEAN /\ pause \in BOOLEAN
  <2>1. pauses = 0 /\ triaged = 0 /\ abort = FALSE /\ pause = FALSE
    BY Zenon DEF Init
  <2>2. abort \in BOOLEAN /\ pause \in BOOLEAN
    BY <2>1, Zenon
  <2>3. pauses \in 0..MaxPauses /\ triaged \in 0..MaxTriage
    BY <2>1, PoolAssumption
  <2>. QED  BY <2>2, <2>3
<1>4. /\ inv \in [Job -> Verdict \cup {None}]
      /\ val \in [Job -> Verdict \cup {None}]
      /\ op \in [Job -> {"inv", "val", "set"}]
      /\ pc \in [Job -> {"queued"} \cup Working \cup Outcome]
      /\ spawner \in {"check", "acquire", "join", "returned"}
      /\ cand \in [ByCandidate ->
                     {"pending", "confirmed", "escalated", "rejected"}]
  BY DEF Init
<1>5. TypeOK
  BY <1>1, <1>2, <1>3, <1>4 DEF TypeOK
<1>6. RequestInv /\ DecisionInv /\ CandidateOnLedger
  BY PoolAssumption DEF Init, RequestInv, DecisionInv, CandidateOnLedger, Writer
<1>. QED  BY <1>5, <1>6 DEF IInv

\* What a verdict's write leaves: a row, in the state it was in.
LEMMA EvidenceRow ==
  ASSUME NEW now \in Row, NEW read \in Row
  PROVE  /\ WithEvidence(now, read) \in Row
         /\ WithEvidence(now, read).state = now.state
  BY DEF WithEvidence, Row

\* What triage leaves: a row in the state asked for.
LEMMA TriagedRow ==
  ASSUME NEW read \in Row, NEW to \in State, NEW fp \in BOOLEAN
  PROVE  /\ TriagedAs(read, to, fp) \in Row
         /\ TriagedAs(read, to, fp).state = to
<1>. DEFINE m == to = "dismissed" /\ (fp \/ read.mark)
<1>1. m \in BOOLEAN
  OBVIOUS
<1>2. TriagedAs(read, to, fp) = [read EXCEPT !.state = to, !.mark = m]
  BY DEF TriagedAs
<1>. QED  BY <1>1, <1>2 DEF Row

\* What a job writes: a row; a verdict's write keeps the state, a decision
\* is confirmed or dismissed.
LEMMA WrittenRow ==
  ASSUME TypeOK, RequestInv, NEW j \in Job, pc[j] = "write"
  PROVE  /\ Written(j) \in Row
         /\ op[j] # "set" => Written(j).state = row[About[j]].state
         /\ op[j] = "set" => Written(j).state = Settled(j)
<1>. DEFINE now == row[About[j]]
            base == WithEvidence(now, seen[j])
<1>1. now \in Row /\ seen[j] \in Row
  BY PoolAssumption DEF TypeOK, RequestInv
<1>2. base \in Row /\ base.state = now.state
  BY <1>1, EvidenceRow
<1>3. inv[j] \in Verdict \cup {None} /\ val[j] \in Verdict \cup {None}
  BY DEF TypeOK
<1>4. /\ [base EXCEPT !.inv = inv[j]] \in Row
      /\ [base EXCEPT !.inv = inv[j]].state = now.state
      /\ [base EXCEPT !.val = val[j]] \in Row
      /\ [base EXCEPT !.val = val[j]].state = now.state
  <2>. HIDE DEF base, now
  <2>. QED  BY <1>2, <1>3 DEF Row
<1>5. CASE op[j] = "inv"
  BY <1>4, <1>5 DEF Written
<1>6. CASE op[j] = "val"
  BY <1>4, <1>6 DEF Written
<1>7. CASE op[j] = "set"
  <2>1. Settled(j) \in State
    BY DEF Settled, State
  <2>2. Written(j) = TriagedAs(seen[j], Settled(j), FALSE)
    BY <1>7 DEF Written
  <2>3. /\ TriagedAs(seen[j], Settled(j), FALSE) \in Row
        /\ TriagedAs(seen[j], Settled(j), FALSE).state = Settled(j)
    BY <1>1, <2>1, TriagedRow
  <2>. QED  BY <1>7, <2>2, <2>3
<1>. QED  BY <1>5, <1>6, <1>7 DEF TypeOK

\* What a person or Jev writes: a row in the state the person asks for, or
\* in the state it was in.
LEMMA OtherRow ==
  ASSUME TypeOK, RequestInv, NEW u \in User \cup Jev, tri[u] # None,
         OtherWrite(u)
  PROVE  \E new \in Row :
            /\ row' = [row EXCEPT ![tri[u].f] = new]
            /\ new.state = IF u \in User THEN tri[u].to
                           ELSE row[tri[u].f].state
            /\ new.state = "none" => row[tri[u].f].state = "none"
<1>. DEFINE f == tri[u].f
            base == WithEvidence(row[f], seen[u])
<1>1. /\ f \in Finding /\ tri[u].fp \in BOOLEAN
      /\ seen[u] \in Row /\ row[f] \in Row
  BY DEF TypeOK, RequestInv
<1>2. CASE u \in User
  <2>1. tri[u].to \in State
    BY <1>2 DEF RequestInv
  <2>2. row' = [row EXCEPT ![f] = TriagedAs(seen[u], tri[u].to, tri[u].fp)]
    BY <1>2 DEF OtherWrite
  <2>3. tri[u].to # "none"
    BY <2>1 DEF State
  <2>4. /\ TriagedAs(seen[u], tri[u].to, tri[u].fp) \in Row
        /\ TriagedAs(seen[u], tri[u].to, tri[u].fp).state = tri[u].to
    BY <1>1, <2>1, TriagedRow
  <2>. QED  BY <1>2, <2>2, <2>3, <2>4
<1>3. CASE u \notin User
  <2>1. tri[u].to \in Verdict
    BY <1>3 DEF RequestInv
  <2>2. row' = [row EXCEPT ![f] = [base EXCEPT !.jev = tri[u].to]]
    BY <1>3 DEF OtherWrite
  <2>3. base \in Row /\ base.state = row[f].state
    BY <1>1, EvidenceRow
  <2>4. /\ [base EXCEPT !.jev = tri[u].to] \in Row
        /\ [base EXCEPT !.jev = tri[u].to].state = row[f].state
    <3>. HIDE DEF base
    <3>. QED  BY <2>1, <2>3 DEF Row
  <2>. QED  BY <1>3, <2>2, <2>4
<1>. QED  BY <1>2, <1>3

-----------------------------------------------------------------------------
(* The actions that leave the findings, the candidates and the jobs alone.  *)

LEMMA ControlStep ==
  ASSUME IInv, SpawnCheck \/ JoinAll \/ SetPause \/ Cancel
  PROVE  IInv'
<1>1. /\ UNCHANGED <<row, cand, job, seen, others>>
      /\ spawner' \in {"check", "acquire", "join", "returned"}
      /\ abort' \in BOOLEAN /\ pause' \in BOOLEAN
      /\ pauses' \in 0..MaxPauses
  <2>. USE DEF IInv, TypeOK
  <2>1. CASE SpawnCheck
    BY <2>1 DEF SpawnCheck, control
  <2>2. CASE JoinAll
    BY <2>2 DEF JoinAll, control
  <2>3. CASE SetPause
    <3>1. /\ UNCHANGED <<row, cand, spawner, job, seen, abort, others>>
          /\ pause' \in BOOLEAN
          /\ \/ pauses' = pauses
             \/ pauses < MaxPauses /\ pauses' = pauses + 1
      BY <2>3, Zenon DEF SetPause
    <3>2. pauses' \in 0..MaxPauses
      BY <3>1, PoolAssumption
    <3>. QED  BY <3>1, <3>2
  <2>4. CASE Cancel
    BY <2>4 DEF Cancel
  <2>. QED  BY <2>1, <2>2, <2>3, <2>4
<1>2. TypeOK'
  BY <1>1 DEF IInv, TypeOK, job, others
<1>3. RequestInv'
  BY <1>1 DEF IInv, RequestInv, job, others
<1>4. DecisionInv'
  BY <1>1 DEF IInv, DecisionInv, Decided, Agreed, job
<1>5. CandidateOnLedger'
  BY <1>1 DEF IInv, CandidateOnLedger, Agreed, job
<1>. QED  BY <1>2, <1>3, <1>4, <1>5 DEF IInv

\* The steps of a job that only move it on: no verdict, no write.
LEMMA MoveStep ==
  ASSUME IInv, NEW j \in Job,
         \/ Spawn(j) \/ BeginReview(j) \/ SkipReview(j) \/ AnswerFailed(j)
  PROVE  IInv'
<1>1. /\ UNCHANGED <<row, cand, op, inv, val, seen, control, others>>
      /\ spawner' \in {"check", "acquire", "join", "returned"}
      /\ pc[j] \notin {"read", "write"} \cup Outcome
      /\ \E l \in {"waiting", "ask", "cancelled", "error"} :
            pc' = [pc EXCEPT ![j] = l]
  BY DEF IInv, TypeOK, Spawn, BeginReview, SkipReview, AnswerFailed, Goto,
         Outcome, job
<1>2. TypeOK'
  BY <1>1 DEF IInv, TypeOK, control, others, Working, Outcome
<1>3. RequestInv'
  BY <1>1 DEF IInv, TypeOK, RequestInv, others
<1>4. DecisionInv'
  BY <1>1 DEF IInv, TypeOK, DecisionInv, Decided, Agreed, Outcome
<1>5. CandidateOnLedger'
  BY <1>1 DEF IInv, CandidateOnLedger, Agreed
<1>. QED  BY <1>2, <1>3, <1>4, <1>5 DEF IInv

\* A verdict: a candidate's is kept while it is still pending.
LEMMA AnswerStep ==
  ASSUME IInv, NEW j \in Job, Answer(j)
  PROVE  IInv'
<1>1. /\ UNCHANGED <<row, cand, spawner, seen, control, others>>
      /\ pc[j] = "ask" /\ op[j] # "set"
      /\ \A k \in Job \ {j} : inv'[k] = inv[k] /\ val'[k] = val[k]
      /\ inv' \in [Job -> Verdict \cup {None}]
      /\ val' \in [Job -> Verdict \cup {None}]
  BY DEF IInv, TypeOK, Answer
<1>2. /\ pc' \in [Job -> {"queued"} \cup Working \cup Outcome]
      /\ op' \in [Job -> {"inv", "val", "set"}]
      /\ \A k \in Job \ {j} : pc'[k] = pc[k] /\ op'[k] = op[k]
      /\ pc'[j] \in {"read", "ask", "settle"} /\ op'[j] # "set"
      /\ j \in ByCandidate => pc'[j] # "read"
  BY DEF IInv, TypeOK, Answer, Goto, Working
<1>3. TypeOK'
  BY <1>1, <1>2 DEF IInv, TypeOK, control, others
<1>4. RequestInv'
  BY <1>1, <1>2 DEF IInv, RequestInv, others
<1>5. j \in ByCandidate => cand[j] = "pending"
  BY <1>1 DEF IInv, DecisionInv, Outcome
<1>6. DecisionInv'
  BY <1>1, <1>2, <1>5 DEF IInv, DecisionInv, Decided, Agreed
<1>7. CandidateOnLedger'
  BY <1>1, <1>5, PoolAssumption DEF IInv, CandidateOnLedger, Agreed
<1>. QED  BY <1>3, <1>4, <1>6, <1>7 DEF IInv

LEMMA ReadStep ==
  ASSUME IInv, NEW j \in Job, ReadRow(j)
  PROVE  IInv'
<1>1. /\ UNCHANGED <<row, cand, spawner, op, inv, val, control, others>>
      /\ pc[j] = "read" /\ pc' = [pc EXCEPT ![j] = "write"]
      /\ seen' = [seen EXCEPT ![j] = row[About[j]]]
      /\ row[About[j]] \in Row
  BY PoolAssumption DEF IInv, TypeOK, ReadRow, Goto
<1>2. TypeOK'
  BY <1>1 DEF IInv, TypeOK, control, others, Working, Writer
<1>3. RequestInv'
  BY <1>1, PoolAssumption DEF IInv, TypeOK, RequestInv, others, Writer
<1>4. DecisionInv'
  BY <1>1 DEF IInv, TypeOK, DecisionInv, Decided, Agreed
<1>5. CandidateOnLedger'
  BY <1>1 DEF IInv, CandidateOnLedger, Agreed
<1>. QED  BY <1>2, <1>3, <1>4, <1>5 DEF IInv

\* Where a job goes after a write, done or given up.
LEMMA AfterWriteGoes ==
  ASSUME TypeOK, DecisionInv, NEW j \in Job, pc[j] \in {"read", "write"},
         AfterWrite(j)
  PROVE  /\ pc' \in [Job -> {"queued"} \cup Working \cup Outcome]
         /\ op' \in [Job -> {"inv", "val", "set"}]
         /\ \A k \in Job \ {j} : pc'[k] = pc[k] /\ op'[k] = op[k]
         /\ pc'[j] \in {"read", "ask", "settle", "confirmed", "dismissed"}
         /\ pc'[j] = "read" => j \in ByCandidate
         /\ j \in ByCandidate => pc'[j] \in {"read"} \cup Outcome
         /\ pc'[j] \in Outcome => op[j] = "set" /\ pc'[j] = Settled(j)
<1>1. Settled(j) \in {"confirmed", "dismissed"}
  BY DEF Settled
<1>2. op[j] \in {"inv", "val", "set"}
  BY DEF TypeOK
<1>3. \/ /\ op' = [op EXCEPT ![j] = "val"]
         /\ pc' = [pc EXCEPT ![j] = IF j \in ByCandidate THEN "read" ELSE "ask"]
      \/ /\ j \in ByCandidate
         /\ op' = [op EXCEPT ![j] = "set"] /\ pc' = [pc EXCEPT ![j] = "read"]
      \/ /\ j \notin ByCandidate
         /\ op' = op /\ pc' = [pc EXCEPT ![j] = "settle"]
      \/ /\ op[j] = "set"
         /\ op' = op /\ pc' = [pc EXCEPT ![j] = Settled(j)]
  <2>. HIDE DEF Settled
  <2>. QED  BY <1>2 DEF AfterWrite, Goto
<1>. HIDE DEF Settled
<1>. QED  BY <1>1, <1>3 DEF TypeOK, Working, Outcome

\* The findings' and the jobs' part of a write.
LEMMA WriteStep ==
  ASSUME IInv, NEW j \in Job, WriteRow(j)
  PROVE  IInv'
<1>. DEFINE f == About[j]
<1>1. /\ UNCHANGED <<cand, spawner, inv, val, control, others>>
      /\ pc[j] = "write" /\ AfterWrite(j)
      /\ row' = [row EXCEPT ![f] = Written(j)]
      /\ seen' = [seen EXCEPT ![j] = None]
  BY DEF WriteRow
<1>2. /\ pc' \in [Job -> {"queued"} \cup Working \cup Outcome]
      /\ op' \in [Job -> {"inv", "val", "set"}]
      /\ \A k \in Job \ {j} : pc'[k] = pc[k] /\ op'[k] = op[k]
      /\ pc'[j] \in {"read", "ask", "settle", "confirmed", "dismissed"}
      /\ pc'[j] = "read" => j \in ByCandidate
      /\ j \in ByCandidate => pc'[j] \in {"read"} \cup Outcome
  BY <1>1, AfterWriteGoes DEF IInv
<1>3. /\ Written(j) \in Row
      /\ \/ Written(j).state = row[f].state
         \/ Written(j).state \in {"confirmed", "dismissed"}
  <2>1. Settled(j) \in {"confirmed", "dismissed"}
    BY DEF Settled
  <2>. QED  BY <1>1, <2>1, WrittenRow DEF IInv
<1>4. TypeOK'
  <2>1. row' \in [Finding -> Row]
    BY <1>1, <1>3 DEF IInv, TypeOK
  <2>2. seen' \in [Writer -> Row \cup {None}]
    BY <1>1 DEF IInv, TypeOK
  <2>. QED  BY <1>1, <1>2, <2>1, <2>2 DEF IInv, TypeOK, control, others
<1>5. RequestInv'
  BY <1>1, <1>2, PoolAssumption DEF IInv, TypeOK, RequestInv, others, Writer
<1>6. DecisionInv'
  BY <1>1, <1>2 DEF IInv, DecisionInv, Decided, Agreed, Outcome
<1>7. CandidateOnLedger'
  BY <1>1, <1>3, PoolAssumption DEF IInv, TypeOK, CandidateOnLedger, Agreed
<1>. QED  BY <1>4, <1>5, <1>6, <1>7 DEF IInv

LEMMA WriteFailedStep ==
  ASSUME IInv, NEW j \in Job, WriteFailed(j)
  PROVE  IInv'
<1>1. /\ UNCHANGED <<row, cand, spawner, inv, val, control, others>>
      /\ pc[j] \in {"read", "write"}
      /\ seen' = [seen EXCEPT ![j] = None]
  BY DEF WriteFailed
<1>2. /\ pc' \in [Job -> {"queued"} \cup Working \cup Outcome]
      /\ op' \in [Job -> {"inv", "val", "set"}]
      /\ \A k \in Job \ {j} : pc'[k] = pc[k] /\ op'[k] = op[k]
      /\ pc'[j] \in {"read", "ask", "settle", "confirmed", "dismissed", "error"}
      /\ pc'[j] = "read" => j \in ByCandidate
      /\ j \in ByCandidate => pc'[j] \in {"read"} \cup Outcome
  <2>1. CASE op[j] # "set" /\ j \notin ByCandidate
    BY <2>1 DEF WriteFailed, Goto, IInv, TypeOK, Outcome
  <2>2. CASE ~(op[j] # "set" /\ j \notin ByCandidate)
    <3>1. AfterWrite(j)
      BY <2>2 DEF WriteFailed
    <3>. QED  BY <1>1, <3>1, AfterWriteGoes DEF IInv
  <2>. QED  BY <2>1, <2>2
<1>3. TypeOK'
  BY <1>1, <1>2 DEF IInv, TypeOK, control, others
<1>4. RequestInv'
  BY <1>1, <1>2, PoolAssumption DEF IInv, TypeOK, RequestInv, others, Writer
<1>5. DecisionInv'
  BY <1>1, <1>2 DEF IInv, DecisionInv, Decided, Agreed, Outcome
<1>6. CandidateOnLedger'
  BY <1>1 DEF IInv, CandidateOnLedger, Agreed
<1>. QED  BY <1>3, <1>4, <1>5, <1>6 DEF IInv

LEMMA SettleFindingStep ==
  ASSUME IInv, NEW j \in Job, SettleFinding(j)
  PROVE  IInv'
<1>1. /\ UNCHANGED <<row, cand, spawner, inv, val, seen, control, others>>
      /\ pc[j] = "settle" /\ j \notin ByCandidate
      /\ \/ Decided(j) /\ op' = [op EXCEPT ![j] = "set"]
                       /\ pc' = [pc EXCEPT ![j] = "read"]
         \/ op' = op /\ pc' = [pc EXCEPT ![j] = "open"]
  BY DEF SettleFinding, Decided, Goto
<1>2. TypeOK'
  BY <1>1 DEF IInv, TypeOK, control, others, Working, Outcome
<1>3. RequestInv'
  BY <1>1 DEF IInv, TypeOK, RequestInv, others
<1>4. DecisionInv'
  BY <1>1 DEF IInv, TypeOK, DecisionInv, Decided, Agreed
<1>5. CandidateOnLedger'
  BY <1>1 DEF IInv, CandidateOnLedger, Agreed
<1>. QED  BY <1>2, <1>3, <1>4, <1>5 DEF IInv

\* A candidate leaves the queue: it is pending until then.
LEMMA SettleCandidateStep ==
  ASSUME IInv, NEW j \in Job, SettleCandidate(j)
  PROVE  IInv'
<1>. DEFINE f == About[j]
            st == IF row[f].state \in {"none", "verified_fixed"} THEN "open"
                  ELSE row[f].state
<1>1. /\ UNCHANGED <<spawner, inv, val, seen, control, others>>
      /\ pc[j] = "settle" /\ j \in ByCandidate
      /\ \/ /\ Decided(j) /\ cand' = [cand EXCEPT ![j] = "confirmed"]
            /\ op' \in {[op EXCEPT ![j] = "inv"], [op EXCEPT ![j] = "set"]}
            /\ pc' = [pc EXCEPT ![j] = "read"]
         \/ /\ cand' = [cand EXCEPT ![j] = "escalated"]
            /\ op' = op /\ pc' = [pc EXCEPT ![j] = "open"]
  BY DEF SettleCandidate, Decided, Goto
<1>2. row[f] \in Row
  BY PoolAssumption DEF IInv, TypeOK
<1>3. /\ row' = [row EXCEPT ![f] = [row[f] EXCEPT !.state = st]]
      /\ st \in State
      /\ [row[f] EXCEPT !.state = st] \in Row
      /\ [row[f] EXCEPT !.state = st].state = st
  <2>1. row' = [row EXCEPT ![f] = [row[f] EXCEPT !.state = st]]
    BY PoolAssumption DEF SettleCandidate, IInv, TypeOK
  <2>2. st \in State
    BY <1>2 DEF Row, State
  <2>3. /\ [row[f] EXCEPT !.state = st] \in Row
        /\ [row[f] EXCEPT !.state = st].state = st
    <3>. HIDE DEF st
    <3>. QED  BY <1>2, <2>2 DEF Row
  <2>. QED  BY <2>1, <2>2, <2>3
<1>4. /\ row' \in [Finding -> Row]
      /\ row'[f].state \in State
      /\ \A g \in Finding \ {f} : row'[g] = row[g]
  <2>. HIDE DEF st, f
  <2>1. f \in Finding
    BY PoolAssumption DEF f
  <2>. QED  BY <1>3, <2>1 DEF IInv, TypeOK
<1>5. TypeOK'
  BY <1>1, <1>4 DEF IInv, TypeOK, control, others, Working, Outcome
<1>6. RequestInv'
  BY <1>1 DEF IInv, TypeOK, RequestInv, others
<1>7. DecisionInv'
  BY <1>1 DEF IInv, TypeOK, DecisionInv, Decided, Agreed, Outcome
<1>8. CandidateOnLedger'
  <2>. SUFFICES ASSUME NEW k \in ByCandidate
                PROVE  (/\ cand[k] \in {"confirmed", "escalated"} =>
                             row[About[k]].state # "none"
                        /\ cand[k] = "rejected" => Agreed(k, "false_positive"))'
    BY DEF CandidateOnLedger
  <2>1. cand'[k] = "rejected" => cand[k] = "rejected"
    BY <1>1 DEF IInv, TypeOK
  <2>2. cand'[k] = cand[k] \/ About[k] = f
    BY <1>1 DEF IInv, TypeOK
  <2>3. About[k] # f => row'[About[k]] = row[About[k]]
    BY <1>4, PoolAssumption
  <2>4. About[k] = f => row'[About[k]].state # "none"
    BY <1>4 DEF State
  <2>. HIDE DEF f
  <2>. QED  BY <1>1, <2>1, <2>2, <2>3, <2>4 DEF IInv, CandidateOnLedger, Agreed
<1>. QED  BY <1>5, <1>6, <1>7, <1>8 DEF IInv

LEMMA SettleFailedStep ==
  ASSUME IInv, NEW j \in Job, SettleFailed(j)
  PROVE  IInv'
<1>1. /\ UNCHANGED <<row, spawner, op, inv, val, seen, control, others>>
      /\ pc[j] = "settle" /\ j \in ByCandidate
      /\ \E l \in {"open", "error", "dismissed"} : pc' = [pc EXCEPT ![j] = l]
      /\ \/ cand' = cand
         \/ /\ Agreed(j, "false_positive")
            /\ cand' = [cand EXCEPT ![j] = "rejected"]
  BY DEF SettleFailed, Goto
<1>2. TypeOK'
  BY <1>1 DEF IInv, TypeOK, control, others, Working, Outcome
<1>3. RequestInv'
  BY <1>1 DEF IInv, TypeOK, RequestInv, others
<1>4. DecisionInv'
  BY <1>1 DEF IInv, TypeOK, DecisionInv, Decided, Agreed, Outcome
<1>5. CandidateOnLedger'
  BY <1>1 DEF IInv, TypeOK, CandidateOnLedger, Agreed
<1>. QED  BY <1>2, <1>3, <1>4, <1>5 DEF IInv

LEMMA OtherReadStep ==
  ASSUME IInv, NEW u \in User \cup Jev, OtherRead(u)
  PROVE  IInv'
<1>. DEFINE Request == [f : Finding, to : State \cup Verdict, fp : BOOLEAN]
<1>1. /\ UNCHANGED <<row, cand, spawner, job, control>>
      /\ triaged < MaxTriage /\ triaged' = triaged + 1
      /\ \E f \in Finding, r \in Request :
            /\ seen' = [seen EXCEPT ![u] = row[f]]
            /\ tri' = [tri EXCEPT ![u] = r]
            /\ u \in User => r.to \in State
            /\ u \in Jev => r.to \in Verdict
  <2>1. PICK f \in Finding :
           /\ seen' = [seen EXCEPT ![u] = row[f]]
           /\ \/ /\ u \in User
                 /\ \E to \in State, fp \in BOOLEAN :
                       tri' = [tri EXCEPT ![u] = [f |-> f, to |-> to, fp |-> fp]]
              \/ /\ u \in Jev
                 /\ \E v \in Verdict :
                       tri' = [tri EXCEPT ![u] = [f |-> f, to |-> v, fp |-> FALSE]]
    BY Zenon DEF OtherRead
  <2>2. CASE u \in User
    <3>1. PICK to \in State, fp \in BOOLEAN :
             tri' = [tri EXCEPT ![u] = [f |-> f, to |-> to, fp |-> fp]]
      BY <2>1, <2>2, PoolAssumption
    <3>2. /\ [f |-> f, to |-> to, fp |-> fp] \in Request
          /\ [f |-> f, to |-> to, fp |-> fp].to \in State
      OBVIOUS
    <3>. QED  BY <2>1, <2>2, <3>1, <3>2, PoolAssumption DEF OtherRead
  <2>3. CASE u \in Jev
    <3>1. PICK v \in Verdict :
             tri' = [tri EXCEPT ![u] = [f |-> f, to |-> v, fp |-> FALSE]]
      BY <2>1, <2>3, PoolAssumption
    <3>2. /\ [f |-> f, to |-> v, fp |-> FALSE] \in Request
          /\ [f |-> f, to |-> v, fp |-> FALSE].to \in Verdict
      OBVIOUS
    <3>. QED  BY <2>1, <2>3, <3>1, <3>2, PoolAssumption DEF OtherRead
  <2>. QED  BY <2>2, <2>3
<1>2. PICK f \in Finding, r \in Request :
         /\ seen' = [seen EXCEPT ![u] = row[f]]
         /\ tri' = [tri EXCEPT ![u] = r]
         /\ u \in User => r.to \in State
         /\ u \in Jev => r.to \in Verdict
  BY <1>1
<1>. HIDE DEF Request
<1>3. TypeOK'
  <2>1. tri' \in [User \cup Jev -> {None} \cup Request]
    BY <1>2 DEF IInv, TypeOK, Request
  <2>2. seen' \in [Writer -> Row \cup {None}]
    BY <1>2 DEF IInv, TypeOK
  <2>3. triaged' \in 0..MaxTriage
    BY <1>1, PoolAssumption DEF IInv, TypeOK
  <2>. QED  BY <1>1, <2>1, <2>2, <2>3 DEF IInv, TypeOK, job, control, Request
<1>4. RequestInv'
  <2>1. row[f] \in Row /\ u \in Writer
    BY DEF IInv, TypeOK, Writer
  <2>2. seen'[u] \in Row /\ \A w \in Writer \ {u} : seen'[w] = seen[w]
    BY <1>2, <2>1 DEF IInv, TypeOK
  <2>3. \A w \in (User \cup Jev) \ {u} : tri'[w] = tri[w]
    BY <1>2 DEF IInv, TypeOK
  <2>4. tri'[u] = r
    BY <1>2 DEF IInv, TypeOK
  <2>. QED  BY <1>1, <1>2, <2>2, <2>3, <2>4, PoolAssumption
            DEF IInv, RequestInv, Writer, job
<1>5. DecisionInv'
  BY <1>1 DEF IInv, DecisionInv, Decided, Agreed, job
<1>6. CandidateOnLedger'
  BY <1>1 DEF IInv, CandidateOnLedger, Agreed, job
<1>. QED  BY <1>3, <1>4, <1>5, <1>6 DEF IInv

LEMMA OtherWriteStep ==
  ASSUME IInv, NEW u \in User \cup Jev, OtherWrite(u)
  PROVE  IInv'
<1>. DEFINE f == tri[u].f
<1>1. /\ UNCHANGED <<cand, spawner, job, control, triaged>>
      /\ tri[u] # None
      /\ tri' = [tri EXCEPT ![u] = None]
      /\ seen' = [seen EXCEPT ![u] = None]
  BY DEF OtherWrite
<1>2. PICK new \in Row :
         /\ row' = [row EXCEPT ![f] = new]
         /\ new.state = "none" => row[f].state = "none"
  BY <1>1, OtherRow DEF IInv
<1>3. TypeOK'
  <2>1. row' \in [Finding -> Row]
    BY <1>2 DEF IInv, TypeOK
  <2>2. seen' \in [Writer -> Row \cup {None}]
    BY <1>1 DEF IInv, TypeOK
  <2>3. tri' \in [User \cup Jev -> {None} \cup
                    [f : Finding, to : State \cup Verdict, fp : BOOLEAN]]
    BY <1>1 DEF IInv, TypeOK
  <2>. QED  BY <1>1, <2>1, <2>2, <2>3 DEF IInv, TypeOK, job, control
<1>4. RequestInv'
  BY <1>1, PoolAssumption DEF IInv, TypeOK, RequestInv, job, Writer
<1>5. DecisionInv'
  BY <1>1 DEF IInv, DecisionInv, Decided, Agreed, job
<1>6. CandidateOnLedger'
  <2>1. \A g \in Finding : row'[g].state = "none" => row[g].state = "none"
    BY <1>2 DEF IInv, TypeOK
  <2>. QED  BY <1>1, <2>1, PoolAssumption DEF IInv, CandidateOnLedger, Agreed, job
<1>. QED  BY <1>3, <1>4, <1>5, <1>6 DEF IInv

-----------------------------------------------------------------------------
LEMMA InvStep == IInv /\ [Next]_vars => IInv'
<1>. SUFFICES ASSUME IInv, [Next]_vars PROVE IInv'
  OBVIOUS
<1>1. CASE Step
  <2>1. CASE SpawnCheck \/ JoinAll \/ SetPause \/ Cancel
    BY <2>1, ControlStep
  <2>2. ASSUME NEW j \in Job,
               \/ Spawn(j) \/ BeginReview(j) \/ SkipReview(j) \/ Answer(j)
               \/ AnswerFailed(j) \/ ReadRow(j) \/ WriteRow(j) \/ WriteFailed(j)
               \/ SettleFinding(j) \/ SettleCandidate(j) \/ SettleFailed(j)
        PROVE  IInv'
    BY <2>2, MoveStep, AnswerStep, ReadStep, WriteStep, WriteFailedStep,
       SettleFindingStep, SettleCandidateStep, SettleFailedStep
  <2>3. ASSUME NEW u \in User \cup Jev, OtherRead(u) \/ OtherWrite(u)
        PROVE  IInv'
    BY <2>3, OtherReadStep, OtherWriteStep
  <2>. QED  BY <1>1, <2>1, <2>2, <2>3 DEF Step
<1>2. CASE UNCHANGED vars
  <2>1. TypeOK'
    BY <1>2 DEF IInv, TypeOK, vars, job, control, others
  <2>2. RequestInv'
    BY <1>2 DEF IInv, RequestInv, vars, job, others
  <2>3. DecisionInv' /\ CandidateOnLedger'
    BY <1>2 DEF IInv, DecisionInv, Decided, CandidateOnLedger, Agreed, vars, job
  <2>. QED  BY <2>1, <2>2, <2>3 DEF IInv
<1>. QED  BY <1>1, <1>2, NextIsStep

LEMMA Invariance == Spec => []IInv
<1>1. QED  BY InitInv, InvStep, PTL DEF Spec

\* Every variable keeps its type, whatever the reviews, the people and Jev
\* do (the rows, verdicts and outcomes of engines/agent.rs and store.rs).
THEOREM TypeCorrect == Spec => []TypeOK
<1>1. IInv => TypeOK
  BY DEF IInv
<1>. QED  BY <1>1, Invariance, PTL

\* A candidate leaves the queue for the ledger, and is rejected on two
\* false-positive verdicts only (confirm, reject and escalate in review_one).
THEOREM CandidatesKept == Spec => []CandidateOnLedger
<1>1. IInv => CandidateOnLedger
  BY DEF IInv
<1>. QED  BY <1>1, Invariance, PTL

-----------------------------------------------------------------------------
(* Decisions *)

\* A finding's state is changed by a job's write, by a candidate that leaves
\* the queue or by a person's or Jev's write.
LEMMA RowChanges ==
  ASSUME IInv, Next, row' # row
  PROVE  \/ \E j \in Job : WriteRow(j) \/ SettleCandidate(j)
         \/ \E u \in User \cup Jev : OtherWrite(u)
<1>1. Step
  BY NextIsStep
<1>. QED
  BY <1>1 DEF Step, SpawnCheck, JoinAll, SetPause, Cancel, Spawn, BeginReview,
     SkipReview, Answer, AnswerFailed, ReadRow, WriteFailed, SettleFinding,
     SettleFailed, OtherRead

Decides(f) ==
    \/ \E u \in User : tri[u] # None /\ tri[u].f = f /\ tri'[u] = None
    \/ \E j \in Job :
         /\ About[j] = f /\ pc[j] = "write" /\ pc'[j] = row'[f].state
         /\ Agreed(j, IF row'[f].state = "confirmed" THEN "true_positive"
                      ELSE "false_positive")

LEMMA DecisionStep ==
  ASSUME IInv, Next, NEW f \in Finding, row'[f].state # row[f].state,
         row'[f].state \in {"confirmed", "dismissed"}
  PROVE  Decides(f)
<1>1. CASE \E j \in Job : WriteRow(j)
  <2>1. PICK j \in Job : WriteRow(j)
    BY <1>1
  <2>2. /\ pc[j] = "write" /\ AfterWrite(j)
        /\ row' = [row EXCEPT ![About[j]] = Written(j)]
    BY <2>1 DEF WriteRow
  <2>3. About[j] = f /\ row'[f].state = Written(j).state
    BY <2>2 DEF IInv, TypeOK
  <2>4. op[j] = "set" /\ Written(j).state = Settled(j)
    BY <2>2, <2>3, WrittenRow DEF IInv
  <2>5. pc'[j] = Settled(j)
    BY <2>2, <2>4 DEF AfterWrite, Goto, IInv, TypeOK
  <2>6. Decided(j)
    BY <2>2, <2>4 DEF IInv, DecisionInv
  <2>7. Agreed(j, IF Settled(j) = "confirmed" THEN "true_positive"
                  ELSE "false_positive")
    BY <2>6 DEF Decided, Settled
  <2>. QED  BY <2>2, <2>3, <2>4, <2>5, <2>7 DEF Decides
<1>2. CASE \E j \in Job : SettleCandidate(j)
  <2>1. PICK j \in Job : SettleCandidate(j)
    BY <1>2
  <2>2. row' = [row EXCEPT ![About[j]].state =
                  IF @ \in {"none", "verified_fixed"} THEN "open" ELSE @]
    BY <2>1 DEF SettleCandidate
  <2>3. row[f] \in Row
    BY DEF IInv, TypeOK
  <2>4. row'[f].state \in {row[f].state, "open"}
    BY <2>2, <2>3 DEF IInv, TypeOK, Row
  <2>. QED  BY <2>4
<1>3. CASE \E u \in User \cup Jev : OtherWrite(u)
  <2>1. PICK u \in User \cup Jev : OtherWrite(u)
    BY <1>3
  <2>2. tri[u] # None /\ tri' = [tri EXCEPT ![u] = None]
    BY <2>1 DEF OtherWrite
  <2>3. PICK new \in Row :
           /\ row' = [row EXCEPT ![tri[u].f] = new]
           /\ new.state = IF u \in User THEN tri[u].to
                          ELSE row[tri[u].f].state
    BY <2>1, <2>2, OtherRow DEF IInv
  <2>4. tri[u].f = f /\ u \in User
    BY <2>3 DEF IInv, TypeOK
  <2>5. tri'[u] = None
    BY <2>2 DEF IInv, TypeOK
  <2>. QED  BY <2>2, <2>4, <2>5 DEF Decides
<1>. QED  BY <1>1, <1>2, <1>3, RowChanges

\* A finding is confirmed or dismissed by a person, or by a review whose two
\* passes agree on it, for any number of reviews at work at once.
THEOREM TwoPasses == Spec => TwoPassesDecide
<1>. DEFINE A ==
       \A f \in Finding :
         row'[f].state # row[f].state /\ row'[f].state \in {"confirmed", "dismissed"} =>
           \/ \E u \in User : tri[u] # None /\ tri[u].f = f /\ tri'[u] = None
           \/ \E j \in Job :
                /\ About[j] = f /\ pc[j] = "write" /\ pc'[j] = row'[f].state
                /\ Agreed(j, IF row'[f].state = "confirmed" THEN "true_positive"
                             ELSE "false_positive")
<1>1. IInv /\ [Next]_vars => [A]_vars
  <2>1. IInv /\ Next => A
    BY DecisionStep DEF Decides
  <2>. QED  BY <2>1
<1>2. Spec => [][A]_vars
  BY <1>1, Invariance, PTL DEF Spec
<1>. QED  BY <1>2 DEF TwoPassesDecide

-----------------------------------------------------------------------------
(* What is safe in "a cancelled pool drains" and "an unpaused pool gets      *)
(* through its jobs": the spawner waits for a permit only while a job is     *)
(* queued, every permit that is taken is with a review that is still at      *)
(* work, and every review goes through its two passes once.                  *)

\* Where the reviews stand when the spawner is done with them.
SpawnerInv ==
    /\ spawner = "acquire" => Queued # {}
    /\ spawner \in {"join", "returned"} => abort \/ Queued = {}
    /\ spawner = "returned" => Running = {}

\* The pass a review is at.
PassInv ==
    \A j \in Job : /\ pc[j] \in {"queued", "waiting"} => op[j] = "inv"
                   /\ pc[j] = "ask" => op[j] # "set"
                   /\ pc[j] = "settle" => op[j] = "val"

JobStep(j) ==
    \/ Spawn(j) \/ BeginReview(j) \/ SkipReview(j) \/ Answer(j)
    \/ AnswerFailed(j) \/ ReadRow(j) \/ WriteRow(j) \/ WriteFailed(j)
    \/ SettleFinding(j) \/ SettleCandidate(j) \/ SettleFailed(j)

\* A step of one review, as the others see it.
LEMMA OneReview ==
  ASSUME IInv, NEW k \in Job, JobStep(k)
  PROVE  /\ \A j \in Job \ {k} : pc'[j] = pc[j] /\ op'[j] = op[j]
         /\ pc[k] \in Working \/ Spawn(k)
         /\ Spawn(k) \/ (pc'[k] # "queued" /\ UNCHANGED <<spawner, abort>>)
<1>1. CASE WriteRow(k) \/ WriteFailed(k)
  <2>1. pc[k] \in {"read", "write"} /\ UNCHANGED <<spawner, abort>>
    BY <1>1 DEF WriteRow, WriteFailed, control
  <2>2. \/ AfterWrite(k)
        \/ pc' = [pc EXCEPT ![k] = "error"] /\ op' = op
    BY <1>1 DEF WriteRow, WriteFailed, Goto
  <2>3. /\ \A j \in Job \ {k} : pc'[j] = pc[j] /\ op'[j] = op[j]
        /\ pc'[k] # "queued"
    BY <2>1, <2>2, AfterWriteGoes DEF IInv, TypeOK
  <2>. QED  BY <2>1, <2>3 DEF Working
<1>2. CASE Spawn(k) \/ BeginReview(k) \/ SkipReview(k) \/ AnswerFailed(k)
  BY <1>2 DEF Spawn, BeginReview, SkipReview, AnswerFailed, Goto, IInv, TypeOK,
              Working, control
<1>3. CASE Answer(k)
  BY <1>3 DEF Answer, Goto, IInv, TypeOK, Working, control
<1>4. CASE ReadRow(k) \/ SettleFinding(k) \/ SettleFailed(k)
  BY <1>4 DEF ReadRow, SettleFinding, SettleFailed, Goto, IInv, TypeOK, Working,
              control
<1>5. CASE SettleCandidate(k)
  BY <1>5 DEF SettleCandidate, Goto, IInv, TypeOK, Working, control
<1>. QED  BY <1>1, <1>2, <1>3, <1>4, <1>5 DEF JobStep

LEMMA SpawnerStep == IInv /\ SpawnerInv /\ [Next]_vars => SpawnerInv'
<1>. SUFFICES ASSUME IInv, SpawnerInv, [Next]_vars PROVE SpawnerInv'
  OBVIOUS
<1>1. CASE SpawnCheck
  BY <1>1 DEF SpawnCheck, SpawnerInv, Queued, Running, job, control
<1>2. CASE JoinAll
  BY <1>2 DEF JoinAll, SpawnerInv, Queued, Running, job, control
<1>3. CASE SetPause \/ Cancel \/ UNCHANGED vars
         \/ \E u \in User \cup Jev : OtherRead(u) \/ OtherWrite(u)
  <2>1. UNCHANGED <<pc, spawner>>
    BY <1>3 DEF SetPause, Cancel, vars, OtherRead, OtherWrite, job
  <2>2. abort' = abort \/ abort' = TRUE
    BY <1>3 DEF SetPause, Cancel, vars, OtherRead, OtherWrite, control
  <2>. QED  BY <2>1, <2>2 DEF SpawnerInv, Queued, Running
<1>4. ASSUME NEW k \in Job, JobStep(k)
      PROVE  SpawnerInv'
  <2>1. CASE Spawn(k)
    BY <2>1 DEF Spawn, SpawnerInv
  <2>2. CASE ~Spawn(k)
    <3>1. /\ pc[k] \in Working /\ pc'[k] # "queued"
          /\ UNCHANGED <<spawner, abort>>
          /\ \A j \in Job \ {k} : pc'[j] = pc[j]
      BY <1>4, <2>2, OneReview
    <3>2. Queued' = Queued /\ Running # {}
      BY <3>1 DEF Queued, Running, Working
    <3>. QED  BY <3>1, <3>2 DEF SpawnerInv
  <2>. QED  BY <2>1, <2>2
<1>5. \/ SpawnCheck \/ JoinAll \/ SetPause \/ Cancel \/ UNCHANGED vars
      \/ \E u \in User \cup Jev : OtherRead(u) \/ OtherWrite(u)
      \/ \E k \in Job : JobStep(k)
  BY NextIsStep DEF Step, JobStep
<1>. QED  BY <1>1, <1>2, <1>3, <1>4, <1>5

LEMMA PoolHolds == Spec => [](IInv /\ SpawnerInv)
<1>1. Init => SpawnerInv
  BY DEF Init, SpawnerInv
<1>. QED  BY <1>1, SpawnerStep, Invariance, PTL DEF Spec

\* agent::run waits for a permit only for a job that is there, and the permits
\* that are missing are with reviews at work: with MaxWorkers positive it
\* cannot wait for itself.  When it returns no review is at work any more, and
\* all of them have ended unless the scan was cancelled.
PermitsComeBack ==
    /\ spawner = "acquire" => Queued # {} /\ (Free > 0 \/ Running # {})
    /\ spawner = "returned" =>
          /\ Running = {}
          /\ abort \/ \A j \in Job : pc[j] \in Outcome

\* The spawner never waits for a permit that nobody will give back, and it
\* returns with no review running (agent.rs, run).
THEOREM PoolNeverStuck == Spec => []PermitsComeBack
<1>1. IInv /\ SpawnerInv => PermitsComeBack
  <2>. SUFFICES ASSUME IInv, SpawnerInv PROVE PermitsComeBack
    OBVIOUS
  <2>1. Running = {} => Free > 0
    BY FS_EmptySet, PoolAssumption DEF Free
  <2>2. Queued = {} /\ Running = {} => \A j \in Job : pc[j] \in Outcome
    BY DEF Queued, Running, IInv, TypeOK
  <2>. QED  BY <2>1, <2>2 DEF PermitsComeBack, SpawnerInv
<1>. QED  BY <1>1, PoolHolds, PTL

\* Once agent::run has returned, the reviews write nothing: what the scan then
\* closes and reports no verdict changes behind its back.
ReturnedIsQuiet == [][spawner = "returned" => UNCHANGED <<job, cand, spawner>>]_vars

\* No review writes a verdict after run has returned (agent.rs, run).
THEOREM QuietAfterReturn == Spec => ReturnedIsQuiet
<1>1. ASSUME IInv, SpawnerInv, [Next]_vars, spawner = "returned"
      PROVE  UNCHANGED <<job, cand, spawner>>
  <2>1. ~\E k \in Job : JobStep(k)
    <3>. SUFFICES ASSUME NEW k \in Job, JobStep(k) PROVE FALSE
      OBVIOUS
    <3>1. ~Spawn(k)
      BY <1>1 DEF Spawn
    <3>. QED  BY <1>1, <3>1, OneReview DEF SpawnerInv, Running
  <2>2. ~SpawnCheck /\ ~JoinAll
    BY <1>1 DEF SpawnCheck, JoinAll
  <2>3. SetPause \/ Cancel \/ UNCHANGED vars
        \/ \E u \in User \cup Jev : OtherRead(u) \/ OtherWrite(u)
    BY <1>1, <2>1, <2>2, NextIsStep DEF Step, JobStep
  <2>. QED  BY <2>3 DEF SetPause, Cancel, vars, OtherRead, OtherWrite
<1>2. IInv /\ SpawnerInv /\ [Next]_vars =>
        [spawner = "returned" => UNCHANGED <<job, cand, spawner>>]_vars
  BY <1>1
<1>. QED  BY <1>2, PoolHolds, PTL DEF Spec, ReturnedIsQuiet
-----------------------------------------------------------------------------
(* How far a review is from its end: the passes of a finding are written as  *)
(* they come, those of a candidate once it is on the ledger.                 *)

LEMMA PassStep == IInv /\ PassInv /\ [Next]_vars => PassInv'
<1>. SUFFICES ASSUME IInv, PassInv, [Next]_vars PROVE PassInv'
  OBVIOUS
<1>1. CASE UNCHANGED job
  BY <1>1 DEF job, PassInv
<1>2. ASSUME NEW k \in Job, JobStep(k)
      PROVE  PassInv'
  <2>1. \A j \in Job \ {k} : pc'[j] = pc[j] /\ op'[j] = op[j]
    BY <1>2, OneReview
  <2>2. ASSUME pc'[k] \in {"queued", "waiting"} => op'[k] = "inv",
               pc'[k] = "ask" => op'[k] # "set",
               pc'[k] = "settle" => op'[k] = "val"
        PROVE  PassInv'
    BY <2>1, <2>2 DEF PassInv
  <2>3. CASE Spawn(k) \/ BeginReview(k) \/ SkipReview(k) \/ AnswerFailed(k)
    BY <2>2, <2>3 DEF Spawn, BeginReview, SkipReview, AnswerFailed, Goto, IInv, TypeOK,
                PassInv
  <2>4. CASE Answer(k)
    BY <2>2, <2>4 DEF Answer, Goto, IInv, TypeOK, PassInv
  <2>5. CASE ReadRow(k) \/ SettleFinding(k) \/ SettleFailed(k) \/ SettleCandidate(k)
    BY <2>2, <2>5 DEF ReadRow, SettleFinding, SettleFailed, SettleCandidate, Goto, IInv,
                TypeOK
  <2>6. CASE WriteRow(k) \/ WriteFailed(k)
    <3>1. pc'[k] = "error" \/ AfterWrite(k)
      BY <2>6 DEF WriteRow, WriteFailed, Goto, IInv, TypeOK
    <3>2. CASE AfterWrite(k)
      <4>1. Settled(k) \in {"confirmed", "dismissed"}
        BY DEF Settled
      <4>. HIDE DEF Settled
      <4>2. /\ pc'[k] \notin {"queued", "waiting"}
            /\ pc'[k] \in {"ask", "settle"} => op'[k] = "val"
        BY <3>2, <4>1 DEF AfterWrite, Goto, IInv, TypeOK
      <4>. QED  BY <2>2, <4>2
    <3>. QED  BY <2>2, <3>1, <3>2
  <2>. QED  BY <1>2, <2>3, <2>4, <2>5, <2>6 DEF JobStep
<1>3. UNCHANGED job \/ \E k \in Job : JobStep(k)
  BY NextIsStep DEF Step, JobStep, SpawnCheck, JoinAll, SetPause, Cancel, OtherRead,
     OtherWrite, vars
<1>. QED  BY <1>1, <1>2, <1>3

LEMMA PassHolds == Spec => [](IInv /\ PassInv)
<1>1. Init => PassInv
  BY DEF Init, PassInv
<1>. QED  BY <1>1, PassStep, Invariance, PTL DEF Spec

FindingLeft == [inv |-> [ask |-> 10, read |-> 9, write |-> 8],
                val |-> [ask |-> 7, read |-> 6, write |-> 5, settle |-> 4],
                set |-> [read |-> 2, write |-> 1]]
CandidateLeft == [inv |-> [ask |-> 10, read |-> 6, write |-> 5],
                  val |-> [ask |-> 9, settle |-> 8, read |-> 4, write |-> 3],
                  set |-> [read |-> 2, write |-> 1]]

ReviewLeft(j) ==
    CASE pc[j] = "queued"   -> 12
      [] pc[j] = "waiting"  -> 11
      [] pc[j] \in Outcome  -> 0
      [] OTHER -> (IF j \in ByCandidate THEN CandidateLeft ELSE FindingLeft)[op[j]][pc[j]]

\* A review only goes forward, whatever fails, whoever pauses or triages: it
\* asks the model twice at most and no failed write is tried again.
Forward == \A j \in Job : \/ pc'[j] = pc[j] /\ op'[j] = op[j]
                          \/ ReviewLeft(j)' < ReviewLeft(j)

ReviewsGoForward == [][Forward]_vars

LEMMA ForwardStep ==
  ASSUME IInv, PassInv, [Next]_vars
  PROVE  Forward
<1>1. CASE UNCHANGED job
  BY <1>1 DEF job, Forward
<1>2. ASSUME NEW k \in Job, JobStep(k)
      PROVE  Forward
  <2>1. \A j \in Job \ {k} : pc'[j] = pc[j] /\ op'[j] = op[j]
    BY <1>2, OneReview
  <2>2. ASSUME ReviewLeft(k)' < ReviewLeft(k) PROVE Forward
    BY <2>1, <2>2 DEF Forward
  <2>3. CASE Spawn(k)
    BY <2>2, <2>3 DEF Spawn, ReviewLeft, IInv, TypeOK, Outcome
  <2>4. CASE BeginReview(k) \/ SkipReview(k)
    BY <2>2, <2>4 DEF BeginReview, SkipReview, Goto, PassInv, ReviewLeft, FindingLeft,
                CandidateLeft, IInv, TypeOK, Outcome
  <2>5. CASE Answer(k) \/ AnswerFailed(k)
    BY <2>2, <2>5 DEF Answer, AnswerFailed, Goto, PassInv, ReviewLeft, FindingLeft,
                CandidateLeft, IInv, TypeOK, Outcome
  <2>6. CASE ReadRow(k)
    BY <2>2, <2>6 DEF ReadRow, Goto, PassInv, ReviewLeft, FindingLeft,
                CandidateLeft, IInv, TypeOK, Outcome
  <2>7. CASE SettleFinding(k)
    BY <2>2, <2>7 DEF SettleFinding, Goto, PassInv, ReviewLeft, FindingLeft,
                CandidateLeft, IInv, TypeOK, Outcome
  <2>8. CASE SettleCandidate(k)
    BY <2>2, <2>8 DEF SettleCandidate, Goto, PassInv, ReviewLeft, FindingLeft,
                CandidateLeft, IInv, TypeOK, Outcome
  <2>9. CASE SettleFailed(k)
    BY <2>2, <2>9 DEF SettleFailed, Goto, PassInv, ReviewLeft, FindingLeft,
                CandidateLeft, IInv, TypeOK, Outcome
  <2>10. CASE WriteRow(k) \/ WriteFailed(k)
    <3>1. /\ pc[k] \in {"read", "write"}
          /\ \/ AfterWrite(k)
             \/ pc'[k] = "error"
      BY <2>10 DEF WriteRow, WriteFailed, Goto, IInv, TypeOK
    <3>2. CASE pc'[k] = "error"
      BY <2>2, <3>1, <3>2 DEF ReviewLeft, FindingLeft, CandidateLeft, IInv, TypeOK, Outcome
    <3>3. CASE AfterWrite(k)
      <4>1. Settled(k) \in {"confirmed", "dismissed"}
        BY DEF Settled
      <4>. HIDE DEF Settled
      <4>2. CASE op[k] = "inv"
        BY <2>2, <3>1, <3>3, <4>2 DEF AfterWrite, Goto, ReviewLeft, FindingLeft,
           CandidateLeft, IInv, TypeOK, Outcome
      <4>3. CASE op[k] = "val"
        BY <2>2, <3>1, <3>3, <4>3 DEF AfterWrite, Goto, ReviewLeft, FindingLeft,
           CandidateLeft, IInv, TypeOK, Outcome
      <4>4. CASE op[k] = "set"
        BY <2>2, <3>1, <3>3, <4>1, <4>4 DEF AfterWrite, Goto, ReviewLeft, FindingLeft,
           CandidateLeft, IInv, TypeOK, Outcome
      <4>. QED  BY <4>2, <4>3, <4>4 DEF IInv, TypeOK
    <3>. QED  BY <3>1, <3>2, <3>3
  <2>. QED  BY <1>2, <2>3, <2>4, <2>5, <2>6, <2>7, <2>8, <2>9, <2>10 DEF JobStep
<1>3. UNCHANGED job \/ \E k \in Job : JobStep(k)
  BY NextIsStep DEF Step, JobStep, SpawnCheck, JoinAll, SetPause, Cancel, OtherRead,
     OtherWrite, vars
<1>. QED  BY <1>1, <1>2, <1>3

\* Every step of a review is a step towards its end (agent.rs, review_one).
THEOREM ReviewsEnd == Spec => ReviewsGoForward
<1>1. IInv /\ PassInv /\ [Next]_vars => [Forward]_vars
  BY ForwardStep
<1>. QED  BY <1>1, PassHolds, PTL DEF Spec, ReviewsGoForward
=============================================================================
