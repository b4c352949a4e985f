------------------------- MODULE Elicitation_proofs -------------------------
(* Type correctness, the refinement of ElicitationPromise and the truth of  *)
(* what responders are told, for any number of requests, responders, tool   *)
(* calls and sessions.                                                      *)
EXTENDS Elicitation, TLAPS

-----------------------------------------------------------------------------
(* The inductive invariant.  Its heart is response_tx: it is taken by the   *)
(* one who decides the request, under the mutex, so whoever holds the claim *)
(* finds nothing recorded and a server that has not been answered.          *)

\* The mutex of an entry is held by the claim on it, and tx is still there.
GuardInv ==
    /\ \A r \in Responder :
          rpc[r] \in {"claimed", "submit"} => guard[target[r]] = r
    /\ \A q \in Request : guard[q] # None =>
          /\ q \in tx
          /\ rpc[guard[q]] \in {"claimed", "submit"}
          /\ target[guard[q]] = q

\* Only a question that was shown is answered.
TargetInv ==
    \A r \in Responder :
       rpc[r] # "idle" => target[r] \in Request /\ Shown(target[r])

\* A recorded answer is about to take tx or has taken it, and is turned down
\* only by a server that left.
RecordInv ==
    \A q \in Request : \A r \in recorded[q] :
       /\ target[r] = q
       /\ rpc[r] \in {"submit", "send", "ok", "err"}
       /\ rpc[r] # "submit" => q \notin tx
       /\ rpc[r] = "err" => result[q] = "abandoned"

\* What is submitted was recorded.
HeldInv ==
    \A r \in Responder :
       rpc[r] \in {"submit", "send", "ok"} => r \in recorded[target[r]]

OneInv == \A q \in Request : \A r, s \in recorded[q] : r = s

\* Where request_and_wait stands and what it returned.
ResultInv ==
    \A q \in Request :
       /\ qpc[q] \in {"idle", "lookup", "send"} \cup Waiting
             => result[q] = "pending"
       /\ qpc[q] = "gone" => result[q] = "abandoned"
       /\ qpc[q] \in {"return", "done"}
             => result[q] \notin {"pending", "abandoned"} /\ q \notin tx
       /\ result[q] \in Responder => chan[q] = result[q]
       /\ result[q] = "failed" => recorded[q] = {}
       /\ chan[q] # None => /\ rpc[chan[q]] = "ok"
                            /\ target[chan[q]] = q

IInv == /\ TypeOK /\ GuardInv /\ TargetInv /\ RecordInv
        /\ HeldInv /\ OneInv /\ ResultInv /\ ReturnedIsForgotten

-----------------------------------------------------------------------------
LEMMA InitInv == Init => IInv
  BY NoneAssumption, NamesAssumption, SessionAssumption
  DEF Init, IInv, TypeOK, GuardInv, TargetInv, RecordInv, HeldInv, OneInv,
      ResultInv, ReturnedIsForgotten, Waiting

LEMMA DispatchKeeps ==
  ASSUME IInv, NEW c \in Call, Dispatch(c)
  PROVE  IInv'
<1>. USE NoneAssumption, NamesAssumption DEF Dispatch, streamVars, entryVars, requestVars, responderVars,
      Waiting, Shown, RxClosed, IInv
<1>1. TypeOK'
  BY DEF TypeOK
<1>2. GuardInv'
  BY DEF TypeOK, GuardInv, TargetInv
<1>3. TargetInv'
  BY DEF TypeOK, TargetInv
<1>4. RecordInv'
  BY DEF TypeOK, RecordInv, GuardInv, TargetInv, ResultInv, HeldInv, OneInv
<1>5. HeldInv'
  BY DEF TypeOK, HeldInv, RecordInv, TargetInv
<1>6. OneInv'
  BY DEF TypeOK, OneInv, RecordInv, GuardInv
<1>7. ResultInv'
  BY DEF TypeOK, ResultInv, RecordInv, GuardInv, TargetInv, OneInv, HeldInv
<1>8. ReturnedIsForgotten'
  BY DEF TypeOK, ReturnedIsForgotten, GuardInv, ResultInv, TargetInv
<1>. QED  BY <1>1, <1>2, <1>3, <1>4, <1>5, <1>6, <1>7, <1>8 DEF IInv

LEMMA DropStreamKeeps ==
  ASSUME IInv, NEW c \in Call, DropStream(c)
  PROVE  IInv'
<1>. USE NoneAssumption, NamesAssumption DEF DropStream, streamVars, entryVars, requestVars, responderVars,
      Waiting, Shown, RxClosed, IInv
<1>1. TypeOK'
  BY DEF TypeOK
<1>2. GuardInv'
  BY DEF TypeOK, GuardInv, TargetInv
<1>3. TargetInv'
  BY DEF TypeOK, TargetInv
<1>4. RecordInv'
  BY DEF TypeOK, RecordInv, GuardInv, TargetInv, ResultInv, HeldInv, OneInv
<1>5. HeldInv'
  BY DEF TypeOK, HeldInv, RecordInv, TargetInv
<1>6. OneInv'
  BY DEF TypeOK, OneInv, RecordInv, GuardInv
<1>7. ResultInv'
  BY DEF TypeOK, ResultInv, RecordInv, GuardInv, TargetInv, OneInv, HeldInv
<1>8. ReturnedIsForgotten'
  BY DEF TypeOK, ReturnedIsForgotten, GuardInv, ResultInv, TargetInv
<1>. QED  BY <1>1, <1>2, <1>3, <1>4, <1>5, <1>6, <1>7, <1>8 DEF IInv

LEMMA UnregisterKeeps ==
  ASSUME IInv, NEW c \in Call, Unregister(c)
  PROVE  IInv'
<1>. USE NoneAssumption, NamesAssumption DEF Unregister, streamVars, entryVars, requestVars, responderVars,
      Waiting, Shown, RxClosed, IInv
<1>1. TypeOK'
  BY DEF TypeOK
<1>2. GuardInv'
  BY DEF TypeOK, GuardInv, TargetInv
<1>3. TargetInv'
  BY DEF TypeOK, TargetInv
<1>4. RecordInv'
  BY DEF TypeOK, RecordInv, GuardInv, TargetInv, ResultInv, HeldInv, OneInv
<1>5. HeldInv'
  BY DEF TypeOK, HeldInv, RecordInv, TargetInv
<1>6. OneInv'
  BY DEF TypeOK, OneInv, RecordInv, GuardInv
<1>7. ResultInv'
  BY DEF TypeOK, ResultInv, RecordInv, GuardInv, TargetInv, OneInv, HeldInv
<1>8. ReturnedIsForgotten'
  BY DEF TypeOK, ReturnedIsForgotten, GuardInv, ResultInv, TargetInv
<1>. QED  BY <1>1, <1>2, <1>3, <1>4, <1>5, <1>6, <1>7, <1>8 DEF IInv

LEMMA AskInsertKeeps ==
  ASSUME IInv, NEW q \in Request, AskInsert(q)
  PROVE  IInv'
<1>. USE NoneAssumption, NamesAssumption DEF AskInsert, streamVars, entryVars, requestVars, responderVars,
      Waiting, Shown, RxClosed, IInv
<1>1. TypeOK'
  BY DEF TypeOK
<1>2. GuardInv'
  BY DEF TypeOK, GuardInv, TargetInv
<1>3. TargetInv'
  BY DEF TypeOK, TargetInv
<1>4. RecordInv'
  BY DEF TypeOK, RecordInv, GuardInv, TargetInv, ResultInv, HeldInv, OneInv
<1>5. HeldInv'
  BY DEF TypeOK, HeldInv, RecordInv, TargetInv
<1>6. OneInv'
  BY DEF TypeOK, OneInv, RecordInv, GuardInv
<1>7. ResultInv'
  BY DEF TypeOK, ResultInv, RecordInv, GuardInv, TargetInv, OneInv, HeldInv
<1>8. ReturnedIsForgotten'
  BY DEF TypeOK, ReturnedIsForgotten, GuardInv, ResultInv, TargetInv
<1>. QED  BY <1>1, <1>2, <1>3, <1>4, <1>5, <1>6, <1>7, <1>8 DEF IInv

LEMMA AskLookupKeeps ==
  ASSUME IInv, NEW q \in Request, AskLookup(q)
  PROVE  IInv'
<1>. USE NoneAssumption, NamesAssumption DEF AskLookup, GiveUp, streamVars, entryVars, requestVars, responderVars,
      Waiting, Shown, RxClosed, IInv
<1>1. TypeOK'
  BY DEF TypeOK
<1>2. GuardInv'
  BY DEF TypeOK, GuardInv, TargetInv
<1>3. TargetInv'
  BY DEF TypeOK, TargetInv
<1>4. RecordInv'
  BY DEF TypeOK, RecordInv, GuardInv, TargetInv, ResultInv, HeldInv, OneInv
<1>5. HeldInv'
  BY DEF TypeOK, HeldInv, RecordInv, TargetInv
<1>6. OneInv'
  BY DEF TypeOK, OneInv, RecordInv, GuardInv
<1>7. ResultInv'
  BY DEF TypeOK, ResultInv, RecordInv, GuardInv, TargetInv, OneInv, HeldInv
<1>8. ReturnedIsForgotten'
  BY DEF TypeOK, ReturnedIsForgotten, GuardInv, ResultInv, TargetInv
<1>. QED  BY <1>1, <1>2, <1>3, <1>4, <1>5, <1>6, <1>7, <1>8 DEF IInv

LEMMA AskSendKeeps ==
  ASSUME IInv, NEW q \in Request, AskSend(q)
  PROVE  IInv'
<1>. USE NoneAssumption, NamesAssumption DEF AskSend, GiveUp, streamVars, entryVars, requestVars, responderVars,
      Waiting, Shown, RxClosed, IInv
<1>1. TypeOK'
  BY DEF TypeOK
<1>2. GuardInv'
  BY DEF TypeOK, GuardInv, TargetInv
<1>3. TargetInv'
  BY DEF TypeOK, TargetInv
<1>4. RecordInv'
  BY DEF TypeOK, RecordInv, GuardInv, TargetInv, ResultInv, HeldInv, OneInv
<1>5. HeldInv'
  BY DEF TypeOK, HeldInv, RecordInv, TargetInv
<1>6. OneInv'
  BY DEF TypeOK, OneInv, RecordInv, GuardInv
<1>7. ResultInv'
  BY DEF TypeOK, ResultInv, RecordInv, GuardInv, TargetInv, OneInv, HeldInv
<1>8. ReturnedIsForgotten'
  BY DEF TypeOK, ReturnedIsForgotten, GuardInv, ResultInv, TargetInv
<1>. QED  BY <1>1, <1>2, <1>3, <1>4, <1>5, <1>6, <1>7, <1>8 DEF IInv

LEMMA ReceiveKeeps ==
  ASSUME IInv, NEW q \in Request, Receive(q)
  PROVE  IInv'
<1>. USE NoneAssumption, NamesAssumption DEF Receive, streamVars, entryVars, requestVars, responderVars,
      Waiting, Shown, RxClosed, IInv
<1>1. TypeOK'
  BY DEF TypeOK
<1>2. GuardInv'
  BY DEF TypeOK, GuardInv, TargetInv
<1>3. TargetInv'
  BY DEF TypeOK, TargetInv
<1>4. RecordInv'
  BY DEF TypeOK, RecordInv, GuardInv, TargetInv, ResultInv, HeldInv, OneInv
<1>5. HeldInv'
  BY DEF TypeOK, HeldInv, RecordInv, TargetInv
<1>6. OneInv'
  BY DEF TypeOK, OneInv, RecordInv, GuardInv
<1>7. ResultInv'
  BY DEF TypeOK, ResultInv, RecordInv, GuardInv, TargetInv, OneInv, HeldInv
<1>8. ReturnedIsForgotten'
  BY DEF TypeOK, ReturnedIsForgotten, GuardInv, ResultInv, TargetInv
<1>. QED  BY <1>1, <1>2, <1>3, <1>4, <1>5, <1>6, <1>7, <1>8 DEF IInv

LEMMA ExpireKeeps ==
  ASSUME IInv, NEW q \in Request, Expire(q)
  PROVE  IInv'
<1>. USE NoneAssumption, NamesAssumption DEF Expire, streamVars, entryVars, requestVars, responderVars,
      Waiting, Shown, RxClosed, IInv
<1>1. TypeOK'
  BY DEF TypeOK
<1>2. GuardInv'
  BY DEF TypeOK, GuardInv, TargetInv
<1>3. TargetInv'
  BY DEF TypeOK, TargetInv
<1>4. RecordInv'
  BY DEF TypeOK, RecordInv, GuardInv, TargetInv, ResultInv, HeldInv, OneInv
<1>5. HeldInv'
  BY DEF TypeOK, HeldInv, RecordInv, TargetInv
<1>6. OneInv'
  BY DEF TypeOK, OneInv, RecordInv, GuardInv
<1>7. ResultInv'
  BY DEF TypeOK, ResultInv, RecordInv, GuardInv, TargetInv, OneInv, HeldInv
<1>8. ReturnedIsForgotten'
  BY DEF TypeOK, ReturnedIsForgotten, GuardInv, ResultInv, TargetInv
<1>. QED  BY <1>1, <1>2, <1>3, <1>4, <1>5, <1>6, <1>7, <1>8 DEF IInv

LEMMA AfterTimeoutKeeps ==
  ASSUME IInv, NEW q \in Request, AfterTimeout(q)
  PROVE  IInv'
<1>. USE NoneAssumption, NamesAssumption DEF AfterTimeout, streamVars, entryVars, requestVars, responderVars,
      Waiting, Shown, RxClosed, IInv
<1>1. TypeOK'
  BY DEF TypeOK
<1>2. GuardInv'
  BY DEF TypeOK, GuardInv, TargetInv
<1>3. TargetInv'
  BY DEF TypeOK, TargetInv
<1>4. RecordInv'
  BY DEF TypeOK, RecordInv, GuardInv, TargetInv, ResultInv, HeldInv, OneInv
<1>5. HeldInv'
  BY DEF TypeOK, HeldInv, RecordInv, TargetInv
<1>6. OneInv'
  BY DEF TypeOK, OneInv, RecordInv, GuardInv
<1>7. ResultInv'
  BY DEF TypeOK, ResultInv, RecordInv, GuardInv, TargetInv, OneInv, HeldInv
<1>8. ReturnedIsForgotten'
  BY DEF TypeOK, ReturnedIsForgotten, GuardInv, ResultInv, TargetInv
<1>. QED  BY <1>1, <1>2, <1>3, <1>4, <1>5, <1>6, <1>7, <1>8 DEF IInv

LEMMA ReturnKeeps ==
  ASSUME IInv, NEW q \in Request, Return(q)
  PROVE  IInv'
<1>. USE NoneAssumption, NamesAssumption DEF Return, streamVars, entryVars, requestVars, responderVars,
      Waiting, Shown, RxClosed, IInv
<1>1. TypeOK'
  BY DEF TypeOK
<1>2. GuardInv'
  BY DEF TypeOK, GuardInv, TargetInv
<1>3. TargetInv'
  BY DEF TypeOK, TargetInv
<1>4. RecordInv'
  BY DEF TypeOK, RecordInv, GuardInv, TargetInv, ResultInv, HeldInv, OneInv
<1>5. HeldInv'
  BY DEF TypeOK, HeldInv, RecordInv, TargetInv
<1>6. OneInv'
  BY DEF TypeOK, OneInv, RecordInv, GuardInv
<1>7. ResultInv'
  BY DEF TypeOK, ResultInv, RecordInv, GuardInv, TargetInv, OneInv, HeldInv
<1>8. ReturnedIsForgotten'
  BY DEF TypeOK, ReturnedIsForgotten, GuardInv, ResultInv, TargetInv
<1>. QED  BY <1>1, <1>2, <1>3, <1>4, <1>5, <1>6, <1>7, <1>8 DEF IInv

LEMMA AbandonKeeps ==
  ASSUME IInv, NEW q \in Request, Abandon(q)
  PROVE  IInv'
<1>. USE NoneAssumption, NamesAssumption DEF Abandon, streamVars, entryVars, requestVars, responderVars,
      Waiting, Shown, RxClosed, IInv
<1>1. TypeOK'
  BY DEF TypeOK
<1>2. GuardInv'
  BY DEF TypeOK, GuardInv, TargetInv
<1>3. TargetInv'
  BY DEF TypeOK, TargetInv
<1>4. RecordInv'
  BY DEF TypeOK, RecordInv, GuardInv, TargetInv, ResultInv, HeldInv, OneInv
<1>5. HeldInv'
  BY DEF TypeOK, HeldInv, RecordInv, TargetInv
<1>6. OneInv'
  BY DEF TypeOK, OneInv, RecordInv, GuardInv
<1>7. ResultInv'
  BY DEF TypeOK, ResultInv, RecordInv, GuardInv, TargetInv, OneInv, HeldInv
<1>8. ReturnedIsForgotten'
  BY DEF TypeOK, ReturnedIsForgotten, GuardInv, ResultInv, TargetInv
<1>. QED  BY <1>1, <1>2, <1>3, <1>4, <1>5, <1>6, <1>7, <1>8 DEF IInv

LEMMA FindKeeps ==
  ASSUME IInv, NEW r \in Responder, NEW q \in Request, Find(r, q)
  PROVE  IInv'
<1>. USE NoneAssumption, NamesAssumption DEF Find, streamVars, entryVars, requestVars, responderVars,
      Waiting, Shown, RxClosed, IInv
<1>1. TypeOK'
  BY DEF TypeOK
<1>2. GuardInv'
  BY DEF TypeOK, GuardInv, TargetInv
<1>3. TargetInv'
  BY DEF TypeOK, TargetInv
<1>4. RecordInv'
  BY DEF TypeOK, RecordInv, GuardInv, TargetInv, ResultInv, HeldInv, OneInv
<1>5. HeldInv'
  BY DEF TypeOK, HeldInv, RecordInv, TargetInv
<1>6. OneInv'
  BY DEF TypeOK, OneInv, RecordInv, GuardInv
<1>7. ResultInv'
  BY DEF TypeOK, ResultInv, RecordInv, GuardInv, TargetInv, OneInv, HeldInv
<1>8. ReturnedIsForgotten'
  BY DEF TypeOK, ReturnedIsForgotten, GuardInv, ResultInv, TargetInv
<1>. QED  BY <1>1, <1>2, <1>3, <1>4, <1>5, <1>6, <1>7, <1>8 DEF IInv

LEMMA ClaimKeeps ==
  ASSUME IInv, NEW r \in Responder, Claim(r)
  PROVE  IInv'
<1>. USE NoneAssumption, NamesAssumption DEF Claim, streamVars, entryVars, requestVars, responderVars,
      Waiting, Shown, RxClosed, IInv
<1>1. TypeOK'
  BY DEF TypeOK
<1>2. GuardInv'
  BY DEF TypeOK, GuardInv, TargetInv
<1>3. TargetInv'
  BY DEF TypeOK, TargetInv
<1>4. RecordInv'
  BY DEF TypeOK, RecordInv, GuardInv, TargetInv, ResultInv, HeldInv, OneInv
<1>5. HeldInv'
  BY DEF TypeOK, HeldInv, RecordInv, TargetInv
<1>6. OneInv'
  BY DEF TypeOK, OneInv, RecordInv, GuardInv
<1>7. ResultInv'
  BY DEF TypeOK, ResultInv, RecordInv, GuardInv, TargetInv, OneInv, HeldInv
<1>8. ReturnedIsForgotten'
  BY DEF TypeOK, ReturnedIsForgotten, GuardInv, ResultInv, TargetInv
<1>. QED  BY <1>1, <1>2, <1>3, <1>4, <1>5, <1>6, <1>7, <1>8 DEF IInv

LEMMA AddMessageKeeps ==
  ASSUME IInv, NEW r \in Responder, AddMessage(r)
  PROVE  IInv'
<1>. USE NoneAssumption, NamesAssumption DEF AddMessage, streamVars, entryVars, requestVars, responderVars,
      Waiting, Shown, RxClosed, IInv
<1>1. TypeOK'
  BY DEF TypeOK
<1>2. GuardInv'
  BY DEF TypeOK, GuardInv, TargetInv
<1>3. TargetInv'
  BY DEF TypeOK, TargetInv
<1>4. RecordInv'
  BY DEF TypeOK, RecordInv, GuardInv, TargetInv, ResultInv, HeldInv, OneInv
<1>5. HeldInv'
  BY DEF TypeOK, HeldInv, RecordInv, TargetInv
<1>6. OneInv'
  BY DEF TypeOK, OneInv, RecordInv, GuardInv
<1>7. ResultInv'
  BY DEF TypeOK, ResultInv, RecordInv, GuardInv, TargetInv, OneInv, HeldInv
<1>8. ReturnedIsForgotten'
  BY DEF TypeOK, ReturnedIsForgotten, GuardInv, ResultInv, TargetInv
<1>. QED  BY <1>1, <1>2, <1>3, <1>4, <1>5, <1>6, <1>7, <1>8 DEF IInv

LEMMA SubmitTakeKeeps ==
  ASSUME IInv, NEW r \in Responder, SubmitTake(r)
  PROVE  IInv'
<1>. USE NoneAssumption, NamesAssumption DEF SubmitTake, streamVars, entryVars, requestVars, responderVars,
      Waiting, Shown, RxClosed, IInv
<1>1. TypeOK'
  BY DEF TypeOK
<1>2. GuardInv'
  BY DEF TypeOK, GuardInv, TargetInv
<1>3. TargetInv'
  BY DEF TypeOK, TargetInv
<1>4. RecordInv'
  BY DEF TypeOK, RecordInv, GuardInv, TargetInv, ResultInv, HeldInv, OneInv
<1>5. HeldInv'
  BY DEF TypeOK, HeldInv, RecordInv, TargetInv
<1>6. OneInv'
  BY DEF TypeOK, OneInv, RecordInv, GuardInv
<1>7. ResultInv'
  BY DEF TypeOK, ResultInv, RecordInv, GuardInv, TargetInv, OneInv, HeldInv
<1>8. ReturnedIsForgotten'
  BY DEF TypeOK, ReturnedIsForgotten, GuardInv, ResultInv, TargetInv
<1>. QED  BY <1>1, <1>2, <1>3, <1>4, <1>5, <1>6, <1>7, <1>8 DEF IInv

LEMMA SubmitSendKeeps ==
  ASSUME IInv, NEW r \in Responder, SubmitSend(r)
  PROVE  IInv'
<1>. USE NoneAssumption, NamesAssumption DEF SubmitSend, streamVars, entryVars, requestVars, responderVars,
      Waiting, Shown, RxClosed, IInv
<1>1. TypeOK'
  BY DEF TypeOK
<1>2. GuardInv'
  BY DEF TypeOK, GuardInv, TargetInv
<1>3. TargetInv'
  BY DEF TypeOK, TargetInv
<1>4. RecordInv'
  BY DEF TypeOK, RecordInv, GuardInv, TargetInv, ResultInv, HeldInv, OneInv
<1>5. HeldInv'
  BY DEF TypeOK, HeldInv, RecordInv, TargetInv
<1>6. OneInv'
  BY DEF TypeOK, OneInv, RecordInv, GuardInv
<1>7. ResultInv'
  BY DEF TypeOK, ResultInv, RecordInv, GuardInv, TargetInv, OneInv, HeldInv
<1>8. ReturnedIsForgotten'
  BY DEF TypeOK, ReturnedIsForgotten, GuardInv, ResultInv, TargetInv
<1>. QED  BY <1>1, <1>2, <1>3, <1>4, <1>5, <1>6, <1>7, <1>8 DEF IInv

-----------------------------------------------------------------------------
LEMMA Invariance == Spec => []IInv
<1>1. IInv /\ [Next]_vars => IInv'
  <2>. SUFFICES ASSUME IInv, [Next]_vars PROVE IInv'
    OBVIOUS
  <2>1. CASE UNCHANGED vars
    BY <2>1 DEF vars, IInv, TypeOK, GuardInv, TargetInv, RecordInv, HeldInv,
       OneInv, ResultInv, ReturnedIsForgotten, Waiting, Shown
  <2>2. ASSUME NEW c \in Call, Dispatch(c) \/ DropStream(c) \/ Unregister(c)
        PROVE  IInv'
    BY <2>2, DispatchKeeps, DropStreamKeeps, UnregisterKeeps
  <2>3. ASSUME NEW q \in Request, AskInsert(q) \/ Asker(q) \/ Abandon(q)
        PROVE  IInv'
    BY <2>3, AskInsertKeeps, AskLookupKeeps, AskSendKeeps, ReceiveKeeps,
       ExpireKeeps, AfterTimeoutKeeps, ReturnKeeps, AbandonKeeps DEF Asker
  <2>4. ASSUME NEW r \in Responder,
               Answerer(r) \/ \E q \in Request : Find(r, q)
        PROVE  IInv'
    BY <2>4, FindKeeps, ClaimKeeps, AddMessageKeeps, SubmitTakeKeeps,
       SubmitSendKeeps DEF Answerer
  <2>. QED  BY <2>1, <2>2, <2>3, <2>4 DEF Next
<1>. QED  BY InitInv, <1>1, PTL DEF Spec

\* Every variable keeps its type (action_required_manager.rs:21-58).
THEOREM TypeCorrect == Spec => []TypeOK
  BY Invariance, PTL DEF IInv

\* A responder that is told "ok" has its answer delivered, and one that is
\* told of an error after its answer was written has lost its server
\* (elicitation.rs:33-52).
THEOREM ResponderToldTruth == Spec => []ToldTheTruth
<1>1. IInv => ToldTheTruth
  <2>. SUFFICES ASSUME IInv, NEW r \in Responder
                PROVE  LET q == target[r] IN
                       /\ rpc[r] = "ok" =>
                            /\ recorded[q] = {r}
                            /\ result[q] \in {"pending", r, "abandoned"}
                       /\ rpc[r] = "err" /\ r \in recorded[q]
                            => result[q] = "abandoned"
    BY DEF ToldTheTruth
  <2>. DEFINE q == target[r]
  <2>1. CASE rpc[r] = "ok"
    <3>1. q \in Request /\ r \in recorded[q]
      BY <2>1 DEF IInv, TargetInv, HeldInv
    <3>2. recorded[q] = {r}
      BY <3>1 DEF IInv, OneInv
    <3>3. result[q] # "failed"
      BY <3>1 DEF IInv, ResultInv
    <3>4. ASSUME result[q] \in Responder PROVE result[q] = r
      <4>1. chan[q] = result[q] /\ chan[q] # None
        BY <3>1, <3>4, NoneAssumption DEF IInv, ResultInv
      <4>2. rpc[chan[q]] = "ok" /\ target[chan[q]] = q
        BY <3>1, <4>1 DEF IInv, ResultInv
      <4>3. chan[q] \in recorded[q]
        BY <4>1, <4>2, <3>4 DEF IInv, HeldInv
      <4>. QED  BY <4>1, <4>3, <3>2
    <3>. QED  BY <2>1, <3>1, <3>2, <3>3, <3>4 DEF IInv, TypeOK
  <2>2. CASE rpc[r] = "err" /\ r \in recorded[q]
    BY <2>2 DEF IInv, RecordInv, TargetInv
  <2>. QED  BY <2>1, <2>2
<1>. QED  BY Invariance, <1>1, PTL

\* A request that returned leaves no entry and no held mutex
\* (action_required_manager.rs:104-110).
THEOREM ReturnedForgotten == Spec => []ReturnedIsForgotten
  BY Invariance, PTL DEF IInv

-----------------------------------------------------------------------------
(* The refinement: four actions decide something, the others stutter.      *)

LEMMA PromiseInit == Init => Promise!Init
  BY DEF Init, Promise!Init, Promise!Pending

LEMMA AddMessageRecords ==
  ASSUME IInv, NEW r \in Responder, AddMessage(r)
  PROVE  [Promise!Next]_<<recorded, result>>
<1>. DEFINE q == target[r]
<1>1. CASE UNCHANGED recorded
  BY <1>1 DEF AddMessage, requestVars
<1>2. CASE recorded' = [recorded EXCEPT ![q] = @ \cup {r}]
  <2>1. q \in Request /\ guard[q] = r /\ rpc[r] = "claimed"
    BY DEF AddMessage, IInv, GuardInv, TargetInv
  <2>2. q \in tx
    BY <2>1, NoneAssumption DEF IInv, GuardInv
  <2>3. recorded[q] = {}
    <3>. SUFFICES ASSUME NEW s \in recorded[q] PROVE FALSE
      OBVIOUS
    <3>1. s \in Responder /\ rpc[s] = "submit" /\ target[s] = q
      BY <2>1, <2>2 DEF IInv, TypeOK, RecordInv
    <3>2. guard[q] = s
      BY <3>1 DEF IInv, GuardInv
    <3>. QED  BY <2>1, <3>1, <3>2
  <2>4. qpc[q] \in Waiting \cup {"gone"}
    BY <2>1, <2>2 DEF IInv, TargetInv, ResultInv, Shown
  <2>5. result[q] \in {"pending", "abandoned"}
    BY <2>1, <2>4 DEF IInv, ResultInv
  <2>6. recorded' = [recorded EXCEPT ![q] = {r}]
    BY <1>2, <2>1, <2>3 DEF IInv, TypeOK
  <2>7. Promise!Record(q, r)
    BY <2>3, <2>5, <2>6
    DEF Promise!Record, Promise!Pending, Promise!Abandoned, AddMessage,
        requestVars
  <2>. QED  BY <2>1, <2>7 DEF Promise!Next
<1>. QED  BY <1>1, <1>2 DEF AddMessage

LEMMA ReceiveAnswers ==
  ASSUME IInv, NEW q \in Request, Receive(q)
  PROVE  [Promise!Next]_<<recorded, result>>
<1>. DEFINE r == chan[q]
<1>1. r \in Responder /\ rpc[r] = "ok" /\ target[r] = q
  BY DEF Receive, IInv, TypeOK, ResultInv
<1>2. recorded[q] = {r}
  BY <1>1 DEF IInv, HeldInv, OneInv
<1>3. result[q] = "pending"
  BY DEF Receive, IInv, ResultInv, Waiting
<1>4. Promise!Answer(q, r)
  BY <1>2, <1>3 DEF Promise!Answer, Promise!Pending, Receive, responderVars
<1>. QED  BY <1>1, <1>4 DEF Promise!Next

\* The early returns: the question was never shown, so nobody answered it.
LEMMA GiveUpFails ==
  ASSUME IInv, NEW q \in Request, qpc[q] \in {"lookup", "send"},
         GiveUp(q), UNCHANGED recorded
  PROVE  [Promise!Next]_<<recorded, result>>
<1>1. recorded[q] = {}
  <2>. SUFFICES ASSUME NEW s \in recorded[q] PROVE FALSE
    OBVIOUS
  <2>1. s \in Responder /\ target[s] = q /\ rpc[s] # "idle"
    BY DEF IInv, TypeOK, RecordInv
  <2>. QED  BY <2>1 DEF IInv, TargetInv, Shown, Waiting
<1>2. result[q] = "pending"
  BY DEF IInv, ResultInv
<1>3. Promise!Fail(q)
  BY <1>1, <1>2 DEF Promise!Fail, Promise!Pending, Promise!Failed, GiveUp
<1>. QED  BY <1>3 DEF Promise!Next

LEMMA AfterTimeoutFails ==
  ASSUME IInv, NEW q \in Request, AfterTimeout(q)
  PROVE  [Promise!Next]_<<recorded, result>>
<1>1. CASE q \notin tx
  BY <1>1 DEF AfterTimeout, responderVars
<1>2. CASE q \in tx
  <2>1. recorded[q] = {}
    <3>. SUFFICES ASSUME NEW s \in recorded[q] PROVE FALSE
      OBVIOUS
    <3>1. s \in Responder /\ rpc[s] = "submit" /\ target[s] = q
      BY <1>2 DEF IInv, TypeOK, RecordInv
    <3>2. guard[q] = s
      BY <3>1 DEF IInv, GuardInv
    <3>. QED  BY <3>1, <3>2, NoneAssumption DEF AfterTimeout
  <2>2. result[q] = "pending"
    BY DEF AfterTimeout, IInv, ResultInv, Waiting
  <2>3. Promise!Fail(q)
    BY <1>2, <2>1, <2>2
    DEF Promise!Fail, Promise!Pending, Promise!Failed, AfterTimeout,
        responderVars
  <2>. QED  BY <2>3 DEF Promise!Next
<1>. QED  BY <1>1, <1>2

LEMMA AbandonAbandons ==
  ASSUME IInv, NEW q \in Request, Abandon(q)
  PROVE  [Promise!Next]_<<recorded, result>>
<1>1. Promise!Abandon(q)
  BY DEF Promise!Abandon, Promise!Pending, Promise!Abandoned, Abandon,
         responderVars, IInv, ResultInv
<1>. QED  BY <1>1 DEF Promise!Next

LEMMA PromiseStep == IInv /\ [Next]_vars => [Promise!Next]_<<recorded, result>>
<1>. SUFFICES ASSUME IInv, [Next]_vars
              PROVE  [Promise!Next]_<<recorded, result>>
  OBVIOUS
<1>1. CASE UNCHANGED <<recorded, result>>
  BY <1>1
<1>2. ASSUME NEW q \in Request, AskLookup(q) \/ AskSend(q)
      PROVE  [Promise!Next]_<<recorded, result>>
  <2>1. CASE UNCHANGED result
    BY <1>2, <2>1 DEF AskLookup, AskSend, responderVars
  <2>2. CASE GiveUp(q)
    BY <1>2, <2>2, GiveUpFails DEF AskLookup, AskSend, responderVars
  <2>. QED  BY <1>2, <2>1, <2>2 DEF AskLookup, AskSend
<1>3. ASSUME NEW q \in Request, Receive(q) \/ AfterTimeout(q) \/ Abandon(q)
      PROVE  [Promise!Next]_<<recorded, result>>
  BY <1>3, ReceiveAnswers, AfterTimeoutFails, AbandonAbandons
<1>4. ASSUME NEW r \in Responder, AddMessage(r)
      PROVE  [Promise!Next]_<<recorded, result>>
  BY <1>4, AddMessageRecords
<1>5. Next => \/ \E q \in Request : \/ AskLookup(q) \/ AskSend(q)
                                   \/ Receive(q) \/ AfterTimeout(q)
                                   \/ Abandon(q)
              \/ \E r \in Responder : AddMessage(r)
              \/ UNCHANGED <<recorded, result>>
  BY DEF Next, Asker, Answerer, Dispatch, DropStream, Unregister, AskInsert,
         Expire, Return, Find, Claim, SubmitTake, SubmitSend, requestVars,
         responderVars
<1>. QED  BY <1>1, <1>2, <1>3, <1>4, <1>5 DEF vars

\* The manager keeps the promise of ElicitationPromise: one answer per
\* question, and the server is told what the conversation says
\* (action_required_manager.rs:59-177, elicitation.rs:33-52).
THEOREM KeepsPromise == Spec => PromiseKept
<1>1. UNCHANGED <<recorded, result>> => UNCHANGED Promise!vars
  BY DEF Promise!vars
<1>2. IInv /\ [Next]_vars => [Promise!Next]_(Promise!vars)
  BY PromiseStep DEF Promise!vars
<1>. QED
  BY PromiseInit, <1>2, Invariance, PTL DEF Spec, PromiseKept, Promise!Spec
-----------------------------------------------------------------------------
(* What is safe in "every question ends" and "every answer ends".  The mutex *)
(* of an entry is held by a responder that waits for nobody, and whoever     *)
(* waits without the timer waits for an answer that is on its way.           *)

\* A stream that was registered stays known; response_tx is gone before the
\* server has what it waits for only while its taker is about to send.
OnItsWay ==
    /\ \A c \in reg : stream[c] # "idle"
    /\ \A q \in Request :
          /\ qpc[q] = "send" => stream[CallOf[q]] # "idle"
          /\ qpc[q] \in {"lookup", "send"} => q \in tx
          /\ qpc[q] \in Waiting /\ q \notin tx =>
                \/ chan[q] # None
                \/ \E r \in Responder : rpc[r] = "send" /\ target[r] = q
          /\ qpc[q] = "drain" => q \notin tx

LEMMA OnItsWayStep == IInv /\ OnItsWay /\ [Next]_vars => OnItsWay'
<1>. SUFFICES ASSUME IInv, OnItsWay, [Next]_vars PROVE OnItsWay'
  OBVIOUS
<1>. USE SessionAssumption, NoneAssumption
     DEF IInv, TypeOK, OnItsWay, Waiting, streamVars, entryVars, requestVars,
         responderVars
<1>1. ASSUME NEW c \in Call, Dispatch(c) \/ DropStream(c) \/ Unregister(c)
      PROVE  OnItsWay'
  BY <1>1 DEF Dispatch, DropStream, Unregister
<1>2. ASSUME NEW q \in Request, AskInsert(q)
      PROVE  OnItsWay'
  BY <1>2 DEF AskInsert
<1>3. ASSUME NEW q \in Request, AskLookup(q) \/ AskSend(q)
      PROVE  OnItsWay'
  BY <1>3 DEF AskLookup, AskSend, GiveUp
<1>4. ASSUME NEW q \in Request,
             Receive(q) \/ Expire(q) \/ AfterTimeout(q) \/ Return(q) \/ Abandon(q)
      PROVE  OnItsWay'
  BY <1>4 DEF Receive, Expire, AfterTimeout, Return, Abandon
<1>5. ASSUME NEW r \in Responder, \E q \in Request : Find(r, q)
      PROVE  OnItsWay'
  BY <1>5 DEF Find, Shown
<1>6. ASSUME NEW r \in Responder, Claim(r)
      PROVE  OnItsWay'
  BY <1>6 DEF Claim, RxClosed, TargetInv, Shown
<1>7. ASSUME NEW r \in Responder, AddMessage(r)
      PROVE  OnItsWay'
  BY <1>7 DEF AddMessage
<1>8. ASSUME NEW r \in Responder, SubmitTake(r)
      PROVE  OnItsWay'
  BY <1>8 DEF SubmitTake, TargetInv, Shown
<1>9. ASSUME NEW r \in Responder, SubmitSend(r)
      PROVE  OnItsWay'
  BY <1>9 DEF SubmitSend, RxClosed, TargetInv, Shown
<1>10. CASE UNCHANGED vars
  BY <1>10 DEF vars
<1>. QED  BY <1>1, <1>2, <1>3, <1>4, <1>5, <1>6, <1>7, <1>8, <1>9, <1>10
          DEF Next, Asker, Answerer

LEMMA OnItsWayHolds == Spec => [](IInv /\ OnItsWay)
<1>1. Init => OnItsWay
  BY DEF Init, OnItsWay, Waiting
<1>. QED  BY <1>1, OnItsWayStep, Invariance, PTL DEF Spec

\* Whoever waits for the mutex of an entry waits for a claim whose holder can
\* go on, and a server past its timeout that no longer has its response_tx has
\* an answer in the channel or one about to be sent to it
\* (action_required_manager.rs, request_and_wait and claim_response).
WaitsAreServed ==
    /\ \A q \in Request : qpc[q] = "expired" =>
          guard[q] = None \/ rpc[guard[q]] \in {"claimed", "submit"}
    /\ \A r \in Responder : rpc[r] = "found" =>
          \/ guard[target[r]] = None
          \/ rpc[guard[target[r]]] \in {"claimed", "submit"}
    /\ \A q \in Request : qpc[q] = "drain" =>
          chan[q] # None \/ \E r \in Responder : rpc[r] = "send" /\ target[r] = q
    /\ \A q \in Request : qpc[q] = "send" => stream[CallOf[q]] # "idle"

\* Whoever waits in the manager waits for one that is at work
\* (action_required_manager.rs).
THEOREM NobodyStuck == Spec => []WaitsAreServed
<1>1. IInv /\ OnItsWay => WaitsAreServed
  BY DEF IInv, TypeOK, GuardInv, TargetInv, OnItsWay, Waiting, WaitsAreServed
<1>. QED  BY <1>1, OnItsWayHolds, PTL

\* The steps a question and an answer have left.
AskLeft == [idle |-> 7, lookup |-> 6, send |-> 5, wait |-> 4, expired |-> 3,
            drain |-> 2, return |-> 1, done |-> 0, gone |-> 0]
AnswerLeft == [idle |-> 5, found |-> 4, claimed |-> 3, submit |-> 2, send |-> 1,
               ok |-> 0, err |-> 0]

Onward == /\ \A q \in Request : qpc'[q] = qpc[q] \/ AskLeft[qpc'[q]] < AskLeft[qpc[q]]
          /\ \A r \in Responder : rpc'[r] = rpc[r] \/ AnswerLeft[rpc'[r]] < AnswerLeft[rpc[r]]

\* A question and an answer only go forward: no other responder, timeout or
\* dropped stream sends them back, so each ends after a few steps of its own.
OnlyOnward == [][Onward]_vars

\* No question and no answer is ever sent back a step
\* (action_required_manager.rs).
THEOREM GoOnward == Spec => OnlyOnward
<1>1. ASSUME IInv, [Next]_vars
      PROVE  Onward
  <2>. USE <1>1 DEF IInv, TypeOK, Waiting, AskLeft, AnswerLeft, Onward, requestVars,
                    responderVars
  <2>1. ASSUME NEW c \in Call, Dispatch(c) \/ DropStream(c) \/ Unregister(c)
        PROVE  Onward
    BY <2>1 DEF Dispatch, DropStream, Unregister
  <2>2. ASSUME NEW q \in Request, AskInsert(q) \/ Abandon(q)
        PROVE  Onward
    BY <2>2 DEF AskInsert, Abandon
  <2>3. ASSUME NEW q \in Request, Asker(q)
        PROVE  Onward
    BY <2>3 DEF Asker, AskLookup, AskSend, GiveUp, Receive, Expire, AfterTimeout, Return
  <2>4. ASSUME NEW r \in Responder, \E q \in Request : Find(r, q)
        PROVE  Onward
    BY <2>4 DEF Find
  <2>5. ASSUME NEW r \in Responder, Answerer(r)
        PROVE  Onward
    BY <2>5 DEF Answerer, Claim, AddMessage, SubmitTake, SubmitSend
  <2>6. CASE UNCHANGED vars
    BY <2>6 DEF vars
  <2>. QED  BY <2>1, <2>2, <2>3, <2>4, <2>5, <2>6 DEF Next
<1>2. IInv /\ [Next]_vars => [Onward]_vars
  BY <1>1
<1>. QED  BY <1>2, Invariance, PTL DEF Spec, OnlyOnward
=============================================================================
