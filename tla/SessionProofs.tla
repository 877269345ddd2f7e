---------------------------- MODULE SessionProofs ----------------------------
(***************************************************************************)
(* What holds between the requests of one session, for any number of them, *)
(* any interleaving of their loads and calls, and every policy.            *)
(***************************************************************************)
EXTENDS SessionInvariants, TLAPS

Results == {"none", "ok"} \cup SessionErrors

Stages ==
    {"arriving", "loading", "open", "claimed", "refused", "ended", "dropped"}

Typed ==
    /\ record \in [writes : Seq([by : Requests, at : {"load", "commit"}]),
                   deleted : BOOLEAN]
    /\ seen \in [Requests -> Nat] /\ session \in [Requests -> Nat]
    /\ before \in [Requests -> SUBSET Requests]
    /\ stage \in [Requests -> Stages]
    /\ made \in [Requests -> [op : {"none", "persist", "revoke"},
                              session : Nat, result : Results]]
    /\ pending \in [Requests -> BOOLEAN] /\ asked \in [Requests -> BOOLEAN]
    /\ effect \in [Requests -> Results]

\* What a request has done when it is at a stage.
Staged(r) ==
    /\ stage[r] \in {"arriving", "loading"} =>
         session[r] = NoSession /\ ~asked[r]
    /\ stage[r] = "refused" => ~asked[r]
    /\ stage[r] \in {"arriving", "loading", "open"} => made[r] = Nothing
    /\ stage[r] = "arriving" => before[r] = {}
    /\ stage[r] = "ended" => ~Outstanding(r)

\* A call is made once and answered once, and its outcome is its own.
Called(r) ==
    /\ made[r].op = "none" => made[r].result = "none"
    /\ effect[r] # "none" => Outstanding(r)
    /\ made[r].op # "none" =>
         /\ made[r].op = IF asked[r] THEN "revoke" ELSE "persist"
         /\ made[r].session = session[r] /\ session[r] # NoSession
         /\ asked[r] \/ pending[r]

Outcomes(r) == {effect[r], made[r].result}

\* Versions are counted up, and a call's outcome tells of the record.
Recorded(r) ==
    /\ seen[r] <= Version /\ session[r] <= Version
    /\ made[r].op = "revoke" /\ "ok" \in Outcomes(r) => record.deleted
    /\ "Conflict" \in Outcomes(r) => session[r] <= Len(record.writes)
    /\ \A i \in DOMAIN record.writes :
         record.writes[i] = [by |-> r, at |-> "commit"] =>
           Outcomes(r) \cap {"ok", "Unavailable"} # {}

\* Nothing is loaded any more after a sign-out that was over before.
Denied(r) ==
    \A q \in before[r] :
      /\ stage[q] = "ended"
      /\ asked[q] /\ made[q].result = "ok" => seen[r] = 0 /\ session[r] = NoSession

IInv ==
    /\ Typed
    /\ \A r \in Requests : Staged(r) /\ Called(r) /\ Recorded(r) /\ Denied(r)

-----------------------------------------------------------------------------
\* A write adds a version, by the request that makes it.
LEMMA WriteAdds ==
    ASSUME Typed, NEW r \in Requests, NEW at \in {"load", "commit"},
           record' = Written(r, at)
    PROVE  /\ record' \in [writes : Seq([by : Requests, at : {"load", "commit"}]),
                           deleted : BOOLEAN]
           /\ record'.deleted = record.deleted
           /\ Len(record'.writes) = Len(record.writes) + 1
           /\ Len(record.writes) \in Nat
           /\ \A i \in DOMAIN record'.writes :
                \/ i \in DOMAIN record.writes /\ record'.writes[i] = record.writes[i]
                \/ record'.writes[i] = [by |-> r, at |-> at]
<1>1. record.writes \in Seq([by : Requests, at : {"load", "commit"}])
  BY DEF Typed
<1>2. [by |-> r, at |-> at] \in [by : Requests, at : {"load", "commit"}]
  OBVIOUS
<1>3. Append(record.writes, [by |-> r, at |-> at])
        \in Seq([by : Requests, at : {"load", "commit"}])
  BY <1>1, <1>2
<1>4. record' = [record EXCEPT !.writes =
                   Append(record.writes, [by |-> r, at |-> at])]
  BY DEF Written
<1>5. /\ record'.writes = Append(record.writes, [by |-> r, at |-> at])
      /\ record'.deleted = record.deleted
  BY <1>4 DEF Typed
<1>6. record' \in [writes : Seq([by : Requests, at : {"load", "commit"}]),
                  deleted : BOOLEAN]
  BY <1>3, <1>4 DEF Typed
<1> QED BY <1>1, <1>2, <1>5, <1>6

LEMMA ReadStep ==
    ASSUME IInv, NEW r \in Requests, ReadRecord(r)
    PROVE  IInv'
<1>1. Version \in Nat /\ Len(record.writes) \in Nat
  BY DEF IInv, Typed, Version
<1>2. Typed'
  BY <1>1 DEF IInv, Typed, ReadRecord, Stages
<1>3. ASSUME NEW q \in Requests PROVE Staged(q)' /\ Called(q)' /\ Recorded(q)'
  BY <1>1, <1>3 DEF IInv, Typed, ReadRecord, Staged, Called, Recorded, Version,
     Outcomes, Outstanding
<1>4. ASSUME NEW q \in Requests PROVE Denied(q)'
  <2>1. CASE q = r
    <3>1. /\ before'[r] = {p \in Requests : stage[p] = "ended"}
          /\ seen'[r] = IF record.deleted THEN 0 ELSE Version
          /\ session'[r] = NoSession /\ UNCHANGED <<made, asked>>
          /\ \A p \in Requests : stage[p] = "ended" => stage'[p] = "ended"
      BY DEF IInv, Typed, ReadRecord, Staged
    <3>2. ASSUME NEW p \in before'[r], asked[p], made[p].result = "ok"
          PROVE  record.deleted
      BY <3>1, <3>2 DEF IInv, Called, Recorded, Outcomes
    <3> QED BY <2>1, <3>1, <3>2 DEF Denied
  <2>2. CASE q # r
    BY <2>2 DEF IInv, Typed, ReadRecord, Denied
  <2> QED BY <2>1, <2>2
<1> QED BY <1>2, <1>3, <1>4 DEF IInv

\* The answers of a load, whether the record was written meanwhile or not.
LEMMA LoadStep ==
    ASSUME IInv, NEW r \in Requests, NEW s \in Nat, NEW refreshed \in BOOLEAN,
           Admit(r, s, refreshed), seen' = [seen EXCEPT ![r] = 0],
           seen[r] = 0 => s = NoSession, refreshed => s # NoSession,
           \/ UNCHANGED record /\ s <= Version
           \/ record' = Written(r, "load") /\ s <= Version + 1
    PROVE  IInv'
<1>1. /\ Version \in Nat /\ Version' \in Nat /\ Version <= Version'
      /\ Len(record.writes) \in Nat /\ Len(record'.writes) \in Nat
      /\ s <= Version' /\ record'.deleted = record.deleted
      /\ Version = Len(record.writes) + 1 /\ Version' = Len(record'.writes) + 1
      /\ record' \in [writes : Seq([by : Requests, at : {"load", "commit"}]),
                      deleted : BOOLEAN]
      /\ \A i \in DOMAIN record'.writes :
           \/ i \in DOMAIN record.writes /\ record'.writes[i] = record.writes[i]
           \/ record'.writes[i].at = "load"
  <2>1. Typed /\ Len(record.writes) \in Nat
    BY DEF IInv, Typed
  <2>2. CASE UNCHANGED record /\ s <= Version
    BY <2>1, <2>2 DEF Typed, Version
  <2>3. CASE record' = Written(r, "load") /\ s <= Version + 1
    <3>1. /\ record' \in [writes : Seq([by : Requests, at : {"load", "commit"}]),
                          deleted : BOOLEAN]
          /\ record'.deleted = record.deleted
          /\ Len(record'.writes) = Len(record.writes) + 1
          /\ \A i \in DOMAIN record'.writes :
               \/ i \in DOMAIN record.writes /\ record'.writes[i] = record.writes[i]
               \/ record'.writes[i] = [by |-> r, at |-> "load"]
      BY <2>1, <2>3, WriteAdds
    <3> QED BY <2>1, <2>3, <3>1 DEF Version
  <2> QED BY <2>2, <2>3
<1> DEFINE call == IF refreshed THEN CallOf("persist", s) ELSE NoCall
<1>2. /\ Typed /\ stage[r] = "loading" /\ ~asked[r]
      /\ made[r] = Nothing /\ effect[r] = "none"
      /\ session' = [session EXCEPT ![r] = s]
      /\ pending' = [pending EXCEPT ![r] = refreshed]
      /\ \/ stage' = [stage EXCEPT ![r] = "open"] /\ UNCHANGED made
         \/ /\ stage' = [stage EXCEPT ![r] = "refused"]
            /\ made' = [made EXCEPT ![r] = Made(call, "none")]
      /\ UNCHANGED <<before, response, asked, effect>>
      /\ seen' = [seen EXCEPT ![r] = 0]
  <2>1. Typed /\ stage[r] = "loading" /\ ~asked[r] /\ made[r] = Nothing
    BY DEF IInv, Admit, Staged
  <2>2. effect[r] = "none"
    BY <2>1 DEF IInv, Called, Outstanding, Nothing, Made, NoCall, CallOf
  <2>3. CallMade(FALSE, refreshed, s) = call
    BY DEF CallMade, NoCall, CallOf
  <2> QED BY <2>1, <2>2, <2>3 DEF Admit
<1>3. /\ call.op = (IF refreshed THEN "persist" ELSE "none")
      /\ refreshed => call.session = s
      /\ Made(call, "none") = [op |-> call.op, session |-> call.session,
                              result |-> "none"]
      /\ call.op \in {"none", "persist"} /\ call.session \in Nat
      /\ ~refreshed => Made(call, "none") = Nothing
  BY DEF CallOf, NoCall, Made, Nothing, NoSession
<1> HIDE DEF call
<1>4. Typed'
  <2>1. Made(call, "none") \in [op : {"none", "persist", "revoke"},
                               session : Nat, result : Results]
    BY <1>3 DEF Results
  <2>2. made' \in [Requests -> [op : {"none", "persist", "revoke"},
                               session : Nat, result : Results]]
    <3>1. made \in [Requests -> [op : {"none", "persist", "revoke"},
                                session : Nat, result : Results]]
      BY <1>2 DEF Typed
    <3>2. UNCHANGED made \/ made' = [made EXCEPT ![r] = Made(call, "none")]
      BY <1>2
    <3> QED BY <2>1, <3>1, <3>2
  <2>3. stage' \in [Requests -> Stages]
    <3>1. stage \in [Requests -> Stages]
      BY <1>2 DEF Typed
    <3>2. \/ stage' = [stage EXCEPT ![r] = "open"]
          \/ stage' = [stage EXCEPT ![r] = "refused"]
      BY <1>2
    <3> QED BY <3>1, <3>2 DEF Stages
  <2>4. /\ session' \in [Requests -> Nat] /\ seen' \in [Requests -> Nat]
        /\ pending' \in [Requests -> BOOLEAN]
    BY <1>2 DEF Typed
  <2> QED BY <1>1, <1>2, <2>2, <2>3, <2>4 DEF Typed
\* Of the others nothing changes but the record, of this one it is known.
<1>5. ASSUME NEW q \in Requests, q # r
      PROVE  /\ stage'[q] = stage[q] /\ made'[q] = made[q] /\ seen'[q] = seen[q]
             /\ session'[q] = session[q] /\ pending'[q] = pending[q]
  BY <1>2, <1>5 DEF Typed
<1>6. /\ made'[r] \in {Nothing, Made(call, "none")}
      /\ stage'[r] \in {"open", "refused"} /\ session'[r] = s /\ seen'[r] = 0
      /\ stage'[r] = "open" => made'[r] = Nothing
      /\ pending'[r] = refreshed
  BY <1>2 DEF Typed
<1>7. ASSUME NEW q \in Requests PROVE Staged(q)' /\ Called(q)'
  <2>1. CASE q # r
    BY <1>2, <1>5, <2>1 DEF IInv, Staged, Called, Outstanding
  <2>2. CASE q = r
    BY <1>2, <1>3, <1>6, <2>2 DEF Staged, Called, Outstanding, Nothing, Made,
       NoCall, CallOf
  <2> QED BY <2>1, <2>2
<1>8. ASSUME NEW q \in Requests PROVE Recorded(q)'
  <2>1. CASE q # r
    <3>1. Recorded(q) /\ seen[q] \in Nat /\ session[q] \in Nat
      BY DEF IInv, Typed
    <3> QED BY <1>1, <1>2, <1>5, <2>1, <3>1 DEF Recorded, Outcomes
  <2>2. CASE q = r
    <3>1. Recorded(r) /\ Outcomes(r) = {"none"} /\ Outcomes(r)' = {"none"}
      BY <1>2, <1>3, <1>6 DEF IInv, Outcomes, Nothing, Made
    <3>2. ASSUME NEW i \in DOMAIN record'.writes
          PROVE  record'.writes[i] # [by |-> r, at |-> "commit"]
      <4>1. \/ record'.writes[i].at = "load"
            \/ i \in DOMAIN record.writes /\ record'.writes[i] = record.writes[i]
        BY <1>1
      <4>2. \A j \in DOMAIN record.writes :
              record.writes[j] # [by |-> r, at |-> "commit"]
        BY <3>1 DEF Recorded
      <4> QED BY <4>1, <4>2
    <3>3. seen'[r] <= Version' /\ session'[r] <= Version'
      BY <1>1, <1>6
    <3>4. "ok" \notin Outcomes(r)' /\ "Conflict" \notin Outcomes(r)'
      BY <3>1
    <3> QED BY <2>2, <3>2, <3>3, <3>4 DEF Recorded
  <2> QED BY <2>1, <2>2
<1>9. ASSUME NEW q \in Requests PROVE Denied(q)'
  <2>1. Denied(q) /\ before[q] \subseteq Requests
    BY DEF IInv, Typed
  <2>2. ASSUME NEW p \in before[q]
        PROVE  stage'[p] = "ended" /\ made'[p] = made[p]
    BY <1>2, <1>5, <2>1, <2>2 DEF Denied
  <2> QED BY <1>2, <1>5, <1>6, <2>1, <2>2 DEF Denied
<1> QED BY <1>4, <1>7, <1>8, <1>9 DEF IInv

\* A request that keeps its session disturbs no other, if the record grows by
\* its own writes alone and it does not act any more when it has ended.
LEMMA LocalStep ==
    ASSUME IInv, NEW r \in Requests, Typed', UNCHANGED before,
           \A q \in Requests \ {r} :
             /\ stage'[q] = stage[q] /\ seen'[q] = seen[q] /\ made'[q] = made[q]
             /\ session'[q] = session[q] /\ asked'[q] = asked[q]
             /\ effect'[q] = effect[q] /\ pending'[q] = pending[q],
           stage[r] = "ended" =>
             stage'[r] = "ended" /\ made'[r] = made[r] /\ asked'[r] = asked[r],
           seen'[r] \in {seen[r], 0}, session'[r] = session[r],
           Len(record.writes) <= Len(record'.writes),
           record.deleted => record'.deleted,
           \A i \in DOMAIN record'.writes :
             \/ i \in DOMAIN record.writes /\ record'.writes[i] = record.writes[i]
             \/ record'.writes[i] = [by |-> r, at |-> "commit"],
           Staged(r)', Called(r)', Recorded(r)'
    PROVE  IInv'
<1>1. Len(record.writes) \in Nat /\ Len(record'.writes) \in Nat
  BY DEF IInv, Typed
<1>2. ASSUME NEW q \in Requests \ {r}
      PROVE  Staged(q)' /\ Called(q)' /\ Recorded(q)'
  <2>1. /\ Staged(q) /\ Called(q) /\ Recorded(q) /\ seen[q] \in Nat
        /\ session[q] \in Nat
    BY DEF IInv, Typed
  <2>2. Staged(q)' /\ Called(q)'
    BY <2>1 DEF Staged, Called, Outstanding
  <2>3. ASSUME NEW i \in DOMAIN record'.writes,
               record'.writes[i] = [by |-> q, at |-> "commit"]
        PROVE  i \in DOMAIN record.writes /\ record.writes[i] = record'.writes[i]
    <3>1. record'.writes[i].by = q
      BY <2>3
    <3>2. record'.writes[i] # [by |-> r, at |-> "commit"]
      BY <3>1
    <3> QED BY <3>2
  <2>4. Recorded(q)'
    BY <1>1, <2>1, <2>3 DEF Recorded, Outcomes, Version
  <2> QED BY <2>2, <2>4
<1>3. ASSUME NEW q \in Requests PROVE Denied(q)'
  <2>1. Denied(q) /\ before[q] \subseteq Requests
    BY DEF IInv, Typed
  <2>2. ASSUME NEW p \in before[q]
        PROVE  stage'[p] = "ended" /\ made'[p] = made[p] /\ asked'[p] = asked[p]
    BY <2>1, <2>2 DEF Denied
  <2>3. seen'[q] \in {seen[q], 0} /\ session'[q] = session[q]
    OBVIOUS
  <2> QED BY <2>1, <2>2, <2>3 DEF Denied
<1> QED BY <1>2, <1>3 DEF IInv

\* The steps that leave the record alone and claim nothing.
LEMMA QuietStep ==
    ASSUME IInv, NEW r \in Requests,
           \/ LoadFails(r) \/ RequestTermination(r) \/ Drop(r)
           \/ Logging(r) /\ ~Claim(r)
    PROVE  IInv'
<1>1. Typed /\ Staged(r) /\ Called(r) /\ Recorded(r)
  BY DEF IInv
<1>2. /\ UNCHANGED <<record, before, session, made, effect, pending>>
      /\ stage[r] # "ended"
      /\ \/ /\ stage' = [stage EXCEPT ![r] = "refused"] /\ stage[r] = "loading"
            /\ seen' = [seen EXCEPT ![r] = 0] /\ UNCHANGED asked
         \/ /\ asked' = [asked EXCEPT ![r] = TRUE] /\ stage[r] = "open"
            /\ UNCHANGED <<stage, seen>>
         \/ /\ stage' = [stage EXCEPT ![r] = "dropped"] /\ UNCHANGED <<seen, asked>>
         \/ /\ stage' = [stage EXCEPT ![r] = "ended"] /\ ~Outstanding(r)
            /\ stage[r] \in {"claimed", "refused"} /\ UNCHANGED <<seen, asked>>
  BY DEF LoadFails, RequestTermination, Drop, Logging
<1>3. Typed'
  <2>1. stage' \in [Requests -> Stages]
    <3>1. stage \in [Requests -> Stages]
      BY <1>1 DEF Typed
    <3>2. UNCHANGED stage
          \/ \E at \in {"refused", "dropped", "ended"} :
               stage' = [stage EXCEPT ![r] = at]
      BY <1>2
    <3> QED BY <3>1, <3>2 DEF Stages
  <2>2. seen' \in [Requests -> Nat]
    <3>1. seen \in [Requests -> Nat]
      BY <1>1 DEF Typed
    <3>2. UNCHANGED seen \/ seen' = [seen EXCEPT ![r] = 0]
      BY <1>2
    <3> QED BY <3>1, <3>2
  <2>3. asked' \in [Requests -> BOOLEAN]
    <3>1. asked \in [Requests -> BOOLEAN]
      BY <1>1 DEF Typed
    <3>2. CASE UNCHANGED asked
      BY <3>1, <3>2
    <3>3. CASE asked' = [asked EXCEPT ![r] = TRUE]
      BY <3>1, <3>3
    <3> QED BY <1>2, <3>2, <3>3
  <2> QED BY <1>1, <1>2, <2>1, <2>2, <2>3 DEF Typed
<1>4. \A q \in Requests \ {r} :
        /\ stage'[q] = stage[q] /\ seen'[q] = seen[q] /\ asked'[q] = asked[q]
  BY <1>1, <1>2 DEF Typed
<1>5. seen'[r] \in {seen[r], 0} /\ Len(record.writes) \in Nat
  BY <1>1, <1>2 DEF Typed
<1>6. Staged(r)' /\ Called(r)' /\ Recorded(r)'
  <2>1. \/ stage'[r] = "refused" /\ asked'[r] = asked[r] /\ stage[r] = "loading"
        \/ stage'[r] = "open" /\ asked'[r] /\ stage[r] = "open"
        \/ stage'[r] = "dropped" /\ asked'[r] = asked[r]
        \/ /\ stage'[r] = "ended" /\ asked'[r] = asked[r] /\ ~Outstanding(r)
    BY <1>1, <1>2 DEF Typed
  <2>2. Staged(r)' /\ Called(r)'
    BY <1>1, <1>2, <2>1 DEF Staged, Called, Outstanding, Nothing, Made, NoCall,
       CallOf
  <2>3. Recorded(r)'
    BY <1>1, <1>2, <1>5 DEF Recorded, Outcomes, Version
  <2> QED BY <2>2, <2>3
<1>7. /\ UNCHANGED before /\ session'[r] = session[r]
      /\ \A q \in Requests \ {r} :
           /\ made'[q] = made[q] /\ session'[q] = session[q]
           /\ effect'[q] = effect[q] /\ pending'[q] = pending[q]
      /\ Len(record.writes) <= Len(record'.writes)
      /\ record.deleted => record'.deleted
      /\ \A i \in DOMAIN record'.writes :
           i \in DOMAIN record.writes /\ record'.writes[i] = record.writes[i]
  BY <1>2, <1>5
<1> QED BY <1>2, <1>3, <1>4, <1>5, <1>6, <1>7, LocalStep

LEMMA ClaimStep ==
    ASSUME IInv, NEW r \in Requests, Claim(r)
    PROVE  IInv'
<1>1. /\ Typed /\ Staged(r) /\ Called(r) /\ Recorded(r)
      /\ stage[r] = "open" /\ made[r] = Nothing /\ effect[r] = "none"
      /\ stage' = [stage EXCEPT ![r] = "claimed"]
      /\ made' = [made EXCEPT ![r] = Made(Owes(r), "none")]
      /\ UNCHANGED <<record, seen, before, session, asked, pending, effect>>
  BY DEF IInv, Claim, Staged, Called, Outstanding, Nothing, Made, NoCall, CallOf
<1>2. /\ Owes(r).op \in {"none", "persist", "revoke"} /\ Owes(r).session \in Nat
      /\ Owes(r).op # "none" =>
           /\ Owes(r).op = IF asked[r] THEN "revoke" ELSE "persist"
           /\ Owes(r).session = session[r] /\ session[r] # NoSession
           /\ asked[r] \/ pending[r]
  <2>1. session[r] \in Nat /\ asked[r] \in BOOLEAN /\ pending[r] \in BOOLEAN
    BY <1>1 DEF Typed
  <2>2. CASE session[r] # NoSession /\ asked[r]
    BY <2>1, <2>2 DEF Owes, CallMade, CallOf
  <2>3. CASE session[r] # NoSession /\ ~asked[r] /\ pending[r]
    BY <2>1, <2>3 DEF Owes, CallMade, CallOf
  <2>4. CASE session[r] = NoSession \/ (~asked[r] /\ ~pending[r])
    <3>1. Owes(r) = NoCall
      BY <2>1, <2>4 DEF Owes, CallMade
    <3> QED BY <3>1 DEF NoCall, CallOf, NoSession
  <2> QED BY <2>1, <2>2, <2>3, <2>4
<1>3. made'[r] = [op |-> Owes(r).op, session |-> Owes(r).session,
                  result |-> "none"]
  BY <1>1 DEF Made, Typed
<1>4. Typed'
  BY <1>1, <1>2 DEF Typed, Stages, Made, Results
<1>5. \A q \in Requests \ {r} : stage'[q] = stage[q] /\ made'[q] = made[q]
  BY <1>1 DEF Typed
<1>6. stage'[r] = "claimed"
  BY <1>1 DEF Typed
<1>7. Staged(r)' /\ Called(r)'
  BY <1>1, <1>2, <1>3, <1>6 DEF Staged, Called, Outstanding
<1>8. Recorded(r)' /\ Len(record.writes) \in Nat
  <2>1. Outcomes(r) = {"none"} /\ Outcomes(r)' = {"none"}
    BY <1>1, <1>3 DEF Outcomes, Nothing, Made
  <2> QED BY <1>1, <2>1 DEF Recorded, Version, Typed
<1>9. /\ UNCHANGED before /\ session'[r] = session[r] /\ seen'[r] = seen[r]
      /\ \A q \in Requests \ {r} :
           /\ seen'[q] = seen[q] /\ session'[q] = session[q]
           /\ asked'[q] = asked[q] /\ effect'[q] = effect[q]
           /\ pending'[q] = pending[q]
      /\ Len(record.writes) <= Len(record'.writes)
      /\ record.deleted => record'.deleted
      /\ \A i \in DOMAIN record'.writes :
           i \in DOMAIN record.writes /\ record'.writes[i] = record.writes[i]
      /\ stage[r] # "ended"
  BY <1>1, <1>8
<1> QED BY <1>4, <1>5, <1>7, <1>8, <1>9, LocalStep

LEMMA ReturnStep ==
    ASSUME IInv, NEW r \in Requests, Return(r)
    PROVE  IInv'
<1>1. /\ Typed /\ Staged(r) /\ Called(r) /\ Recorded(r)
      /\ stage[r] \in {"claimed", "refused"} /\ made[r].op # "none"
      /\ made[r].result = "none" /\ effect[r] # "none"
      /\ made' = [made EXCEPT ![r].result = effect[r]]
      /\ effect' = [effect EXCEPT ![r] = "none"]
      /\ UNCHANGED <<record, seen, before, stage, session, asked, pending>>
  BY DEF IInv, Return, Outstanding
<1>2. made' = [made EXCEPT ![r] = [made[r] EXCEPT !.result = effect[r]]]
  BY <1>1 DEF Typed
<1>3. /\ made'[r].op = made[r].op /\ made'[r].session = made[r].session
      /\ made'[r].result = effect[r] /\ effect'[r] = "none"
  BY <1>1, <1>2 DEF Typed
<1>4. Typed'
  <2>1. [made[r] EXCEPT !.result = effect[r]]
          \in [op : {"none", "persist", "revoke"}, session : Nat,
               result : Results]
    BY <1>1 DEF Typed
  <2>2. effect' \in [Requests -> Results]
    BY <1>1 DEF Typed, Results
  <2> QED BY <1>1, <1>2, <2>1, <2>2 DEF Typed
<1>5. \A q \in Requests \ {r} : effect'[q] = effect[q] /\ made'[q] = made[q]
  BY <1>1, <1>2 DEF Typed
<1>6. Staged(r)' /\ Called(r)'
  BY <1>1, <1>3 DEF Staged, Called, Outstanding
<1>7. Recorded(r)' /\ Len(record.writes) \in Nat
  <2>1. Outcomes(r)' = Outcomes(r)
    BY <1>1, <1>3 DEF Outcomes
  <2> QED BY <1>1, <1>3, <2>1 DEF Recorded, Version, Typed
<1>8. /\ UNCHANGED before /\ session'[r] = session[r] /\ seen'[r] = seen[r]
      /\ \A q \in Requests \ {r} :
           /\ seen'[q] = seen[q] /\ session'[q] = session[q]
           /\ asked'[q] = asked[q] /\ stage'[q] = stage[q]
           /\ pending'[q] = pending[q]
      /\ Len(record.writes) <= Len(record'.writes)
      /\ record.deleted => record'.deleted
      /\ \A i \in DOMAIN record'.writes :
           i \in DOMAIN record.writes /\ record'.writes[i] = record.writes[i]
      /\ stage[r] # "ended"
  BY <1>1, <1>7
<1> QED BY <1>4, <1>5, <1>6, <1>7, <1>8, LocalStep

\* The store acts on the one call that is out; it answers a conflict only to a
\* version that is no longer the last.
LEMMA ExecuteStep ==
    ASSUME IInv, NEW r \in Requests, Execute(r)
    PROVE  IInv'
<1>1. /\ Typed /\ Staged(r) /\ Called(r) /\ Recorded(r)
      /\ made[r].op # "none" /\ made[r].result = "none" /\ effect[r] = "none"
      /\ made[r].session = session[r] /\ session[r] # NoSession
      /\ UNCHANGED <<seen, before, stage, session, made, asked, pending>>
  BY DEF IInv, Execute, Outstanding, Called
<1>2. Len(record.writes) \in Nat /\ session[r] \in Nat /\ seen[r] \in Nat
      /\ effect[r] \in Results
  BY <1>1 DEF Typed
<1>3. stage[r] # "ended" /\ Outcomes(r) = {"none"}
  BY <1>1 DEF Staged, Outstanding, Outcomes
<1>4. PICK outcome \in {"ok", "Unavailable", "Gone", "Conflict"} :
        /\ effect' = [effect EXCEPT ![r] = outcome]
        /\ \/ /\ UNCHANGED record
              /\ outcome \in {"Unavailable", "Gone"}
           \/ /\ UNCHANGED record /\ outcome = "Conflict"
              /\ session[r] # Version
           \/ /\ made[r].op = "revoke" /\ outcome \in {"ok", "Unavailable"}
              /\ record' = [record EXCEPT !.deleted = TRUE]
           \/ /\ made[r].op = "persist" /\ outcome \in {"ok", "Unavailable"}
              /\ record' = Written(r, "commit")
  BY <1>1 DEF Execute
<1>5. effect'[r] = outcome /\ Outcomes(r)' = {outcome, "none"}
      /\ \A q \in Requests \ {r} : effect'[q] = effect[q]
  BY <1>1, <1>4 DEF Typed, Outcomes
<1>6. /\ record' \in [writes : Seq([by : Requests, at : {"load", "commit"}]),
                      deleted : BOOLEAN]
      /\ Len(record'.writes) \in Nat /\ Len(record.writes) <= Len(record'.writes)
      /\ record.deleted => record'.deleted
      /\ \A i \in DOMAIN record'.writes :
           \/ i \in DOMAIN record.writes /\ record'.writes[i] = record.writes[i]
           \/ /\ record'.writes[i] = [by |-> r, at |-> "commit"]
              /\ outcome \in {"ok", "Unavailable"}
      /\ made[r].op = "revoke" /\ outcome = "ok" => record'.deleted
  <2>1. CASE UNCHANGED record /\ outcome # "ok"
    BY <1>1, <1>2, <2>1 DEF Typed
  <2>2. CASE /\ record' = [record EXCEPT !.deleted = TRUE]
    <3>1. record \in [writes : Seq([by : Requests, at : {"load", "commit"}]),
                     deleted : BOOLEAN]
      BY <1>1 DEF Typed
    <3>2. record'.writes = record.writes /\ record'.deleted
      BY <2>2, <3>1
    <3>3. record' \in [writes : Seq([by : Requests, at : {"load", "commit"}]),
                      deleted : BOOLEAN]
      BY <2>2, <3>1
    <3> QED BY <1>2, <3>2, <3>3
  <2>3. CASE /\ record' = Written(r, "commit") /\ made[r].op = "persist"
             /\ outcome \in {"ok", "Unavailable"}
    <3>1. /\ record' \in [writes : Seq([by : Requests, at : {"load", "commit"}]),
                          deleted : BOOLEAN]
          /\ record'.deleted = record.deleted
          /\ Len(record'.writes) = Len(record.writes) + 1
          /\ \A i \in DOMAIN record'.writes :
               \/ i \in DOMAIN record.writes /\ record'.writes[i] = record.writes[i]
               \/ record'.writes[i] = [by |-> r, at |-> "commit"]
      BY <1>1, <2>3, WriteAdds
    <3> QED BY <1>2, <2>3, <3>1
  <2> QED BY <1>4, <2>1, <2>2, <2>3
<1>7. Typed'
  BY <1>1, <1>4, <1>6 DEF Typed, Results, SessionErrors
<1>8. Staged(r)' /\ Called(r)'
  BY <1>1, <1>5 DEF Staged, Called, Outstanding
<1>9. Recorded(r)'
  <2>1. seen'[r] <= Version' /\ session'[r] <= Version'
    BY <1>1, <1>2, <1>6 DEF Recorded, Version
  <2>2. "Conflict" \in Outcomes(r)' => session'[r] <= Len(record'.writes)
    <3>1. outcome = "Conflict" => session[r] # Version
      BY <1>4
    <3> QED BY <1>1, <1>2, <1>5, <1>6, <3>1 DEF Recorded, Version
  <2>3. made'[r].op = "revoke" /\ "ok" \in Outcomes(r)' => record'.deleted
    BY <1>1, <1>5, <1>6
  <2>4. ASSUME NEW i \in DOMAIN record'.writes,
               record'.writes[i] = [by |-> r, at |-> "commit"]
        PROVE  Outcomes(r)' \cap {"ok", "Unavailable"} # {}
    BY <1>1, <1>3, <1>5, <1>6, <2>4 DEF Recorded
  <2> QED BY <2>1, <2>2, <2>3, <2>4 DEF Recorded
<1>10. /\ UNCHANGED before /\ session'[r] = session[r] /\ seen'[r] = seen[r]
       /\ \A q \in Requests \ {r} :
            /\ seen'[q] = seen[q] /\ session'[q] = session[q]
            /\ asked'[q] = asked[q] /\ stage'[q] = stage[q]
            /\ made'[q] = made[q] /\ pending'[q] = pending[q]
       /\ stage[r] # "ended"
  BY <1>1, <1>3
<1> QED BY <1>5, <1>6, <1>7, <1>8, <1>9, <1>10, LocalStep

LEMMA LoadsKeep ==
    ASSUME IInv, NEW r \in Requests,
           LoadActive(r) \/ LoadPending(r) \/ LoadSaved(r) \/ LoadNothing(r)
    PROVE  IInv'
<1>1. /\ seen[r] \in Nat /\ seen[r] <= Version /\ Version \in Nat
      /\ Version \in Nat \ {0} /\ NoSession = 0
  BY DEF IInv, Typed, Recorded, Version, NoSession
<1>2. CASE LoadActive(r)
  BY <1>1, <1>2, LoadStep DEF LoadActive
<1>3. CASE LoadPending(r)
  <2>1. /\ Admit(r, seen[r], TRUE) /\ seen' = [seen EXCEPT ![r] = 0]
        /\ seen[r] # NoSession
        /\ UNCHANGED record \/ record' = Written(r, "load")
    BY <1>1, <1>3, Zenon DEF LoadPending
  <2>2. seen[r] <= Version + 1
    BY <1>1
  <2> QED BY <1>1, <2>1, <2>2, LoadStep
<1>4. CASE LoadSaved(r)
  <2>1. /\ Admit(r, Version + 1, FALSE) /\ seen' = [seen EXCEPT ![r] = 0]
        /\ seen[r] # 0 /\ record' = Written(r, "load")
    BY <1>4, Zenon DEF LoadSaved
  <2>2. Version + 1 \in Nat /\ Version + 1 <= Version + 1
    BY <1>1
  <2> QED BY <2>1, <2>2, LoadStep
<1>5. CASE LoadNothing(r)
  <2>1. /\ Admit(r, NoSession, FALSE) /\ seen' = [seen EXCEPT ![r] = 0]
        /\ UNCHANGED record
    BY <1>5, Zenon DEF LoadNothing
  <2>2. NoSession \in Nat /\ NoSession <= Version
    BY <1>1
  <2> QED BY <2>1, <2>2, LoadStep
<1> QED BY <1>2, <1>3, <1>4, <1>5

\* A response changes nothing that the invariant reads.
LEMMA IdleStep ==
    ASSUME IInv, UNCHANGED <<record, seen, before, stage, session, made,
                             pending, asked, effect>>
    PROVE  IInv'
  BY DEF IInv, Typed, Staged, Called, Recorded, Denied, Outcomes, Outstanding,
     Version

LEMMA Step == IInv /\ [Next]_vars => IInv'
<1> SUFFICES ASSUME IInv, [Next]_vars PROVE IInv'
  OBVIOUS
<1>1. CASE UNCHANGED vars
  BY <1>1, IdleStep DEF vars
<1>2. ASSUME NEW r \in Requests,
             \/ ReadRecord(r) \/ LoadActive(r) \/ LoadPending(r) \/ LoadSaved(r)
             \/ LoadNothing(r) \/ LoadFails(r) \/ RequestTermination(r)
             \/ Execute(r) \/ Return(r)
             \/ RespondApplication(r) \/ RespondRefusal(r) \/ RespondBare(r)
             \/ Logging(r) \/ Drop(r)
      PROVE  IInv'
  <2>1. CASE RespondApplication(r) \/ RespondRefusal(r) \/ RespondBare(r)
    BY <2>1, IdleStep DEF RespondApplication, RespondRefusal, RespondBare,
       Responds
  <2> QED
    BY <1>2, <2>1, ReadStep, LoadsKeep, QuietStep, ClaimStep, ReturnStep,
       ExecuteStep
<1> QED BY <1>1, <1>2 DEF Next

LEMMA Start == Init => IInv
<1> SUFFICES ASSUME Init PROVE IInv
  OBVIOUS
<1>1. Typed
  BY DEF Init, Typed, Stages, Results, NoSession, Nothing, Made, NoCall, CallOf
<1>2. ASSUME NEW r \in Requests
      PROVE  Staged(r) /\ Called(r) /\ Recorded(r) /\ Denied(r)
  BY <1>2 DEF Init, Staged, Called, Recorded, Denied, Outcomes, Outstanding,
     Version, NoSession, Nothing, Made, NoCall, CallOf
<1> QED BY <1>1, <1>2 DEF IInv

LEMMA Invariance == Spec => []IInv
  BY Start, Step, PTL DEF Spec

\* Nobody is given a session that somebody else has signed out of, and whose
\* sign-out was over when the request arrived: not by a refresh that is saved
\* late, not by a commit that is retried from logging.
THEOREM SignOutIsFinal == Spec => []SignedOutStaysOut
<1>1. IInv => SignedOutStaysOut
  BY DEF IInv, Denied, SignedOutStaysOut
<1> QED BY <1>1, Invariance, PTL

\* No request commits twice: the version at which a commit finds a conflict was
\* never written by a commit of the same request.
THEOREM NobodyConflictsWithItself == Spec => []ConflictsAreWithOthers
<1>1. ASSUME IInv, NEW r \in Requests, made[r].result = "Conflict"
      PROVE  record.writes[session[r]] # [by |-> r, at |-> "commit"]
  <2>1. /\ Called(r) /\ Recorded(r) /\ effect[r] \in Results
        /\ session[r] \in Nat /\ Len(record.writes) \in Nat
        /\ record.writes \in Seq([by : Requests, at : {"load", "commit"}])
    <3>1. record.writes \in Seq([by : Requests, at : {"load", "commit"}])
      BY <1>1 DEF IInv, Typed
    <3>2. Called(r) /\ Recorded(r) /\ effect[r] \in Results /\ session[r] \in Nat
      BY <1>1 DEF IInv, Typed
    <3> QED BY <3>1, <3>2
  <2>2. effect[r] = "none" /\ session[r] # 0
    BY <1>1, <2>1 DEF Called, Outstanding, NoSession
  <2>3. session[r] \in DOMAIN record.writes
    BY <1>1, <2>1, <2>2 DEF Recorded, Outcomes
  <2>4. Outcomes(r) \cap {"ok", "Unavailable"} = {}
    BY <1>1, <2>2 DEF Outcomes
  <2> QED BY <2>1, <2>3, <2>4 DEF Recorded
<1>2. IInv => ConflictsAreWithOthers
  BY <1>1 DEF ConflictsAreWithOthers
<1> QED BY <1>2, Invariance, PTL

-----------------------------------------------------------------------------
(* The contract of LoginProxy, kept by each request among the others.       *)

Keeps(r) == Contract(r)!ContractNext \/ UNCHANGED Contract(r)!contractVars

\* A request that another one's step does not touch.
LEMMA Untouched ==
    ASSUME NEW r \in Requests,
           stage'[r] = stage[r], session'[r] = session[r], made'[r] = made[r],
           asked'[r] = asked[r], pending'[r] = pending[r],
           response'[r] = response[r]
    PROVE  UNCHANGED Contract(r)!contractVars
  BY DEF Contract!contractVars, Owes

\* What is owed, in the contract's terms.
LEMMA OwedCalls ==
    ASSUME NEW isAsked \in BOOLEAN, NEW isPending \in BOOLEAN, NEW s \in Nat
    PROVE  /\ s # NoSession /\ isAsked =>
                CallMade(isAsked, isPending, s) = [op |-> "revoke", session |-> s]
           /\ s # NoSession /\ ~isAsked /\ isPending =>
                CallMade(isAsked, isPending, s) = [op |-> "persist", session |-> s]
           /\ s = NoSession \/ (~isAsked /\ ~isPending) =>
                CallMade(isAsked, isPending, s) =
                  [op |-> "none", session |-> NoSession]
<1>1. CASE s # NoSession /\ isAsked
  BY <1>1 DEF CallMade, CallOf
<1>2. CASE s # NoSession /\ ~isAsked /\ isPending
  BY <1>2 DEF CallMade, CallOf
<1>3. CASE s = NoSession \/ (~isAsked /\ ~isPending)
  BY <1>3 DEF CallMade, CallOf, NoCall
<1> QED BY <1>1, <1>2, <1>3

LEMMA AdmitKeeps ==
    ASSUME IInv, NEW r \in Requests, NEW s \in Nat, NEW refreshed \in BOOLEAN,
           Admit(r, s, refreshed)
    PROVE  Keeps(r)
<1>1. /\ Typed /\ stage[r] = "loading" /\ made[r] = Nothing /\ ~asked[r]
      /\ UNCHANGED <<response, asked>>
  BY DEF IInv, Admit, Staged
<1>2. session'[r] = s /\ pending'[r] = refreshed /\ asked'[r] = FALSE
  BY <1>1 DEF Admit, Typed
<1>3. /\ Owes(r)' = CallMade(FALSE, refreshed, s)
      /\ Owes(r)' \in {[op |-> "none", session |-> NoSession]}
            \cup (IF s = NoSession THEN {}
                  ELSE {[op |-> "persist", session |-> s]})
  BY <1>2, OwedCalls DEF Owes
<1>4. s \in AllVersions \cup {NoSession}
  BY DEF AllVersions, NoSession
<1>5. CASE stage' = [stage EXCEPT ![r] = "open"] /\ UNCHANGED made
  <2>1. stage'[r] = "open"
    BY <1>1, <1>5 DEF Typed
  <2>2. Contract(r)!Admit
    BY <1>1, <1>2, <1>3, <1>4, <1>5, <2>1 DEF Contract!Admit, Contract!NoCall,
       Contract!Persist
  <2> QED BY <2>2 DEF Keeps, Contract!ContractNext
<1>6. CASE /\ stage' = [stage EXCEPT ![r] = "refused"]
           /\ made' = [made EXCEPT ![r] =
                         Made(CallMade(FALSE, refreshed, s), "none")]
  <2>1. stage'[r] = "refused" /\ made'[r] = Made(Owes(r)', "none")
    BY <1>1, <1>3, <1>6 DEF Typed
  <2>2. Contract(r)!Refuse
    BY <1>1, <1>2, <1>3, <1>4, <2>1 DEF Contract!Refuse, Contract!NoCall,
       Contract!Persist, Contract!Made, Made
  <2> QED BY <2>2 DEF Keeps, Contract!ContractNext
<1> QED BY <1>5, <1>6 DEF Admit

LEMMA LoadKeeps ==
    ASSUME IInv, NEW r \in Requests,
           \/ ReadRecord(r) \/ LoadActive(r) \/ LoadPending(r) \/ LoadSaved(r)
           \/ LoadNothing(r) \/ LoadFails(r)
    PROVE  Keeps(r)
<1>1. Typed /\ Staged(r) /\ seen[r] \in Nat /\ Version + 1 \in Nat
      /\ NoSession \in Nat
  BY DEF IInv, Typed, Version, NoSession
<1>2. CASE ReadRecord(r)
  <2>1. /\ stage[r] = "arriving" /\ stage'[r] = "loading"
        /\ UNCHANGED <<session, made, asked, pending, response>>
    BY <1>1, <1>2 DEF ReadRecord, Typed
  <2> QED BY <2>1 DEF Keeps, Contract!contractVars, Owes
<1>3. CASE LoadFails(r)
  <2>1. /\ stage[r] = "loading" /\ stage'[r] = "refused"
        /\ UNCHANGED <<session, made, asked, pending, response>>
    BY <1>1, <1>3 DEF LoadFails, Typed
  <2>2. session[r] = NoSession /\ made[r] = Nothing
    BY <1>1, <2>1 DEF Staged
  <2>3. Owes(r)' = [op |-> "none", session |-> NoSession]
    BY <1>1, <2>1, <2>2, OwedCalls DEF Owes, Typed
  <2>4. Contract(r)!Refuse
    BY <2>1, <2>2, <2>3 DEF Contract!Refuse, Contract!NoCall, Contract!Made,
       Nothing, Made, NoCall, CallOf
  <2> QED BY <2>4 DEF Keeps, Contract!ContractNext
<1>4. CASE LoadActive(r)
  BY <1>1, <1>4, AdmitKeeps DEF LoadActive
<1>5. CASE LoadPending(r)
  <2>1. Admit(r, seen[r], TRUE)
    BY <1>5, Zenon DEF LoadPending
  <2> QED BY <1>1, <2>1, AdmitKeeps
<1>6. CASE LoadSaved(r)
  <2>1. Admit(r, Version + 1, FALSE)
    BY <1>6, Zenon DEF LoadSaved
  <2> QED BY <1>1, <2>1, AdmitKeeps
<1>7. CASE LoadNothing(r)
  <2>1. Admit(r, NoSession, FALSE)
    BY <1>7, Zenon DEF LoadNothing
  <2> QED BY <1>1, <2>1, AdmitKeeps
<1> QED BY <1>2, <1>3, <1>4, <1>5, <1>6, <1>7

LEMMA AskKeeps ==
    ASSUME IInv, NEW r \in Requests, RequestTermination(r)
    PROVE  Keeps(r)
<1>1. /\ Typed /\ stage[r] = "open" /\ ~asked[r] /\ asked'[r] = TRUE
      /\ UNCHANGED <<stage, session, made, pending, response>>
  BY DEF IInv, RequestTermination, Typed
<1>2. session[r] \in Nat /\ pending[r] \in BOOLEAN
  BY <1>1 DEF Typed
<1>3. CASE session[r] # NoSession
  <2>1. Owes(r)' = [op |-> "revoke", session |-> session[r]]
    BY <1>1, <1>2, <1>3, OwedCalls DEF Owes
  <2>2. Contract(r)!AskTermination
    BY <1>1, <1>3, <2>1 DEF Contract!AskTermination, Contract!Revoke
  <2> QED BY <2>2 DEF Keeps, Contract!ContractNext
<1>4. CASE session[r] = NoSession
  <2>1. \A isAsked, isPending \in BOOLEAN :
          CallMade(isAsked, isPending, NoSession)
            = [op |-> "none", session |-> NoSession]
    BY OwedCalls DEF NoSession
  <2>2. Owes(r)' = CallMade(TRUE, pending[r], NoSession)
    BY <1>1, <1>4 DEF Owes
  <2>3. Owes(r) = CallMade(asked[r], pending[r], NoSession) /\ asked[r] \in BOOLEAN
    BY <1>1, <1>4 DEF Owes, Typed
  <2>4. Owes(r)' = Owes(r)
    BY <1>2, <2>1, <2>2, <2>3
  <2> QED BY <1>1, <2>4 DEF Keeps, Contract!contractVars
<1> QED BY <1>3, <1>4

LEMMA ClaimKeeps ==
    ASSUME IInv, NEW r \in Requests, Claim(r)
    PROVE  Keeps(r)
<1>1. /\ Typed /\ stage[r] = "open" /\ stage'[r] = "claimed"
      /\ made'[r] = Made(Owes(r), "none")
      /\ UNCHANGED <<session, asked, pending, response>>
  BY DEF IInv, Claim, Typed
<1>2. Contract(r)!Claim
  BY <1>1 DEF Contract!Claim, Contract!Made, Made, Owes
<1> QED BY <1>2 DEF Keeps, Contract!ContractNext

LEMMA ReturnKeeps ==
    ASSUME IInv, NEW r \in Requests, Return(r)
    PROVE  Keeps(r)
<1>1. /\ Typed /\ Called(r) /\ stage[r] \in {"claimed", "refused"}
      /\ made[r].op # "none" /\ made[r].result = "none" /\ effect[r] # "none"
      /\ UNCHANGED <<stage, session, asked, pending, response>>
  BY DEF IInv, Return, Outstanding
<1>2. made'[r] = [op |-> made[r].op, session |-> made[r].session,
                  result |-> effect[r]]
  BY <1>1 DEF Return, Typed
<1>3. Owes(r) = [op |-> made[r].op, session |-> made[r].session]
  <2>1. session[r] \in Nat /\ asked[r] \in BOOLEAN /\ pending[r] \in BOOLEAN
    BY <1>1 DEF Typed
  <2> QED BY <1>1, <2>1, OwedCalls DEF Called, Owes
<1>4. effect[r] \in SessionErrors \cup {"ok"}
  BY <1>1 DEF Typed, Results
<1>5. Contract(r)!Return
  BY <1>1, <1>2, <1>3, <1>4 DEF Contract!Return, Contract!Outstanding,
     Contract!Made, Owes
<1> QED BY <1>5 DEF Keeps, Contract!ContractNext

Responses == {"none", "application", "refusal", "bare"}

ResponseType == response \in [Requests -> Responses]

LEMMA ResponseStep == ResponseType /\ [Next]_vars => ResponseType'
<1> SUFFICES ASSUME ResponseType, [Next]_vars PROVE ResponseType'
  OBVIOUS
<1>1. UNCHANGED response
      \/ \E r \in Requests, kind \in Responses :
           response' = [response EXCEPT ![r] = kind]
  <2>1. CASE UNCHANGED vars
    BY <2>1 DEF vars
  <2>2. ASSUME NEW r \in Requests,
               \/ ReadRecord(r) \/ LoadActive(r) \/ LoadPending(r)
               \/ LoadSaved(r) \/ LoadNothing(r) \/ LoadFails(r)
               \/ RequestTermination(r) \/ Execute(r) \/ Return(r)
               \/ Logging(r) \/ Drop(r)
        PROVE  UNCHANGED response
    BY <2>2, Zenon DEF ReadRecord, LoadActive, LoadPending, LoadSaved,
       LoadNothing, Admit, LoadFails, RequestTermination, Execute, Return,
       Logging, Claim, Drop
  <2>3. ASSUME NEW r \in Requests,
               RespondApplication(r) \/ RespondRefusal(r) \/ RespondBare(r)
        PROVE  \E kind \in Responses :
                 response' = [response EXCEPT ![r] = kind]
    BY <2>3 DEF RespondApplication, RespondRefusal, RespondBare, Responds,
       Responses
  <2> QED BY <2>1, <2>2, <2>3 DEF Next
<1> QED BY <1>1 DEF ResponseType

LEMMA RespondKeeps ==
    ASSUME ResponseType, NEW r \in Requests,
           RespondApplication(r) \/ RespondRefusal(r) \/ RespondBare(r)
    PROVE  Keeps(r)
<1>1. UNCHANGED <<stage, session, made, asked, pending>>
  BY DEF RespondApplication, RespondRefusal, RespondBare, Responds
<1>2. Owes(r)' = Owes(r)
  BY <1>1 DEF Owes
<1>3. CASE RespondApplication(r)
  <2>1. response[r] = "none" /\ response'[r] = "application"
    BY <1>3 DEF RespondApplication, Responds, ResponseType
  <2>2. Contract(r)!RespondApplication
    BY <1>1, <1>2, <1>3, <2>1 DEF RespondApplication, Outstanding,
       Contract!RespondApplication, Contract!Outstanding
  <2> QED BY <2>2 DEF Keeps, Contract!ContractNext
<1>4. CASE RespondRefusal(r)
  <2>1. response[r] = "none" /\ response'[r] = "refusal"
    BY <1>4 DEF RespondRefusal, Responds, ResponseType
  <2>2. Contract(r)!RespondRefusal
    BY <1>1, <1>2, <1>4, <2>1 DEF RespondRefusal, Outstanding,
       Contract!RespondRefusal, Contract!Outstanding
  <2> QED BY <2>2 DEF Keeps, Contract!ContractNext
<1>5. CASE RespondBare(r)
  <2>1. response[r] = "none" /\ response'[r] = "bare"
    BY <1>5 DEF RespondBare, Responds, ResponseType
  <2>2. Contract(r)!RespondBare
    BY <1>1, <1>2, <1>5, <2>1 DEF RespondBare, Contract!RespondBare
  <2> QED BY <2>2 DEF Keeps, Contract!ContractNext
<1> QED BY <1>3, <1>4, <1>5

LEMMA EndKeeps ==
    ASSUME IInv, NEW r \in Requests, Drop(r) \/ (Logging(r) /\ ~Claim(r))
    PROVE  Keeps(r)
<1>1. /\ Typed /\ UNCHANGED <<session, made, asked, pending, response>>
      /\ \/ /\ stage[r] \notin {"ended", "dropped"}
            /\ stage' = [stage EXCEPT ![r] = "dropped"]
         \/ /\ stage[r] \in {"claimed", "refused"} /\ ~Outstanding(r)
            /\ stage' = [stage EXCEPT ![r] = "ended"]
  BY DEF IInv, Drop, Logging
<1>2. Owes(r)' = Owes(r)
  BY <1>1 DEF Owes
<1>3. CASE stage[r] \notin {"ended", "dropped"} /\ stage'[r] = "dropped"
  <2>1. Contract(r)!Drop
    BY <1>1, <1>2, <1>3 DEF Contract!Drop
  <2> QED BY <2>1 DEF Keeps, Contract!ContractNext
<1>4. CASE /\ stage[r] \in {"claimed", "refused"} /\ ~Outstanding(r)
           /\ stage'[r] = "ended"
  <2>1. Contract(r)!End
    BY <1>1, <1>2, <1>4 DEF Contract!End, Contract!Outstanding, Outstanding
  <2> QED BY <2>1 DEF Keeps, Contract!ContractNext
<1> QED BY <1>1, <1>3, <1>4 DEF Typed

\* Only the request that takes a step can be touched by it.
LEMMA OthersUntouched ==
    ASSUME IInv, ResponseType, NEW r \in Requests, NEW q \in Requests, q # r,
           \/ ReadRecord(r) \/ LoadActive(r) \/ LoadPending(r) \/ LoadSaved(r)
           \/ LoadNothing(r) \/ LoadFails(r) \/ RequestTermination(r)
           \/ Execute(r) \/ Return(r)
           \/ RespondApplication(r) \/ RespondRefusal(r) \/ RespondBare(r)
           \/ Logging(r) \/ Drop(r)
    PROVE  Keeps(q)
<1>1. Typed
  BY DEF IInv
<1>2. stage'[q] = stage[q] /\ asked'[q] = asked[q]
  BY <1>1 DEF Typed, ReadRecord, LoadActive, LoadPending, LoadSaved,
     LoadNothing, Admit, LoadFails, RequestTermination, Execute, Return,
     Logging, Claim, Drop, RespondApplication, RespondRefusal, RespondBare,
     Responds
<1>3. session'[q] = session[q] /\ pending'[q] = pending[q]
  BY <1>1 DEF Typed, ReadRecord, LoadActive, LoadPending, LoadSaved,
     LoadNothing, Admit, LoadFails, RequestTermination, Execute, Return,
     Logging, Claim, Drop, RespondApplication, RespondRefusal, RespondBare,
     Responds
<1>4. made'[q] = made[q]
  <2>1. made \in [Requests -> [op : {"none", "persist", "revoke"},
                              session : Nat, result : Results]]
    BY <1>1 DEF Typed
  <2>2. CASE LoadActive(r) \/ LoadPending(r) \/ LoadSaved(r) \/ LoadNothing(r)
    BY <2>1, <2>2 DEF LoadActive, LoadPending, LoadSaved, LoadNothing, Admit
  <2>3. CASE Return(r) \/ Logging(r)
    BY <2>1, <2>3 DEF Return, Logging, Claim
  <2>4. CASE \/ ReadRecord(r) \/ LoadFails(r) \/ RequestTermination(r)
             \/ Execute(r) \/ Drop(r)
    BY <2>4 DEF ReadRecord, LoadFails, RequestTermination, Execute, Drop
  <2>5. CASE RespondApplication(r) \/ RespondRefusal(r) \/ RespondBare(r)
    BY <2>5 DEF RespondApplication, RespondRefusal, RespondBare, Responds
  <2> QED BY <2>2, <2>3, <2>4, <2>5
<1>5. response'[q] = response[q]
  BY <1>1 DEF ResponseType, ReadRecord, LoadActive, LoadPending, LoadSaved,
     LoadNothing, Admit, LoadFails, RequestTermination, Execute, Return,
     Logging, Claim, Drop, RespondApplication, RespondRefusal, RespondBare,
     Responds
<1> QED BY <1>2, <1>3, <1>4, <1>5, Untouched DEF Keeps

LEMMA StepKeeps ==
    ASSUME IInv, ResponseType, [Next]_vars, NEW q \in Requests
    PROVE  Keeps(q)
<1>1. CASE UNCHANGED vars
  BY <1>1, Untouched DEF vars, Keeps
<1>2. ASSUME NEW r \in Requests,
             \/ ReadRecord(r) \/ LoadActive(r) \/ LoadPending(r) \/ LoadSaved(r)
             \/ LoadNothing(r) \/ LoadFails(r) \/ RequestTermination(r)
             \/ Execute(r) \/ Return(r)
             \/ RespondApplication(r) \/ RespondRefusal(r) \/ RespondBare(r)
             \/ Logging(r) \/ Drop(r)
      PROVE  Keeps(q)
  <2>1. CASE q # r
    BY <1>2, <2>1, OthersUntouched
  <2>2. CASE Execute(r)
    BY <2>2, Untouched DEF Execute, Keeps
  <2>3. CASE q = r /\ ~Execute(r)
    BY <1>2, <2>3, LoadKeeps, AskKeeps, ClaimKeeps, ReturnKeeps, RespondKeeps,
       EndKeeps
  <2> QED BY <2>1, <2>2, <2>3
<1> QED BY <1>1, <1>2 DEF Next

\* Each of any number of requests keeps the contract of LoginProxy, whatever
\* the others do to the record between its steps.
THEOREM ContractAmongOthers == Spec => EachKeepsContract
<1>1. Init => ResponseType
  BY DEF Init, ResponseType, Responses
<1>2. Init => \A r \in Requests : Contract(r)!ContractInit
  <2> SUFFICES ASSUME Init, NEW r \in Requests
               PROVE  Contract(r)!ContractInit
    OBVIOUS
  <2>1. Owes(r) = [op |-> "none", session |-> NoSession]
    BY OwedCalls DEF Init, Owes, NoSession
  <2> QED
    BY <2>1 DEF Init, Contract!ContractInit, Contract!NoCall, Contract!Made,
       Nothing, Made, NoCall, CallOf
<1>3. IInv /\ ResponseType /\ [Next]_vars
        => [\A r \in Requests : Contract(r)!ContractNext
              \/ UNCHANGED Contract(r)!contractVars]_vars
  BY StepKeeps DEF Keeps
<1> QED
  BY <1>1, <1>2, <1>3, ResponseStep, Invariance, PTL DEF Spec, EachKeepsContract
=============================================================================
