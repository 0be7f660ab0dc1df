---------------------------- MODULE SqlLabProofs ----------------------------
(* What SqlLab promises of a query, whatever the order of its answers.      *)
EXTENDS SqlLab, TLAPS

Produced == result \in {"rows", "stored", "unstored"}

\* A key the client has is one the server knows, or that of the answer of a
\* database without workers whose results could not be stored.
Known == (row.key /\ result = "stored") \/ (~async /\ result = "unstored")

\* The strengthening. A result is there only once the execution has returned, so
\* that nobody takes back the key of a row: every later write leaves it alone.
ServerInv == /\ result # "none" => worker \in {"returning", "done"}
             /\ worker = "returning" => result # "none"
             /\ row.key <=> result = "stored"
             /\ result = "unstored" => ~async

NewIsUntouched == tab = "new" => /\ query = Absent /\ poll.phase = "idle"
                                 /\ post = "idle" /\ stop = "idle"
                                 /\ \A k \in Kinds : fetches[k] = 0

ClientInv == /\ post = "rows" => Produced
             /\ post = "keyed" => Known
             /\ poll.row.key => Known
             /\ query.key => Known
             /\ RowsAreReal
             /\ fetches["heard"] > 0 \/ fetches["ignored"] > 0 => Known

Inv == TypeOK /\ ServerInv /\ NewIsUntouched /\ ClientInv

LEMMA InitInv == Init => Inv
<1>. SUFFICES ASSUME Init PROVE Inv
  OBVIOUS
<1>1. query \in Record
  BY DEF Init, Absent, Record, Settled
<1>2. row \in Row /\ seen \in Row
  BY DEF Init, Row
<1>3. poll \in [phase : {"idle", "asked", "read"}, row : Row, others : BOOLEAN]
  BY DEF Init, NoPoll, Row
<1>4. fetches \in [Kinds -> Nat]
  BY DEF Init
<1>5. TypeOK
  BY <1>1, <1>2, <1>3, <1>4 DEF Init, TypeOK
<1>6. ServerInv
  BY DEF Init, ServerInv, NoRow, Plain
<1>7. NewIsUntouched /\ ClientInv
  BY DEF Init, NewIsUntouched, ClientInv, NoPoll, NoRow, Plain, Absent, RowsAreReal, Kinds
<1>. QED BY <1>5, <1>6, <1>7 DEF Inv

\* What the reducer's handlers return is a record of the store.
LEMMA HandlersTyped ==
  ASSUME TypeOK
  PROVE  /\ Absent \in Record /\ Started \in Record /\ Emptied \in Record
         /\ Stopped \in Record /\ Resolved \in Record
         /\ \A q \in Record : Requested(q) \in Record
         /\ \A q \in Record, timeout \in BOOLEAN : Failed(q, timeout) \in Record
         /\ \A answer : Succeeded(answer) \in Record
         /\ \A r \in Row : r # NoRow => Refreshed(r) \in Record
<1>. USE DEF Settled, Finished, Running
<1>0. query \in Record
  BY DEF TypeOK
<1>1. Absent \in Record /\ Started \in Record
  BY DEF Absent, Started, Record
<1>6. Emptied \in Record /\ Stopped \in Record /\ Resolved \in Record
  BY <1>0 DEF Emptied, Stopped, Resolved, Record
<1>2. \A q \in Record : Requested(q) \in Record
  BY DEF Requested, Record
<1>3. \A q \in Record, timeout \in BOOLEAN : Failed(q, timeout) \in Record
  BY DEF Failed, Record
<1>4. \A answer : Succeeded(answer) \in Record
  <2>1. \A answer : Filled(answer) \in Record
    BY <1>0 DEF Filled, Record
  <2>. QED BY <1>0, <2>1 DEF Succeeded
<1>5. \A r \in Row : r # NoRow => Refreshed(r) \in Record
  <2>. SUFFICES ASSUME NEW r \in Row, r # NoRow PROVE Refreshed(r) \in Record
    OBVIOUS
  <2>1. RefreshedState(r) \in Running \cup Settled
    BY <1>0 DEF RefreshedState, Record, Row, NoRow, Plain
  <2>2. r.key \in BOOLEAN /\ (r.status = "success") \in BOOLEAN
    BY DEF Row, NoRow, Plain
  <2>. HIDE DEF Running, Settled
  <2>. QED BY <1>0, <2>1, <2>2 DEF Refreshed, Record
<1>. QED BY <1>1, <1>2, <1>3, <1>4, <1>5, <1>6

\* So is what the server writes a row of the query table.
LEMMA RowsTyped ==
  /\ NoRow \in Row /\ Plain("pending") \in Row
  /\ \A r \in Row : r.key \in BOOLEAN
  /\ \A r \in Row, status \in {"running"} \cup Finished : [r EXCEPT !.status = status] \in Row
  /\ \A key \in BOOLEAN : [status |-> "success", key |-> key] \in Row
<1>1. NoRow \in Row /\ Plain("pending") \in Row
  BY DEF Plain, Row
<1>2. \A r \in Row : r.key \in BOOLEAN
  <2>1. NoRow.key \in BOOLEAN
    BY DEF NoRow, Plain
  <2>. QED BY <2>1 DEF Row
<1>3. \A r \in Row, status \in {"running"} \cup Finished : [r EXCEPT !.status = status] \in Row
  <2>. SUFFICES ASSUME NEW r \in Row, NEW status \in {"running"} \cup Finished
                PROVE  [r EXCEPT !.status = status] \in Row
    OBVIOUS
  <2>1. [r EXCEPT !.status = status] = [status |-> status, key |-> r.key]
    BY DEF NoRow, Plain, Row
  <2>. QED BY <1>2, <2>1 DEF Row
<1>4. \A key \in BOOLEAN : [status |-> "success", key |-> key] \in Row
  BY DEF Row, Finished
<1>. QED BY <1>1, <1>2, <1>3, <1>4

\* To ask for results, and to render, keeps the counts of requests.
LEMMA RenderTyped ==
  ASSUME TypeOK, NEW q \in Record, Render(q)
  PROVE  /\ query' \in Record /\ fetches' \in [Kinds -> Nat] /\ unheard' \in BOOLEAN
         /\ query'.key = q.key /\ query'.results = q.results
         /\ fetches' # fetches => q.key
<1>1. Requested(q) \in Record
  BY HandlersTyped
<1>2. Requested(q).key = q.key /\ Requested(q).results = q.results
  BY DEF Requested, Record
<1>3. CASE tab = "latest" /\ q.key /\ ~query.key
  <2>. PICK kind \in Kinds : query' = Requested(q) /\ Ask(kind)
    BY <1>3 DEF Render, Kinds
  <2>1. fetches' \in [Kinds -> Nat] /\ unheard' \in BOOLEAN
    BY DEF Ask, TypeOK
  <2>. QED BY <1>1, <1>2, <1>3, <2>1
<1>4. CASE ~(tab = "latest" /\ q.key /\ ~query.key)
  BY <1>4 DEF Render, TypeOK, asking
<1>. QED BY <1>3, <1>4

LEMMA NextTyped == TypeOK /\ ServerInv /\ [Next]_vars => TypeOK'
<1>. SUFFICES ASSUME TypeOK, ServerInv, [Next]_vars PROVE TypeOK'
  OBVIOUS
<1>. USE DEF client, polling, asking, server, TypeOK
<1>1. CASE Run
  BY <1>1, HandlersTyped DEF Run
<1>2. CASE RunAnother
  BY <1>2, HandlersTyped DEF RunAnother
<1>3. CASE PressStop
  BY <1>3 DEF PressStop
<1>4. CASE RetryFetch
  <2>1. fetches' \in [Kinds -> Nat] /\ unheard' \in BOOLEAN
    BY <1>4 DEF RetryFetch, Ask, Kinds
  <2>2. query' \in Record
    BY <1>4, HandlersTyped DEF RetryFetch
  <2>. QED BY <1>4, <2>1, <2>2 DEF RetryFetch
<1>5. CASE Posted
  <2>1. query \in Record /\ Succeeded(post) \in Record
    BY HandlersTyped
  <2>2. query' \in Record /\ fetches' \in [Kinds -> Nat] /\ unheard' \in BOOLEAN
    BY <1>5, <2>1, RenderTyped DEF Posted
  <2>. QED BY <1>5, <2>2 DEF Posted
<1>6. CASE PostFails
  <2>1. query' \in Record
    BY <1>6, HandlersTyped DEF PostFails
  <2>. QED BY <1>6, <2>1 DEF PostFails
<1>7. CASE StopAnswered
  <2>1. query' \in Record
    BY <1>7, HandlersTyped DEF StopAnswered
  <2>. QED BY <1>7, <2>1 DEF StopAnswered
<1>8. ASSUME NEW kind \in Kinds, FetchAnswered(kind) PROVE TypeOK'
  <2>1. fetches' \in [Kinds -> Nat]
    BY <1>8 DEF FetchAnswered
  <2>2. query' \in Record /\ unheard' \in BOOLEAN
    BY <1>8, HandlersTyped DEF FetchAnswered
  <2>. QED BY <1>8, <2>1, <2>2 DEF FetchAnswered
<1>9. CASE Tick \/ PollFails
  <2>1. poll' \in [phase : {"idle", "asked", "read"}, row : Row, others : BOOLEAN]
    <3>1. /\ NoPoll \in [phase : {"idle", "asked", "read"}, row : Row, others : BOOLEAN]
          /\ [NoPoll EXCEPT !.phase = "asked"]
               \in [phase : {"idle", "asked", "read"}, row : Row, others : BOOLEAN]
      BY RowsTyped DEF NoPoll
    <3>. QED BY <1>9, <3>1 DEF Tick, PollFails
  <2>. QED BY <1>9, <2>1 DEF Tick, PollFails
<1>10. CASE IdleTick
  BY <1>10, HandlersTyped DEF IdleTick
<1>11. CASE PollReads \/ PollMisses
  <2>. PICK r \in Row, others \in BOOLEAN : poll' = [phase |-> "read", row |-> r, others |-> others]
    BY <1>11, RowsTyped DEF PollReads, PollMisses
  <2>. QED BY <1>11 DEF PollReads, PollMisses
<1>12. CASE PollAnswered
  <2>1. /\ Refreshed(poll.row) \in Record
        /\ Failed(Refreshed(poll.row), FALSE) \in Record
    BY <1>12, HandlersTyped DEF PollAnswered
  <2>2. query' \in Record /\ fetches' \in [Kinds -> Nat] /\ unheard' \in BOOLEAN
    BY <1>12, <2>1, RenderTyped DEF PollAnswered
  <2>3. poll' \in [phase : {"idle", "asked", "read"}, row : Row, others : BOOLEAN] /\ seen' \in Row
    BY <1>12, RowsTyped DEF PollAnswered, NoPoll
  <2>. QED BY <1>12, <2>2, <2>3 DEF PollAnswered
<1>13. CASE PollIsEmpty
  <2>1. query' \in Record
    BY <1>13, HandlersTyped DEF PollIsEmpty
  <2>. QED BY <1>13, <2>1, RowsTyped DEF PollIsEmpty, NoPoll
<1>14. CASE Accept
  BY <1>14, RowsTyped DEF Accept
<1>15. CASE Refuse
  <2>1. row' \in Row
    BY <1>15, RowsTyped DEF Refuse, Finished
  <2>. QED BY <1>15, <2>1 DEF Refuse, Answer
<1>16. CASE Queue
  BY <1>16 DEF Queue, Answer
<1>17. CASE Begin
  <2>1. row' \in Row
    BY <1>17, RowsTyped DEF Begin
  <2>. QED BY <1>17, <2>1 DEF Begin
<1>18. CASE SeesStop \/ EndsEmpty \/ Succeeds \/ Fails
  <2>1. row' \in Row
    <3>1. CASE SeesStop \/ EndsEmpty
      BY <3>1 DEF SeesStop, EndsEmpty
    <3>2. CASE Succeeds
      BY <3>2, RowsTyped DEF Succeeds
    <3>3. CASE Fails
      <4>. PICK status \in {"failed", "timed_out"} : row' = [row EXCEPT !.status = status]
        BY <3>3 DEF Fails
      <4>. QED BY RowsTyped DEF Finished
    <3>. QED BY <1>18, <3>1, <3>2, <3>3
  <2>2. PICK r \in {"stopped", "failed", "empty", "rows", "stored", "unstored"} : End(r)
    BY <1>18 DEF SeesStop, EndsEmpty, Succeeds, Fails
  <2>. QED BY <2>1, <2>2 DEF End
<1>19. CASE Delivers
  <2>1. post' \in {"idle", "asked", "queued", "stopped", "refused", "over"} \cup Successes
    <3>1. ~async => (IF result \in {"stored", "unstored"} THEN "keyed" ELSE result)
                       \in {"stopped"} \cup Successes
      BY <1>19 DEF Delivers, ServerInv, Successes
    <3>. QED BY <1>19, <3>1 DEF Delivers, Answer
  <2>. QED BY <1>19, <2>1 DEF Delivers
<1>20. CASE FailsLate
  <2>1. row' \in Row
    BY <1>20, RowsTyped DEF FailsLate, Finished
  <2>. QED BY <1>20, <2>1 DEF FailsLate, Answer
<1>21. CASE StopChecks
  BY <1>21 DEF StopChecks
<1>22. CASE StopWrites
  <2>1. row' \in Row
    <3>1. [row EXCEPT !.status = "stopped"] \in Row
      BY RowsTyped DEF Finished
    <3>. QED BY <1>22, <3>1 DEF StopWrites
  <2>. QED BY <1>22, <2>1 DEF StopWrites
<1>23. CASE UNCHANGED vars
  BY <1>23 DEF vars
<1>. QED
  BY <1>1, <1>2, <1>3, <1>4, <1>5, <1>6, <1>7, <1>8, <1>9, <1>10, <1>11, <1>12, <1>13, <1>14,
     <1>15, <1>16, <1>17, <1>18, <1>19, <1>20, <1>21, <1>22, <1>23 DEF Next, Work

\* No server action but the end of the execution touches a result or a key, and
\* what the client does touches neither.
LEMMA ServerKept ==
  ASSUME TypeOK, ServerInv, [Next]_vars
  PROVE  ServerInv' /\ (Known => Known') /\ (result # "none" => result' = result)
<1>. USE DEF ServerInv, Known, client, polling, asking, server
<1>0. row.key \in BOOLEAN /\ NoRow.key = FALSE /\ Plain("pending").key = FALSE
  BY RowsTyped DEF TypeOK, NoRow, Plain
<1>1. \A status : [row EXCEPT !.status = status].key = row.key
  BY DEF TypeOK, Row, NoRow, Plain
<1>2. CASE Accept
  BY <1>0, <1>2 DEF Accept
<1>3. CASE Refuse \/ Queue \/ Begin
  BY <1>1, <1>3 DEF Refuse, Queue, Begin
<1>4. CASE SeesStop \/ EndsEmpty
  BY <1>4 DEF SeesStop, EndsEmpty, End
<1>5. CASE Succeeds
  <2>1. PICK r \in {"rows", "stored", "unstored"} :
          End(r) /\ (r = "unstored" => ~async) /\ row' = [status |-> "success", key |-> r = "stored"]
    BY <1>5 DEF Succeeds
  <2>2. row'.key <=> r = "stored"
    BY <2>1
  <2>. QED BY <2>1, <2>2 DEF End
<1>6. CASE Fails
  BY <1>1, <1>6 DEF Fails, End
<1>7. CASE Delivers \/ StopChecks
  BY <1>7 DEF Delivers, StopChecks
<1>8. CASE FailsLate
  BY <1>1, <1>8 DEF FailsLate
<1>9. CASE StopWrites
  <2>1. row'.key = row.key /\ UNCHANGED <<worker, result, async>>
    BY <1>1, <1>9 DEF StopWrites
  <2>. QED BY <1>0, <1>9, <2>1 DEF StopWrites
<1>10. CASE UNCHANGED <<server, async>>
  BY <1>10
<1>11. (\/ UNCHANGED vars \/ Run \/ RunAnother \/ PressStop \/ RetryFetch \/ Posted \/ PostFails
        \/ StopAnswered \/ (\E kind \in Kinds : FetchAnswered(kind)) \/ Tick \/ IdleTick
        \/ PollReads \/ PollMisses \/ PollAnswered \/ PollIsEmpty \/ PollFails)
       => UNCHANGED <<server, async>>
  BY DEF vars, Run, RunAnother, PressStop, RetryFetch, Posted, PostFails, StopAnswered,
         FetchAnswered, Tick, IdleTick, PollReads, PollMisses, PollAnswered, PollIsEmpty, PollFails
<1>. QED BY <1>2, <1>3, <1>4, <1>5, <1>6, <1>7, <1>8, <1>9, <1>10, <1>11 DEF Next, Work

\* A query that has not been run has no request, and no poll runs for it.
LEMMA NewKept ==
  ASSUME TypeOK, NewIsUntouched, [Next]_vars
  PROVE  NewIsUntouched'
<1>. USE DEF NewIsUntouched, client, polling, asking, server
<1>1. tab' = "new" => tab = "new"
  BY DEF Next, Work, vars, Run, RunAnother, PressStop, RetryFetch, Posted, PostFails,
         StopAnswered, FetchAnswered, Tick, IdleTick, PollReads, PollMisses, PollAnswered,
         PollIsEmpty, PollFails, Accept, Refuse, Queue, Begin, SeesStop, EndsEmpty, Succeeds,
         Fails, End, Delivers, FailsLate, StopChecks, StopWrites
<1>. SUFFICES ASSUME tab' = "new" PROVE NewIsUntouched'
  OBVIOUS
<1>2. ~(Run \/ RunAnother \/ PressStop \/ RetryFetch \/ Tick \/ IdleTick)
  BY <1>1 DEF Run, RunAnother, PressStop, RetryFetch, Tick, IdleTick
<1>3. ~(Posted \/ PostFails \/ StopAnswered)
  BY <1>1 DEF Posted, PostFails, StopAnswered, Successes
<1>4. ~\E kind \in Kinds : FetchAnswered(kind)
  BY <1>1 DEF FetchAnswered
<1>5. ~(PollReads \/ PollMisses \/ PollAnswered \/ PollIsEmpty \/ PollFails)
  BY <1>1 DEF PollReads, PollMisses, PollAnswered, PollIsEmpty, PollFails
<1>6. CASE \/ Accept \/ Refuse \/ Queue \/ Begin \/ SeesStop \/ EndsEmpty \/ Succeeds \/ Fails
           \/ Delivers \/ FailsLate \/ StopChecks \/ StopWrites
  BY <1>1, <1>6 DEF Accept, Refuse, Queue, Begin, SeesStop, EndsEmpty, Succeeds, Fails, End,
                    Delivers, FailsLate, StopChecks, StopWrites, Answer
<1>7. CASE UNCHANGED vars
  BY <1>1, <1>7 DEF vars
<1>. QED BY <1>2, <1>3, <1>4, <1>5, <1>6, <1>7 DEF Next, Work

\* The client's half of the invariant when only the client moves.
LEMMA ClientKept ==
  ASSUME Inv, [Next]_vars
  PROVE  ClientInv'
<1>. USE DEF Inv, ClientInv, RowsAreReal
<1>0. (Known => Known') /\ (Produced => Produced')
  BY ServerKept DEF Produced
<1>q. query \in Record /\ query.key \in BOOLEAN
  BY DEF TypeOK, Record
<1>r. NoPoll.row.key = FALSE
  BY DEF NoPoll, NoRow, Plain
<1>k. Known => Produced
  BY DEF Known, Produced
<1>1. CASE Run
  BY <1>1, <1>0 DEF Run, Started, Absent, asking, polling
<1>2. CASE RunAnother
  <2>1. (query'.key = query.key /\ query'.results # "rows") \/ query' = query
    BY <1>2, <1>q DEF RunAnother, Emptied, Record
  <2>. QED BY <1>2, <1>0, <2>1 DEF RunAnother, asking, polling, Produced
<1>3. CASE PressStop \/ Tick \/ PollFails \/ UNCHANGED vars
  <2>1. UNCHANGED <<query, fetches, post>> /\ (poll'.row.key => poll.row.key)
    BY <1>3, <1>r DEF PressStop, Tick, PollFails, NoPoll, vars, client, polling, asking
  <2>. QED BY <1>0, <2>1 DEF Produced
<1>4. CASE RetryFetch
  <2>1. query'.key = query.key /\ query'.results = query.results
    BY <1>4, <1>q DEF RetryFetch, Requested, Record
  <2>2. (fetches'["heard"] > 0 \/ fetches'["ignored"] > 0)
          => (fetches["heard"] > 0 \/ fetches["ignored"] > 0 \/ query.key)
    BY <1>4 DEF RetryFetch, Ask, TypeOK, Kinds
  <2>. QED BY <1>4, <1>0, <2>1, <2>2 DEF RetryFetch, polling, Produced
<1>5. CASE Posted
  <2>. DEFINE q == IF async THEN query ELSE Succeeded(post)
  <2>1. q \in Record
    BY <1>q, HandlersTyped
  <2>2. (q.key => Known) /\ (q.results = "rows" => Produced)
    <3>1. CASE async \/ post \notin {"empty", "rows", "keyed"}
      BY <3>1 DEF Succeeded, Successes, Produced
    <3>2. CASE ~async /\ post \in {"empty", "rows", "keyed"}
      <4>1. q = Filled(post)
        BY <3>2 DEF Succeeded, Successes
      <4>2. /\ Filled(post).key = (query.key \/ post = "keyed")
            /\ Filled(post).results = IF post = "empty" THEN "cleared" ELSE "rows"
        BY <1>q DEF Filled, Record
      <4>. QED BY <3>2, <4>1, <4>2, <1>k DEF Produced
    <3>. QED BY <3>1, <3>2
  <2>3. Render(q)
    BY <1>5 DEF Posted
  <2>. HIDE DEF q
  <2>4. fetches' = fetches \/ q.key
    BY <2>1, <2>3, RenderTyped
  <2>5. query'.key = q.key /\ query'.results = q.results
    BY <2>1, <2>3, RenderTyped
  <2>. QED BY <1>5, <1>0, <2>2, <2>4, <2>5 DEF Posted, polling, Produced
<1>6. CASE PostFails \/ StopAnswered
  <2>1. query'.key = query.key /\ (query'.results = "rows" => query.results = "rows")
    BY <1>6, <1>q DEF PostFails, Failed, StopAnswered, Stopped, Record
  <2>2. UNCHANGED <<poll, fetches>> /\ post' \in {"over", post}
    BY <1>6 DEF PostFails, StopAnswered, polling, asking
  <2>. QED BY <1>0, <2>1, <2>2 DEF Produced
<1>7. ASSUME NEW kind \in Kinds, FetchAnswered(kind) PROVE ClientInv'
  <2>1. (query'.key => query.key \/ Known) /\ (query'.results = "rows" => query.results = "rows" \/ Known)
    <3>1. CASE query' = Succeeded("keyed") /\ row.key /\ kind = "heard"
      BY <3>1 DEF Known, ServerInv
    <3>2. CASE query' = query
      BY <3>2
    <3>3. ASSUME NEW timeout \in BOOLEAN, query' = Failed(query, timeout)
          PROVE  query'.key = query.key /\ query'.results = query.results
      BY <3>3, <1>q DEF Failed, Record
    <3>. QED BY <1>7, <3>1, <3>2, <3>3 DEF FetchAnswered
  <2>2. \A k \in Kinds : fetches'[k] > 0 => fetches[k] > 0
    BY <1>7 DEF FetchAnswered, TypeOK
  <2>3. "heard" \in Kinds /\ "ignored" \in Kinds
    BY DEF Kinds
  <2>. QED BY <1>7, <1>0, <1>k, <2>1, <2>2, <2>3 DEF FetchAnswered, polling, Produced
<1>8. CASE PollReads \/ PollMisses
  <2>1. poll'.row.key => poll.row.key \/ row.key
    BY <1>8 DEF PollReads, PollMisses, NoRow, Plain
  <2>2. row.key => Known
    BY DEF Known, ServerInv
  <2>. QED BY <1>8, <1>0, <2>1, <2>2 DEF PollReads, PollMisses, client, asking, Produced
<1>9. CASE PollAnswered
  <2>. DEFINE r == Refreshed(poll.row)
              f == Failed(r, FALSE)
  <2>1. r \in Record /\ f \in Record
    BY <1>9, HandlersTyped DEF PollAnswered, TypeOK
  <2>2. (r.key => query.key \/ poll.row.key) /\ r.results = query.results
    BY <1>q DEF Refreshed, Record
  <2>. HIDE DEF r
  <2>3. f.key = r.key /\ f.results = r.results
    BY <2>1 DEF Failed, Record
  <2>. HIDE DEF f
  <2>4. Render(r) \/ Render(f)
    BY <1>9 DEF PollAnswered, r, f
  <2>5. /\ query'.key => query.key \/ poll.row.key
        /\ query'.results = query.results
        /\ fetches' = fetches \/ query.key \/ poll.row.key
    BY <2>1, <2>2, <2>3, <2>4, RenderTyped
  <2>6. post' = post /\ poll' = NoPoll
    BY <1>9 DEF PollAnswered
  <2>. QED BY <1>0, <1>r, <2>5, <2>6 DEF Produced
<1>10. CASE PollIsEmpty \/ IdleTick
  <2>1. query' \in {query, Resolved, Absent}
    BY <1>10 DEF PollIsEmpty, IdleTick
  <2>2. Resolved.key = query.key /\ Resolved.results = query.results
    BY <1>q DEF Resolved, Record
  <2>3. Absent.key = FALSE /\ Absent.results = "none"
    BY DEF Absent
  <2>4. UNCHANGED <<post, fetches>> /\ poll' \in {NoPoll, poll}
    BY <1>10 DEF PollIsEmpty, IdleTick, asking, polling
  <2>. QED BY <1>0, <1>r, <2>1, <2>2, <2>3, <2>4 DEF Produced
<1>11. CASE Accept \/ Refuse \/ Queue \/ Begin \/ StopChecks \/ StopWrites \/ FailsLate
  <2>1. UNCHANGED <<query, fetches, poll>> /\ post' \in {post, "refused", "queued"}
    BY <1>11 DEF Accept, Refuse, Queue, Begin, StopChecks, StopWrites, FailsLate, Answer,
                 client, asking, polling
  <2>. QED BY <1>0, <2>1 DEF Produced
<1>12. CASE SeesStop \/ EndsEmpty \/ Succeeds \/ Fails
  <2>1. UNCHANGED <<query, fetches, poll, post>>
    BY <1>12 DEF SeesStop, EndsEmpty, Succeeds, Fails, End, client, asking, polling
  <2>. QED BY <1>0, <2>1 DEF Produced
<1>13. CASE Delivers
  <2>1. UNCHANGED <<query, fetches, poll, row, result, async>>
    BY <1>13 DEF Delivers, client, asking, polling
  <2>2. /\ post' = "rows" => post = "rows" \/ result = "rows"
        /\ post' = "keyed" => post = "keyed" \/ result = "keyed"
                              \/ (~async /\ result \in {"stored", "unstored"})
    BY <1>13 DEF Delivers, Answer
  <2>3. result \in {"stored", "unstored"} /\ ~async => Known
    BY DEF Known, ServerInv
  <2>4. result # "keyed"
    BY DEF TypeOK
  <2>. QED BY <1>0, <2>1, <2>2, <2>3, <2>4 DEF Produced, Known
<1>. QED
  BY <1>1, <1>2, <1>3, <1>4, <1>5, <1>6, <1>7, <1>8, <1>9, <1>10, <1>11, <1>12, <1>13 DEF Next, Work

LEMMA Invariance == Spec => []Inv
<1>1. Inv /\ [Next]_vars => Inv'
  BY NextTyped, ServerKept, NewKept, ClientKept DEF Inv
<1>. QED BY InitInv, <1>1, PTL DEF Spec

(* Every variable keeps its range. *)
THEOREM TypeCorrect == Spec => []TypeOK
<1>1. Inv => TypeOK
  BY DEF Inv
<1>. QED BY <1>1, Invariance, PTL

(* However answers, stops, retries and polls overtake each other, rows are on   *)
(* the screen only for a query whose execution produced them.                   *)
THEOREM NoInventedRows == Spec => []RowsAreReal
<1>1. Inv => RowsAreReal
  BY DEF Inv, ClientInv
<1>. QED BY <1>1, Invariance, PTL

(* Results are only requested with a key under which the server has them,      *)
(* though a stop or a late failure may have overwritten the success; the one    *)
(* exception is the key that the answer of a database without workers brings    *)
(* although the results could not be stored.                                    *)
THEOREM KeysAreGood == Spec => []FetchesFindResults
<1>1. Inv => FetchesFindResults
  <2>. SUFFICES ASSUME Inv, fetches["heard"] + fetches["ignored"] > 0 PROVE Known
    BY DEF FetchesFindResults, Known
  <2>1. fetches["heard"] \in Nat /\ fetches["ignored"] \in Nat
    BY DEF Inv, TypeOK, Kinds
  <2>. QED BY <2>1 DEF Inv, ClientInv
<1>. QED BY <1>1, Invariance, PTL

(* The poll never reopens a query that the tab shows as stopped or failed,     *)
(* unless it has the results of a success to show, or they are asked for.      *)
THEOREM PollRespectsTheEnd == Spec => NotReopened
<1>. DEFINE Kept == Ended => \/ query'.state \in {"stopped", "failed"}
                             \/ HasStatus(query')
                             \/ \E k \in Kinds : fetches'[k] > fetches[k]
<1>1. Inv /\ [Next]_vars => [Kept]_vars
  <2>. SUFFICES ASSUME Inv, Next, Ended PROVE Kept
    OBVIOUS
  <2>q. query \in Record
    BY DEF Inv, TypeOK
  <2>f. \A k \in Kinds : fetches[k] \in Nat
    BY DEF Inv, TypeOK
  <2>0. query.state \in {"stopped", "failed"}
    BY DEF Ended
  <2>s. \A answer \in Successes : HasStatus(Filled(answer))
    BY <2>q DEF HasStatus, Filled, Record
  <2>1. CASE Run
    BY <2>1, <2>0 DEF Run, Inv, NewIsUntouched, Absent
  <2>2. CASE query' = query
    BY <2>0, <2>2
  <2>3. CASE RunAnother \/ PostFails \/ StopAnswered
    <3>1. query'.state \in {"stopped", "failed"}
      BY <2>0, <2>3, <2>q DEF RunAnother, Emptied, PostFails, Failed, StopAnswered, Stopped, Record
    <3>. QED BY <3>1
  <2>4. CASE RetryFetch
    <3>. PICK kind \in Kinds : Ask(kind)
      BY <2>4 DEF RetryFetch, Kinds
    <3>. QED BY <2>f DEF Ask, Inv, TypeOK
  <2>5. CASE Posted
    <3>. DEFINE q == IF async THEN query ELSE Succeeded(post)
    <3>1. q.state \in {"stopped", "failed"} \/ HasStatus(q)
      BY <2>0, <2>s DEF Succeeded
    <3>2. q \in Record /\ Render(q)
      BY <2>5, <2>q, HandlersTyped DEF Posted, Inv
    <3>. HIDE DEF q
    <3>3. query'.results = q.results
      BY <3>2, RenderTyped DEF Inv
    <3>4. query' = q \/ \E kind \in Kinds : Ask(kind)
      BY <3>2 DEF Render, Kinds
    <3>5. (\E kind \in Kinds : Ask(kind)) => \E k \in Kinds : fetches'[k] > fetches[k]
      BY <2>f DEF Ask, Inv, TypeOK
    <3>. QED BY <3>1, <3>4, <3>5
  <2>6. ASSUME NEW kind \in Kinds, FetchAnswered(kind) PROVE Kept
    <3>1. \A timeout \in BOOLEAN : Failed(query, timeout).state = "failed"
      BY <2>q DEF Failed, Record
    <3>2. HasStatus(Succeeded("keyed"))
      BY <2>s DEF Succeeded, Successes
    <3>. QED BY <2>6, <2>0, <3>1, <3>2 DEF FetchAnswered
  <2>7. CASE PollAnswered
    <3>1. Refreshed(poll.row) = query
      BY DEF Refreshed
    <3>2. Failed(query, FALSE).state = "failed" /\ Failed(query, FALSE).key = query.key
      BY <2>q DEF Failed, Record
    <3>. QED BY <2>0, <2>7, <3>1, <3>2 DEF PollAnswered, Render
  <2>8. CASE PollIsEmpty \/ IdleTick
    <3>1. query' \in {query, Resolved}
      BY <2>0, <2>8 DEF PollIsEmpty, IdleTick, Inactive
    <3>2. Resolved = query \/ HasStatus(Resolved)
      BY <2>q DEF Resolved, HasStatus, Record
    <3>. QED BY <2>0, <3>1, <3>2
  <2>9. \/ PressStop \/ Tick \/ PollReads \/ PollMisses \/ PollFails \/ Accept \/ Refuse
        \/ Queue \/ Begin \/ SeesStop \/ EndsEmpty \/ Succeeds \/ Fails \/ Delivers
        \/ FailsLate \/ StopChecks \/ StopWrites
        => query' = query
    BY DEF PressStop, Tick, PollReads, PollMisses, PollFails, Accept, Refuse, Queue, Begin,
           SeesStop, EndsEmpty, Succeeds, Fails, End, Delivers, FailsLate, StopChecks,
           StopWrites, client
  <2>. HIDE DEF Kept
  <2>. QED BY <2>1, <2>2, <2>3, <2>4, <2>5, <2>6, <2>7, <2>8, <2>9 DEF Next, Work
<1>. QED BY <1>1, Invariance, PTL DEF Spec, NotReopened
=============================================================================
