------------------------- MODULE ClientCallsProofs -------------------------
(***************************************************************************)
(* What holds of ClientCalls and ServerEvents for any calls that read what *)
(* their operation answers, any page size, list, number of tries, clocks   *)
(* and tolerance.                                                          *)
(*                                                                         *)
(* The argument: what a walk has got, the answer under way and the cursor  *)
(* lie one behind the other in the list as it was when the walk began      *)
(* (WalkInv, AnswerInv), so the page without a cursor ends at the oldest   *)
(* entry (LastInv); what the server has stored is what one request makes   *)
(* of it, however many arrived (EffectInv); an answer that is not the      *)
(* API's is one of ProxyAnswers until it is read (GarbledInv);             *)
(* who gets a token, and who asks for one, is settled row by row           *)
(* (TokenInv).  Whatever precedes them in the header, the two parts of     *)
(* SignWebhook are the last of their keys, so verify_webhook compares the  *)
(* digest that was sent with one of the same timestamp (CallbackInv).  The *)
(* first separator in a name is the one that was put there, unless one     *)
(* begins before it in the server's name.                                  *)
(***************************************************************************)
EXTENDS ServerEvents, ApiCalls, SequenceTheorems, WellFoundedInduction, TLAPS

\* The entries from Base on are still to be got.
Base == IF cursor = 0 THEN start + 1 ELSE cursor

\* The caller has all entries down to the cursor.
WalkInv ==
  /\ got \in Seq(Nat) /\ Len(got) <= start /\ EachOnceInOrder
  /\ cursor # 0 => call.op \in PagedOps
  /\ outcome # "returned" => Len(got) = start + 1 - Base

\* An answer goes on where the caller is, and its cursor where it ends.
Continues(a, base) ==
  /\ a.items \in Seq(Nat) /\ a.next \in 0..MaxEntries
  /\ Len(a.items) < base
  /\ \A i \in 1..Len(a.items) : a.items[i] = base - i
  /\ a.next # 0 => a.next = base - Len(a.items) /\ call.op \in PagedOps

AnswerInv == pc = "answered" => Continues(answer, Base)

\* A list without a limit is left off at a cursor or at its end.
Listed == call.op \in (PagedOps \cup ArrayOps) \ LimitedOps
Exhausts(a, base) == Len(a.items) = base - 1 \/ (call.op \in PagedOps /\ a.next # 0)

LastInv ==
  /\ pc = "answered" /\ ~garbled /\ ~Raises(answer) /\ Listed => Exhausts(answer, Base)
  /\ WalkComplete

\* The server's field is untouched or as one request leaves it.
EffectInv ==
  /\ stored = IF done THEN Stored("old", Body(call.sends, wish)) ELSE "old"
  /\ pc = "answered" /\ ~Raises(answer) /\ ~garbled => done
  /\ outcome = "returned" /\ ~garbled => done

\* Nothing was submitted before the first request.
ReplayInv ==
  call.reads = "replay" =>
    /\ tries = 1 /\ pc \in {"ready", "sent"} => ~done /\ ~late
    /\ pc = "answered" /\ ~garbled /\ answer.status = "ok" => tries > 1
    /\ outcome = "none_returned" /\ ~garbled => tries > 1

\* An answer that is not the API's is a proxy's, and the call ends with it.
GarbledInv ==
  garbled => pc \in {"answered", "ended"} /\ (pc = "answered" => answer \in ProxyAnswers)

\* Only a call that is not authorized is answered so.
TokenInv ==
  /\ answer.status = "unauthorized" \/ outcome = "unauthorized" => ~Authorized
  /\ outcome = "no_token" => call.token

IInv == TypeOK /\ WalkInv /\ AnswerInv /\ LastInv /\ EffectInv /\ ReplayInv

-----------------------------------------------------------------------------
(* Answers *)

\* No operation answers in two ways.
LEMMA OpsDisjoint ==
  /\ PagedOps \cap EmptyOps = {} /\ PagedOps \cap ReplayOps = {}
  /\ PagedOps \cap ArrayOps = {} /\ ArrayOps \cap EmptyOps = {}
  /\ ArrayOps \cap ReplayOps = {} /\ EmptyOps \cap ReplayOps = {}
BY DEF PagedOps, ArrayOps, EmptyOps, ReplayOps

\* A stretch of the list is a sequence of its entries.
LEMMA BelowFacts ==
  ASSUME NEW top \in Nat, NEW k \in Nat, k < top \/ k = 0
  PROVE  /\ Below(top, k) \in Seq(Nat) /\ Len(Below(top, k)) = k
         /\ \A i \in 1..k : Below(top, k)[i] = top - i
<1>1. \A i \in 1..k : top - i \in Nat
  OBVIOUS
<1> QED
  BY <1>1 DEF Below

\* The smaller of two numbers.
LEMMA MinFacts ==
  ASSUME NEW a \in Nat, NEW b \in Nat
  PROVE  Min({a, b}) \in Nat /\ Min({a, b}) <= b
<1>1. \E x \in {a, b} : \A y \in {a, b} : x <= y
  BY a <= b \/ b <= a
<1>2. Min({a, b}) = CHOOSE x \in {a, b} : \A y \in {a, b} : x <= y
  BY DEF Min
<1> QED
  BY <1>1, <1>2

\* What the API answers continues the walk, at its beginning from the newest entry,
\* exhausts the list unless it has a cursor, and is a replay only of what is done.
LEMMA ServedAnswer ==
  ASSUME TypeOK, WalkInv, NEW a \in Answers(call)
  PROVE  /\ a.status \in {"ok", "created"}
         /\ Continues(a, Top)
         /\ Listed => Exhausts(a, Top)
         /\ call.reads = "replay" /\ a.status = "ok" => done
<1>1. Top \in Nat \ {0}
  BY DEF Top, TypeOK
<1>2. CASE call.op \in EmptyOps \cup ReplayOps
  <2>1. call.op \notin PagedOps \cup ArrayOps
    BY <1>2, OpsDisjoint
  <2>2. \/ a = Plain("ok", "empty") /\ (call.op \in ReplayOps => done)
        \/ a = Plain("created", "object")
    BY <1>2, OpsDisjoint DEF Answers
  <2>3. a.items = <<>> /\ a.next = 0 /\ a.status \in {"ok", "created"}
    BY <2>2 DEF Plain, Response
  <2>4. call.reads = "replay" /\ a.status = "ok" => done
    BY <2>2, RowAssumption DEF Plain, Response, TypeOK
  <2> QED
    BY <1>1, <2>1, <2>3, <2>4, BoundAssumption DEF Continues, Listed
<1>3. CASE call.op \in PagedOps
  <2>1. call.op \notin EmptyOps \cup ReplayOps \cup ArrayOps
    BY <1>3, OpsDisjoint
  <2>2. a \in Pages(call) /\ Consistent(a)
    BY <1>3, <2>1 DEF Answers
  <2>3. PICK k \in {n \in 0..PageSize : n < Top /\ (n = 0 => Top = 1)},
             next \in 0..MaxEntries, odd \in Odd(call) :
          a = Response("ok", "page", Below(Top, k), next, odd)
    BY <2>2 DEF Pages
  <2>4. a.items = Below(Top, k) /\ a.next = next /\ a.status = "ok"
    BY <2>3 DEF Response
  <2>5. k \in Nat /\ k < Top /\ (k = 0 => Top = 1)
    BY BoundAssumption
  <2>6. /\ a.items \in Seq(Nat) /\ Len(a.items) = k
        /\ \A i \in 1..k : a.items[i] = Top - i
    BY <1>1, <2>4, <2>5, BelowFacts
  <2>7. next \in IF Top - k > 1 THEN {Top - k}
                 ELSE IF a.items # <<>> THEN {0, Top - k} ELSE {0}
    BY <2>2, <2>4, <2>6 DEF Consistent
  <2>8. /\ next # 0 => next = Top - k
        /\ next = 0 => k = Top - 1
    BY <1>1, <2>5, <2>7
  <2>9. call.reads # "replay"
    BY <2>1, RowAssumption DEF TypeOK
  <2> QED
    BY <1>3, <2>4, <2>5, <2>6, <2>8, <2>9 DEF Continues, Exhausts
<1>4. CASE call.op \in ArrayOps
  <2>1. call.op \notin EmptyOps \cup ReplayOps \cup PagedOps
    BY <1>4, OpsDisjoint
  <2>2. cursor = 0 /\ Top = entries + 1
    BY <2>1 DEF WalkInv, Top
  <2> DEFINE limit == IF call.op \in LimitedOps THEN Min({PageSize, entries}) ELSE entries
  <2>3. PICK odd \in Odd(call) : a = Response("ok", "array", Below(entries + 1, limit), 0, odd)
    BY <1>4, <2>1 DEF Answers
  <2>4. a.items = Below(entries + 1, limit) /\ a.next = 0 /\ a.status = "ok"
    BY <2>3 DEF Response
  <2>5. entries \in Nat /\ limit \in Nat /\ limit <= entries
    BY MinFacts, BoundAssumption DEF TypeOK
  <2>6. call.op \notin LimitedOps => limit = entries
    OBVIOUS
  <2> HIDE DEF limit
  <2>7. /\ a.items \in Seq(Nat) /\ Len(a.items) = limit
        /\ \A i \in 1..limit : a.items[i] = Top - i
    BY <2>2, <2>4, <2>5, BelowFacts
  <2>8. call.reads # "replay"
    BY <2>1, RowAssumption DEF TypeOK
  <2> QED
    BY <2>2, <2>4, <2>5, <2>6, <2>7, <2>8, BoundAssumption DEF Continues, Exhausts, Listed
<1>5. CASE call.op \notin EmptyOps \cup ReplayOps \cup PagedOps \cup ArrayOps
  <2>1. PICK odd \in Odd(call) : a = Response("ok", "object", <<>>, 0, odd)
    BY <1>5 DEF Answers
  <2>2. a.items = <<>> /\ a.next = 0 /\ a.status = "ok"
    BY <2>1 DEF Response
  <2>3. call.reads # "replay"
    BY <1>5, RowAssumption DEF TypeOK
  <2> QED
    BY <1>1, <1>5, <2>2, <2>3, BoundAssumption DEF Continues, Listed
<1> QED
  BY <1>2, <1>3, <1>4, <1>5

\* Answers that carry no list.
LEMMA PlainAnswer ==
  ASSUME TypeOK, NEW status, NEW body
  PROVE  Continues(Plain(status, body), Base) /\ Plain(status, body).status = status
BY BoundAssumption DEF Continues, Plain, Response, Base, TypeOK

\* What the caller has after an answer that continues its walk.
LEMMA Joined ==
  ASSUME TypeOK, WalkInv, outcome # "returned", Continues(answer, Base)
  PROVE  /\ got \o answer.items \in Seq(Nat)
         /\ Len(got \o answer.items) = Len(got) + Len(answer.items)
         /\ Len(got \o answer.items) = start + 1 - (Base - Len(answer.items))
         /\ Len(got \o answer.items) <= start
         /\ \A i \in DOMAIN (got \o answer.items) : (got \o answer.items)[i] = start + 1 - i
<1> DEFINE p == answer.items
           w == got \o p
<1>1. got \in Seq(Nat) /\ p \in Seq(Nat) /\ Len(got) \in Nat /\ Len(p) \in Nat
  BY DEF WalkInv, Continues
<1>2. w \in Seq(Nat) /\ Len(w) = Len(got) + Len(p)
  BY <1>1, ConcatProperties
<1>3. Base \in Nat /\ start \in Nat /\ Len(got) = start + 1 - Base /\ Len(p) < Base
  BY BoundAssumption DEF TypeOK, WalkInv, Continues, Base
<1>4. ASSUME NEW i \in 1..Len(w)
      PROVE  w[i] = start + 1 - i
  <2>1. CASE i <= Len(got)
    <3>1. w[i] = got[i] /\ i \in DOMAIN got
      BY <1>1, <2>1
    <3> QED
      BY <3>1 DEF WalkInv, EachOnceInOrder
  <2>2. CASE i > Len(got)
    <3>1. i - Len(got) \in 1..Len(p)
      BY <1>1, <1>2, <2>2
    <3>2. w[i] = p[i - Len(got)]
      BY <1>1, <1>2, <2>2
    <3>3. p[i - Len(got)] = Base - (i - Len(got))
      BY <3>1 DEF Continues
    <3> QED
      BY <1>1, <1>2, <1>3, <3>2, <3>3
  <2> QED
    BY <1>1, <1>2, <2>1, <2>2
<1> HIDE DEF w
<1>5. DOMAIN w = 1..Len(w)
  BY <1>2
<1>6. \A i \in DOMAIN w : w[i] = start + 1 - i
  BY <1>4, <1>5
<1> HIDE DEF p
<1>7. Len(w) = start + 1 - (Base - Len(p)) /\ Len(w) <= start
  BY ONLY <1>1, <1>2, <1>3
<1>8. w \in Seq(Nat) /\ Len(w) = Len(got) + Len(p)
  BY <1>2
<1> QED
  BY ONLY <1>6, <1>7, <1>8 DEF w, p

-----------------------------------------------------------------------------
(* Steps *)

\* The kinds of steps.
LEMMA StepKinds ==
  ASSUME [Next]_vars
  PROVE  \/ NoToken \/ Send \/ ReceiveRefusal \/ ReceiveNone \/ ReceiveUnreadable
         \/ ReceiveResult \/ ReceivePage \/ GivenUp \/ Stop \/ Repeat
         \/ Serve \/ Refuse \/ ProxyAnswer \/ ServeLate \/ NewEntry
         \/ UNCHANGED vars
BY DEF Next, Receive

\* A call that ends without a result.
Fruitless == NoToken \/ ReceiveRefusal \/ ReceiveNone \/ ReceiveUnreadable \/ GivenUp \/ Stop

\* It leaves everything but the end and, given up, a late request as it was.
LEMMA FruitlessStep ==
  ASSUME TypeOK, Fruitless
  PROVE  /\ outcome = "none" /\ pc' = "ended" /\ answer' = NoAnswer
         /\ outcome' \in {"no_token", "none_returned", "unreadable", "unauthorized", "error",
                          "lost", "stopped"}
         /\ outcome' = "none_returned" =>
              pc = "answered" /\ ~Raises(answer) /\ ReturnsNone(call, answer)
         /\ UNCHANGED <<chosen, tries, cursor, got, entries, stored, done, ghosts>>
         /\ late' \in BOOLEAN
BY DEF Fruitless, NoToken, ReceiveRefusal, ReceiveNone, ReceiveUnreadable, GivenUp, Stop, Ends,
       Raises, server, TypeOK

\* A call that ends keeps the invariant.
LEMMA FruitlessKeeps ==
  ASSUME IInv, Fruitless
  PROVE  IInv'
<1>1. /\ pc' = "ended" /\ answer' = NoAnswer /\ outcome = "none"
      /\ outcome' \in {"no_token", "none_returned", "unreadable", "unauthorized", "error",
                       "lost", "stopped"}
      /\ outcome' = "none_returned" =>
           pc = "answered" /\ ~Raises(answer) /\ ReturnsNone(call, answer)
      /\ UNCHANGED <<call, credentials, wish, tries, cursor, got, entries, stored, done, start,
                    garbled>>
      /\ late' \in BOOLEAN
  BY FruitlessStep DEF IInv, chosen, ghosts
<1>2. TypeOK'
  BY <1>1 DEF IInv, TypeOK
<1>3. WalkInv'
  BY <1>1 DEF IInv, WalkInv, EachOnceInOrder, Base
<1>4. AnswerInv' /\ LastInv' /\ EffectInv'
  BY <1>1 DEF IInv, AnswerInv, LastInv, WalkComplete, EffectInv
<1>5. ReplayInv'
  BY <1>1 DEF IInv, ReplayInv, ReturnsNone
<1> QED
  BY <1>2, <1>3, <1>4, <1>5 DEF IInv

\* An answer on its way is sent by nobody who has ended.
LEMMA Pending ==
  ASSUME TypeOK, pc # "ended"
  PROVE  outcome = "none"
BY DEF TypeOK

\* The last page, or the only answer, is joined to what the caller has.
LEMMA ResultKeeps ==
  ASSUME IInv, ReceiveResult
  PROVE  IInv'
<1> DEFINE w == got \o answer.items
<1>1. /\ pc = "answered" /\ ~Raises(answer)
      /\ ~ReturnsNone(call, answer) /\ (~Walks(call) \/ answer.next = 0)
      /\ got' = w /\ pc' = "ended" /\ outcome' = "returned" /\ answer' = NoAnswer
      /\ UNCHANGED <<call, credentials, wish, tries, cursor, late, entries, stored, done, start,
                    garbled>>
  BY DEF ReceiveResult, Ends, chosen, server, ghosts
<1>2. /\ w \in Seq(Nat) /\ Len(w) <= start
      /\ Len(w) = start + 1 - (Base - Len(answer.items))
      /\ \A i \in DOMAIN w : w[i] = start + 1 - i
  BY <1>1, Pending, Joined DEF IInv, AnswerInv
<1> HIDE DEF w
<1>3. WalkInv'
  BY <1>1, <1>2 DEF IInv, WalkInv, EachOnceInOrder, Base
<1>4. \A i \in DOMAIN w : w[i] \in 1..MaxEntries
  <2>1. start \in 0..MaxEntries /\ MaxEntries \in Nat /\ Len(w) \in Nat
    BY <1>2, BoundAssumption DEF IInv, TypeOK
  <2>2. \A i \in DOMAIN w : i \in 1..start
    BY <1>2, <2>1
  <2> QED
    BY <1>2, <2>1, <2>2
<1>5. TypeOK'
  BY <1>1, <1>4 DEF IInv, TypeOK
<1>6. WalkComplete'
  <2> SUFFICES ASSUME ~garbled, Listed, call.reads # "first_page"
               PROVE  Len(w) = start
    BY <1>1 DEF WalkComplete, Listed
  <2>1. Exhausts(answer, Base)
    BY <1>1 DEF IInv, LastInv
  <2>2. ~(call.op \in PagedOps /\ answer.next # 0)
    BY <1>1, RowAssumption DEF IInv, TypeOK
  <2>3. Len(answer.items) = Base - 1
    BY <2>1, <2>2 DEF Exhausts
  <2>4. Base \in Nat /\ start \in Nat
    BY BoundAssumption DEF IInv, TypeOK, Base
  <2> QED
    BY ONLY <1>2, <2>3, <2>4
<1>7. AnswerInv' /\ LastInv'
  BY <1>1, <1>6 DEF AnswerInv, LastInv
<1>8. EffectInv'
  BY <1>1 DEF IInv, EffectInv
<1>9. ReplayInv'
  BY <1>1 DEF IInv, ReplayInv
<1> QED
  BY <1>3, <1>5, <1>7, <1>8, <1>9 DEF IInv

\* A page with a cursor is joined, and the walk goes on from there.
LEMMA PageKeeps ==
  ASSUME IInv, ReceivePage
  PROVE  IInv'
<1> DEFINE w == got \o answer.items
<1>1. /\ pc = "answered" /\ Walks(call) /\ answer.next # 0
      /\ got' = w /\ cursor' = answer.next /\ pc' = "ready" /\ answer' = NoAnswer
      /\ UNCHANGED <<call, credentials, wish, outcome, tries, late, entries, stored, done, start,
                    garbled>>
  BY DEF ReceivePage, chosen, server, ghosts
<1>2. /\ w \in Seq(Nat) /\ Len(w) <= start
      /\ Len(w) = start + 1 - (Base - Len(answer.items))
      /\ \A i \in DOMAIN w : w[i] = start + 1 - i
  BY <1>1, Pending, Joined DEF IInv, AnswerInv
<1>3. outcome = "none"
  BY <1>1, Pending DEF IInv
<1>4. /\ answer.next \in 0..MaxEntries /\ answer.next = Base - Len(answer.items)
      /\ call.op \in PagedOps
  BY <1>1 DEF IInv, AnswerInv, Continues
<1>5. start \in 0..MaxEntries /\ MaxEntries \in Nat
  BY BoundAssumption DEF IInv, TypeOK
<1> HIDE DEF w
<1>6. \A i \in DOMAIN w : w[i] \in 1..MaxEntries
  <2>1. \A i \in DOMAIN w : i \in 1..start
    BY <1>2, <1>5
  <2> QED
    BY <1>2, <1>5, <2>1
<1>7. TypeOK'
  BY <1>1, <1>4, <1>6 DEF IInv, TypeOK
<1>8. WalkInv'
  BY <1>1, <1>2, <1>4 DEF WalkInv, EachOnceInOrder, Base
<1>9. AnswerInv' /\ LastInv' /\ EffectInv'
  BY <1>1, <1>3 DEF IInv, AnswerInv, LastInv, WalkComplete, EffectInv
<1>10. ReplayInv'
  BY <1>1, <1>3 DEF ReplayInv, Walks
<1> QED
  BY <1>7, <1>8, <1>9, <1>10 DEF IInv

\* A request that is served is answered where the walk is, or where it begins.
LEMMA ServeKeeps ==
  ASSUME IInv, Serve
  PROVE  IInv'
<1>1. /\ pc = "sent" /\ pc' = "answered" /\ answer' \in Answers(call)
      /\ done' = TRUE /\ stored' = Stored(stored, Body(call.sends, wish))
      /\ start' = IF cursor = 0 THEN entries ELSE start
      /\ UNCHANGED <<call, credentials, wish, outcome, tries, cursor, got, late, entries, garbled>>
  BY DEF Serve, Effect, chosen
<1>2. outcome = "none"
  BY <1>1, Pending DEF IInv
<1>3. Base' = Top
  BY <1>1 DEF Base, Top
<1>4. /\ answer'.status \in {"ok", "created"}
      /\ Continues(answer', Top)
      /\ Listed => Exhausts(answer', Top)
      /\ call.reads = "replay" /\ answer'.status = "ok" => done
  BY <1>1, ServedAnswer DEF IInv
<1>5. answer' # NoAnswer
  BY <1>4 DEF NoAnswer, Response
<1>6. TypeOK'
  <2>1. stored' \in {"old", "null", "new"}
    BY <1>1 DEF IInv, TypeOK, Stored, Body
  <2> QED
    BY <1>1, <1>2, <1>5, <2>1 DEF IInv, TypeOK
<1>7. WalkInv'
  <2>1. CASE cursor = 0
    <3>1. Len(got) = 0 /\ entries \in Nat
      BY <1>2, <2>1, BoundAssumption DEF IInv, WalkInv, TypeOK, Base
    <3>2. got = <<>>
      BY <3>1 DEF IInv, WalkInv
    <3> QED
      BY <1>1, <2>1, <3>1, <3>2 DEF WalkInv, EachOnceInOrder, Base
  <2>2. CASE cursor # 0
    BY <1>1, <2>2 DEF IInv, WalkInv, EachOnceInOrder, Base
  <2> QED
    BY <2>1, <2>2
<1>8. AnswerInv'
  BY <1>1, <1>3, <1>4 DEF AnswerInv, Continues
<1>9. LastInv'
  BY <1>1, <1>2, <1>3, <1>4 DEF LastInv, WalkComplete, Listed, Exhausts
<1>10. EffectInv'
  BY <1>1, <1>2 DEF IInv, EffectInv, Stored
<1>11. ReplayInv'
  BY <1>1, <1>2, <1>4 DEF IInv, ReplayInv, TypeOK
<1> QED
  BY <1>6, <1>7, <1>8, <1>9, <1>10, <1>11 DEF IInv

\* A refusal and an answer of the proxy have no list.
LEMMA PlainKeeps ==
  ASSUME IInv, Refuse \/ ProxyAnswer
  PROVE  IInv'
<1>1. /\ pc = "sent" /\ pc' = "answered" /\ garbled' \in BOOLEAN
      /\ UNCHANGED <<call, credentials, wish, outcome, tries, cursor, got, late, entries, stored,
                    done, start>>
  BY DEF Refuse, ProxyAnswer, chosen, server, ghosts, IInv, TypeOK
<1>2. \/ garbled' = TRUE /\ \E body \in ProxyBodies : answer' = Plain("ok", body)
      \/ \E status \in {"error", "unauthorized"} : answer' = Plain(status, "other")
  BY DEF Refuse, ProxyAnswer, ProxyAnswers
<1>3. /\ Continues(answer', Base)
      /\ answer'.status \in {"error", "unauthorized"} \/ (garbled' /\ answer'.status = "ok")
  BY <1>2, PlainAnswer DEF IInv
<1>4. outcome = "none"
  BY <1>1, Pending DEF IInv
<1>5. TypeOK'
  BY <1>1, <1>3, <1>4 DEF IInv, TypeOK, NoAnswer, Response
<1>6. WalkInv'
  BY <1>1 DEF IInv, WalkInv, EachOnceInOrder, Base
<1>7. AnswerInv'
  BY <1>1, <1>3 DEF AnswerInv, Continues, Base
<1>8. LastInv' /\ EffectInv'
  BY <1>1, <1>3, <1>4 DEF IInv, LastInv, WalkComplete, EffectInv, Raises
<1>9. ReplayInv'
  BY <1>1, <1>3, <1>4 DEF IInv, ReplayInv
<1> QED
  BY <1>5, <1>6, <1>7, <1>8, <1>9 DEF IInv

\* A try that begins keeps cursor and entries of the one before, or begins anew.
LEMMA RepeatKeeps ==
  ASSUME IInv, Repeat
  PROVE  IInv'
<1>1. /\ pc = "ended" /\ outcome \in {"lost", "error", "unreadable"} /\ tries < MaxTries
      /\ tries' = tries + 1 /\ pc' = "ready" /\ outcome' = "none" /\ garbled' = FALSE
      /\ UNCHANGED <<call, credentials, wish, answer, late, entries, stored, done, start>>
      /\ UNCHANGED <<cursor, got>> \/ (cursor' = 0 /\ got' = <<>>)
  BY DEF Repeat, chosen, server
<1>2. TypeOK'
  <2>1. tries' \in 1..MaxTries
    BY <1>1, BoundAssumption DEF IInv, TypeOK
  <2>2. answer' = NoAnswer
    BY <1>1 DEF IInv, TypeOK, NoAnswer
  <2>3. cursor' \in 0..MaxEntries /\ \A i \in DOMAIN got' : got'[i] \in 1..MaxEntries
    BY <1>1, BoundAssumption DEF IInv, TypeOK
  <2> QED
    BY <1>1, <2>1, <2>2, <2>3 DEF IInv, TypeOK
<1>3. WalkInv'
  <2>1. CASE UNCHANGED <<cursor, got>>
    BY <1>1, <2>1 DEF IInv, WalkInv, EachOnceInOrder, Base
  <2>2. CASE cursor' = 0 /\ got' = <<>>
    <3>1. start' \in Nat
      BY <1>1, BoundAssumption DEF IInv, TypeOK
    <3>2. got' \in Seq(Nat) /\ Len(got') = 0 /\ DOMAIN got' = {}
      BY <2>2
    <3>3. ASSUME NEW n \in Nat
          PROVE  0 <= n /\ n + 1 - (n + 1) = 0
      OBVIOUS
    <3>4. Base' = start' + 1 /\ cursor' = 0
      BY <2>2 DEF Base
    <3>5. EachOnceInOrder'
      BY <3>2 DEF EachOnceInOrder
    <3> QED
      BY ONLY <3>1, <3>2, <3>3, <3>4, <3>5 DEF WalkInv
  <2> QED
    BY <1>1, <2>1, <2>2
<1>4. AnswerInv' /\ LastInv' /\ EffectInv'
  BY <1>1 DEF IInv, AnswerInv, LastInv, WalkComplete, EffectInv
<1>5. ReplayInv'
  BY <1>1, BoundAssumption DEF IInv, ReplayInv, TypeOK
<1> QED
  BY <1>2, <1>3, <1>4, <1>5 DEF IInv

\* A late request does once more what the call asks, before the next try if at all.
LEMMA LateKeeps ==
  ASSUME IInv, ServeLate
  PROVE  IInv'
<1>1. /\ late /\ late' = FALSE /\ done' = TRUE
      /\ stored' = Stored(stored, Body(call.sends, wish))
      /\ UNCHANGED <<call, credentials, wish, pc, outcome, tries, cursor, got, answer, entries,
                    start, garbled>>
  BY DEF ServeLate, Effect, chosen, caller, ghosts
<1>2. TypeOK'
  <2>1. stored' \in {"old", "null", "new"}
    BY <1>1 DEF IInv, TypeOK, Stored, Body
  <2> QED
    BY <1>1, <2>1 DEF IInv, TypeOK
<1>3. WalkInv' /\ AnswerInv'
  BY <1>1 DEF IInv, WalkInv, EachOnceInOrder, Base, AnswerInv, Continues
<1>4. LastInv'
  BY <1>1 DEF IInv, LastInv, WalkComplete, Listed, Exhausts, Base
<1>5. EffectInv'
  BY <1>1 DEF IInv, EffectInv, Stored
<1>6. ReplayInv'
  BY <1>1 DEF IInv, ReplayInv
<1> QED
  BY <1>2, <1>3, <1>4, <1>5, <1>6 DEF IInv

\* Sending and the growth of the list change nothing the invariant speaks of.
LEMMA QuietKeeps ==
  ASSUME IInv, Send \/ NewEntry \/ UNCHANGED vars
  PROVE  IInv'
<1>1. /\ UNCHANGED <<call, credentials, wish, outcome, tries, cursor, got, answer, late, stored,
                    done, start, garbled>>
      /\ (pc = "ready" /\ pc' = "sent") \/ UNCHANGED pc
      /\ entries' = entries \/ (entries < MaxEntries /\ entries' = entries + 1)
  BY DEF Send, NewEntry, vars, chosen, caller, server, ghosts
<1>2. TypeOK'
  BY <1>1, BoundAssumption DEF IInv, TypeOK
<1>3. WalkInv' /\ AnswerInv'
  BY <1>1 DEF IInv, WalkInv, EachOnceInOrder, Base, AnswerInv, Continues
<1>4. LastInv' /\ EffectInv'
  BY <1>1 DEF IInv, LastInv, WalkComplete, Listed, Exhausts, Base, EffectInv
<1>5. ReplayInv'
  BY <1>1 DEF IInv, ReplayInv
<1> QED
  BY <1>2, <1>3, <1>4, <1>5 DEF IInv

-----------------------------------------------------------------------------
(* Calls *)

\* The inductive invariant of a call.
THEOREM Invariance == Spec => []IInv
<1>1. Init => IInv
  <2> SUFFICES ASSUME Init
               PROVE  IInv
    OBVIOUS
  <2>1. TypeOK
    <3>1. /\ call \in Calls /\ credentials \in BOOLEAN /\ wish \in {"unset", "null", "new"}
          /\ entries \in 0..MaxEntries /\ 0 \in 0..MaxEntries /\ tries \in 1..MaxTries
      BY BoundAssumption DEF Init
    <3>2. DOMAIN got = {}
      BY DEF Init
    <3> QED
      BY <3>1, <3>2 DEF Init, TypeOK
  <2>2. WalkInv
    BY DEF Init, WalkInv, EachOnceInOrder, Base
  <2> QED
    BY <2>1, <2>2 DEF Init, IInv, AnswerInv, LastInv, WalkComplete, EffectInv, ReplayInv
<1>2. IInv /\ [Next]_vars => IInv'
  BY StepKinds, FruitlessKeeps, ResultKeeps, PageKeeps, ServeKeeps, PlainKeeps, RepeatKeeps,
     LateKeeps, QuietKeeps DEF Fruitless
<1> QED
  BY <1>1, <1>2, PTL DEF Spec

\* What the server sends later leaves the calls as they are: ServerEvents implements
\* ClientCalls.
THEOREM EventsImplementCalls == EventsSpec => Spec
<1>1. EventsInit => Init
  BY DEF EventsInit
<1>2. [EventsNext]_<<vars, events>> => [Next]_vars
  BY DEF EventsNext, Next, Receive, ServeRotation, ServeLateRotation, ReceiveSecret, SendCallback,
         Verify, Tick, CallMcpTool, CallMarketplaceTool
<1> QED
  BY <1>1, <1>2, PTL DEF EventsSpec, Spec

\* The variables keep their types, answer and outcome their stages.
THEOREM TypeCorrect == EventsSpec => []TypeOK
BY Invariance, EventsImplementCalls, PTL DEF IInv

\* A walk yields each entry once and in order.
THEOREM OrderCorrect == EventsSpec => []EachOnceInOrder
BY Invariance, EventsImplementCalls, PTL DEF IInv, WalkInv

\* A walk that ends by itself has yielded all entries there were when it began.
THEOREM CompleteCorrect == EventsSpec => []WalkComplete
BY Invariance, EventsImplementCalls, PTL DEF IInv, LastInv

\* An update that returns has done what its caller wished.
THEOREM UpdateCorrect == EventsSpec => []UpdateHonoured
<1>1. IInv => UpdateHonoured
  BY RowAssumption DEF IInv, TypeOK, EffectInv, UpdateHonoured, Stored, Body
<1> QED
  BY <1>1, Invariance, EventsImplementCalls, PTL

\* Who is told "already submitted" had submitted before.
THEOREM ReplayCorrect == EventsSpec => []ReplayOnlyToRepeat
<1>1. IInv => ReplayOnlyToRepeat
  BY DEF IInv, ReplayInv, ReplayOnlyToRepeat
<1> QED
  BY <1>1, Invariance, EventsImplementCalls, PTL

-----------------------------------------------------------------------------
(* What is read, and with whose token *)

\* What a proxy answers is read by a call that reads anything or as an empty list, and
\* it is no page with a cursor.
LEMMA ProxyAnswerRead ==
  ASSUME TypeOK, answer \in ProxyAnswers
  PROVE  /\ Readable(call, answer) =>
              ReadsAnything(call) \/ answer.body \in EmptyList(call.reads)
         /\ answer.next = 0
<1>1. /\ answer.body \in ProxyBodies /\ answer.next = 0
      /\ answer = Plain("ok", answer.body)
  BY DEF ProxyAnswers, Plain, Response
<1>2. call.reads \in Readings
  BY CallsAssumption DEF TypeOK
<1>3. answer.body \in Takes[call.reads] =>
        \/ call.reads \in {"nothing", "items", "tools", "schedule_page", "json"}
        \/ answer.body \in EmptyList(call.reads)
  <2>1. answer.body \notin {"object", "page", "array"}
    BY <1>1 DEF ProxyBodies
  <2>2. CASE call.reads \in {"nothing", "items", "tools", "schedule_page", "json"}
    BY <2>2
  <2>3. CASE call.reads \in {"model", "replay", "page", "first_page"}
    BY <2>1, <2>3 DEF Takes
  <2>4. CASE call.reads = "array"
    BY <2>1, <2>4 DEF Takes, EmptyList
  <2>5. CASE call.reads = "trigger_page"
    BY <2>1, <2>5 DEF Takes, EmptyList
  <2> QED
    BY <1>2, <2>2, <2>3, <2>4, <2>5 DEF Readings
<1> QED
  BY <1>1, <1>3 DEF Readable, ReturnsNone, ReadsAnything

\* A step reads or keeps what a proxy answered as GarbledInv says.
LEMMA GarbledKept == TypeOK /\ GarbledInv /\ [Next]_vars => GarbledInv'
<1> SUFFICES ASSUME TypeOK, GarbledInv, [Next]_vars
             PROVE  GarbledInv'
  OBVIOUS
<1>1. CASE Fruitless \/ ReceiveResult
  <2>1. pc' = "ended"
    BY <1>1, FruitlessStep DEF ReceiveResult, Ends
  <2> QED
    BY <2>1 DEF GarbledInv
<1>2. CASE ReceivePage
  <2>1. /\ pc = "answered" /\ answer.next # 0 /\ UNCHANGED garbled
    BY <1>2 DEF ReceivePage, ghosts
  <2>2. ~garbled
    BY <2>1, ProxyAnswerRead DEF GarbledInv
  <2> QED
    BY <2>1, <2>2 DEF GarbledInv
<1>3. CASE Serve \/ Refuse \/ ProxyAnswer
  <2>1. pc = "sent" /\ pc' = "answered"
    BY <1>3 DEF Serve, Refuse, ProxyAnswer
  <2>2. ~garbled
    BY <2>1 DEF GarbledInv
  <2>3. garbled' => answer' \in ProxyAnswers
    BY <1>3, <2>2 DEF Serve, Refuse, ProxyAnswer, ghosts
  <2> QED
    BY <2>1, <2>3 DEF GarbledInv
<1>4. CASE Repeat
  BY <1>4 DEF Repeat, GarbledInv
<1>5. CASE Send
  <2>1. pc = "ready" /\ UNCHANGED garbled
    BY <1>5 DEF Send, ghosts
  <2> QED
    BY <2>1 DEF GarbledInv
<1>6. CASE ServeLate \/ NewEntry \/ UNCHANGED vars
  <2>1. UNCHANGED <<pc, answer, garbled>>
    BY <1>6 DEF ServeLate, NewEntry, vars, caller, ghosts
  <2> QED
    BY <2>1 DEF GarbledInv
<1> QED
  BY <1>1, <1>2, <1>3, <1>4, <1>5, <1>6, StepKinds DEF Fruitless

\* A step that makes a result of a proxy's answer belongs to a call that reads anything,
\* or the answer is an empty list.
LEMMA GarbledRead ==
  ASSUME TypeOK, GarbledInv, [Next]_vars,
         pc = "answered", outcome' \in {"returned", "none_returned"}, garbled
  PROVE  ReadsAnything(call) \/ answer.body \in EmptyList(call.reads)
<1>1. answer \in ProxyAnswers
  BY DEF GarbledInv
<1>2. outcome = "none"
  BY Pending
<1>3. CASE Fruitless
  <2>1. ReturnsNone(call, answer)
    BY <1>3, FruitlessStep
  <2> QED
    BY <2>1 DEF ReturnsNone, ReadsAnything
<1>4. CASE ReceiveResult
  <2>1. Readable(call, answer)
    BY <1>4 DEF ReceiveResult
  <2> QED
    BY <1>1, <2>1, ProxyAnswerRead
<1>5. CASE ReceivePage \/ Send \/ Repeat \/ Serve \/ Refuse \/ ProxyAnswer \/ ServeLate
           \/ NewEntry \/ UNCHANGED vars
  <2>1. outcome' = "none"
    BY <1>2, <1>5 DEF ReceivePage, Send, Repeat, Serve, Refuse, ProxyAnswer, ServeLate, NewEntry,
                      vars, caller
  <2> QED
    BY <2>1
<1> QED
  BY <1>3, <1>4, <1>5, StepKinds DEF Fruitless

\* Of all calls only those that read anything take an answer that is not the API's for
\* theirs, but for an empty list.
THEOREM GarbledCorrect == EventsSpec => GarbledIsNoticed
<1>1. Init => GarbledInv
  BY DEF Init, GarbledInv
<1>2. TypeOK /\ GarbledInv /\ [Next]_vars => GarbledInv'
  BY GarbledKept
<1>3. Spec => []TypeOK
  BY Invariance, PTL DEF IInv
<1>4. TypeOK /\ GarbledInv /\ [Next]_vars =>
        [pc = "answered" /\ outcome' \in {"returned", "none_returned"} /\ garbled
           => ReadsAnything(call) \/ answer.body \in EmptyList(call.reads)]_vars
  BY GarbledRead
<1> QED
  BY <1>1, <1>2, <1>3, <1>4, EventsImplementCalls, PTL DEF Spec, GarbledIsNoticed

\* What the API or a proxy answers has the status of neither refusal.
LEMMA StatusServed ==
  ASSUME TypeOK, WalkInv, Serve \/ ProxyAnswer
  PROVE  answer'.status \in {"ok", "created"}
<1>1. CASE Serve
  <2>1. answer' \in Answers(call)
    BY <1>1 DEF Serve
  <2> QED
    BY <2>1, ServedAnswer
<1>2. CASE ProxyAnswer
  BY <1>2 DEF ProxyAnswer, ProxyAnswers, Plain, Response
<1> QED
  BY <1>1, <1>2

\* Only the answer to a request that is not authorized says so.
LEMMA TokenKept == TypeOK /\ WalkInv /\ TokenInv /\ [Next]_vars => TokenInv'
<1> SUFFICES ASSUME TypeOK, WalkInv, TokenInv, [Next]_vars
             PROVE  TokenInv'
  OBVIOUS
<1>1. UNCHANGED call
  BY StepKinds, FruitlessStep
     DEF Fruitless, ReceiveResult, ReceivePage, Send, Repeat, Serve, Refuse, ProxyAnswer, ServeLate,
         NewEntry, vars, chosen
<1>2. NoAnswer.status = "none"
  BY DEF NoAnswer, Response
<1>3. CASE Fruitless
  <2>1. answer' = NoAnswer
    BY <1>3, FruitlessStep
  <2>2. outcome' = "unauthorized" => answer.status = "unauthorized"
    BY <1>3 DEF Fruitless, NoToken, ReceiveRefusal, ReceiveNone, ReceiveUnreadable, GivenUp, Stop,
                Ends
  <2>3. outcome' = "no_token" => call.token
    BY <1>3 DEF Fruitless, NoToken, ReceiveRefusal, Raises, ReceiveNone, ReceiveUnreadable, GivenUp,
                Stop, Ends
  <2> QED
    BY <1>1, <1>2, <2>1, <2>2, <2>3 DEF TokenInv, Authorized
<1>4. CASE ReceiveResult \/ ReceivePage
  <2>1. answer' = NoAnswer /\ outcome' \in {"returned", outcome}
    BY <1>4 DEF ReceiveResult, ReceivePage, Ends
  <2> QED
    BY <1>1, <1>2, <2>1 DEF TokenInv, Authorized
<1>5. CASE Serve \/ ProxyAnswer
  <2>1. answer'.status \in {"ok", "created"} /\ UNCHANGED outcome
    BY <1>5, StatusServed DEF Serve, ProxyAnswer
  <2> QED
    BY <1>1, <2>1 DEF TokenInv, Authorized
<1>6. CASE Refuse
  <2>1. answer'.status = "unauthorized" => ~Authorized
    BY <1>6 DEF Refuse, Plain, Response
  <2>2. UNCHANGED outcome
    BY <1>6 DEF Refuse
  <2> QED
    BY <1>1, <2>1, <2>2 DEF TokenInv, Authorized
<1>7. CASE Repeat
  <2>1. outcome' = "none" /\ UNCHANGED answer
    BY <1>7 DEF Repeat
  <2> QED
    BY <1>1, <2>1 DEF TokenInv, Authorized
<1>8. CASE Send \/ ServeLate \/ NewEntry \/ UNCHANGED vars
  <2>1. UNCHANGED <<answer, outcome>>
    BY <1>8 DEF Send, ServeLate, NewEntry, vars, caller
  <2> QED
    BY <1>1, <2>1 DEF TokenInv, Authorized
<1> QED
  BY <1>3, <1>4, <1>5, <1>6, <1>7, <1>8, StepKinds DEF Fruitless

\* A call gets a token unless its operation is public, and but for NeedlessToken only then.
TokenRow(c) ==
  /\ c.token \/ c.op \in PublicOps
  /\ c.token => c.op \notin PublicOps \/ c.name \in NeedlessToken

LEMMA TokenRows == \A c \in SdkCalls : TokenRow(c)
<1>1. \A c \in A2aCalls : TokenRow(c)
  BY DEF A2aCalls, TokenRow, PublicOps, NeedlessToken, Call, Ask, Open, Submit
<1>2. \A c \in AdminDelegationCalls : TokenRow(c)
  BY DEF AdminDelegationCalls, TokenRow, PublicOps, NeedlessToken, Call, Ask, Open, Submit
<1>3. \A c \in AdminBillingCalls : TokenRow(c)
  BY DEF AdminBillingCalls, TokenRow, PublicOps, NeedlessToken, Call, Ask, Open, Submit
<1>4. \A c \in AdminAccountCalls : TokenRow(c)
  BY DEF AdminAccountCalls, TokenRow, PublicOps, NeedlessToken, Call, Ask, Open, Submit
<1>5. \A c \in AdminMarketplaceCalls : TokenRow(c)
  BY DEF AdminMarketplaceCalls, TokenRow, PublicOps, NeedlessToken, Call, Ask, Open, Submit
<1>6. \A c \in AdminDataCalls : TokenRow(c)
  BY DEF AdminDataCalls, TokenRow, PublicOps, NeedlessToken, Call, Ask, Open, Submit
<1>7. \A c \in AdminUsageCalls : TokenRow(c)
  BY DEF AdminUsageCalls, TokenRow, PublicOps, NeedlessToken, Call, Ask, Open, Submit
<1>8. \A c \in AgentCalls : TokenRow(c)
  BY DEF AgentCalls, TokenRow, PublicOps, NeedlessToken, Call, Ask, Open, Submit
<1>9. \A c \in AccountCalls : TokenRow(c)
  BY DEF AccountCalls, TokenRow, PublicOps, NeedlessToken, Call, Ask, Open, Submit
<1>10. \A c \in OrgCalls : TokenRow(c)
  BY DEF OrgCalls, TokenRow, PublicOps, NeedlessToken, Call, Ask, Open, Submit
<1>11. \A c \in BillingCalls : TokenRow(c)
  BY DEF BillingCalls, TokenRow, PublicOps, NeedlessToken, Call, Ask, Open, Submit
<1>12. \A c \in EventTriggerCalls : TokenRow(c)
  BY DEF EventTriggerCalls, TokenRow, PublicOps, NeedlessToken, Call, Ask, Open, Submit
<1>13. \A c \in LabelingCalls : TokenRow(c)
  BY DEF LabelingCalls, TokenRow, PublicOps, NeedlessToken, Call, Ask, Open, Submit
<1>14. \A c \in LlmCalls : TokenRow(c)
  BY DEF LlmCalls, TokenRow, PublicOps, NeedlessToken, Call, Ask, Open, Submit
<1>15. \A c \in RegistrationCalls : TokenRow(c)
  BY DEF RegistrationCalls, TokenRow, PublicOps, NeedlessToken, Call, Ask, Open, Submit
<1>16. \A c \in CatalogCalls : TokenRow(c)
  BY DEF CatalogCalls, TokenRow, PublicOps, NeedlessToken, Call, Ask, Open, Submit
<1>17. \A c \in AuthorCalls : TokenRow(c)
  BY DEF AuthorCalls, TokenRow, PublicOps, NeedlessToken, Call, Ask, Open, Submit
<1>18. \A c \in SubscriptionCalls : TokenRow(c)
  BY DEF SubscriptionCalls, TokenRow, PublicOps, NeedlessToken, Call, Ask, Open, Submit
<1>19. \A c \in McpCalls : TokenRow(c)
  BY DEF McpCalls, TokenRow, PublicOps, NeedlessToken, Call, Ask, Open, Submit
<1>20. \A c \in MemoryCalls : TokenRow(c)
  BY DEF MemoryCalls, TokenRow, PublicOps, NeedlessToken, Call, Ask, Open, Submit
<1>21. \A c \in ScheduleCalls : TokenRow(c)
  BY DEF ScheduleCalls, TokenRow, PublicOps, NeedlessToken, Call, Ask, Open, Submit
<1>22. \A c \in ScorecardCalls : TokenRow(c)
  BY DEF ScorecardCalls, TokenRow, PublicOps, NeedlessToken, Call, Ask, Open, Submit
<1>23. \A c \in ToolCalls : TokenRow(c)
  BY DEF ToolCalls, TokenRow, PublicOps, NeedlessToken, Call, Ask, Open, Submit
<1>24. \A c \in UsageCalls : TokenRow(c)
  BY DEF UsageCalls, TokenRow, PublicOps, NeedlessToken, Call, Ask, Open, Submit
<1>25. \A c \in WalletCalls : TokenRow(c)
  BY DEF WalletCalls, TokenRow, PublicOps, NeedlessToken, Call, Ask, Open, Submit
<1> QED
  BY <1>1, <1>2, <1>3, <1>4, <1>5, <1>6, <1>7, <1>8, <1>9, <1>10, <1>11, <1>12, <1>13,
     <1>14, <1>15, <1>16, <1>17, <1>18, <1>19, <1>20, <1>21, <1>22, <1>23, <1>24, <1>25 DEF SdkCalls

\* A call reads a body of the kind that its operation answers with.
BodyRow(c) ==
  \/ c.reads = "nothing"
  \/ c.op \in ReplayOps /\ c.reads = "replay"
  \/ c.op \in PagedOps /\ "page" \in Takes[c.reads]
  \/ c.op \in ArrayOps /\ "array" \in Takes[c.reads]
  \/ /\ c.op \notin EmptyOps \cup ReplayOps \cup PagedOps \cup ArrayOps
     /\ "object" \in Takes[c.reads]

LEMMA BodyRows == \A c \in SdkCalls : BodyRow(c)
<1>1. \A c \in A2aCalls : BodyRow(c)
  BY DEF A2aCalls, BodyRow, Takes, ApiBodies, EmptyOps, ReplayOps, PagedOps, ArrayOps,
         Call, Ask, Open, Submit
<1>2. \A c \in AdminDelegationCalls : BodyRow(c)
  BY DEF AdminDelegationCalls, BodyRow, Takes, EmptyOps, ReplayOps, PagedOps, ArrayOps,
         Call, Ask, Open, Submit
<1>3. \A c \in AdminBillingCalls : BodyRow(c)
  BY DEF AdminBillingCalls, BodyRow, Takes, EmptyOps, ReplayOps, PagedOps, ArrayOps,
         Call, Ask, Open, Submit
<1>4. \A c \in AdminAccountCalls : BodyRow(c)
  BY DEF AdminAccountCalls, BodyRow, Takes, EmptyOps, ReplayOps, PagedOps, ArrayOps,
         Call, Ask, Open, Submit
<1>5. \A c \in AdminMarketplaceCalls : BodyRow(c)
  BY DEF AdminMarketplaceCalls, BodyRow, Takes, EmptyOps, ReplayOps, PagedOps, ArrayOps,
         Call, Ask, Open, Submit
<1>6. \A c \in AdminDataCalls : BodyRow(c)
  BY DEF AdminDataCalls, BodyRow, Takes, EmptyOps, ReplayOps, PagedOps, ArrayOps,
         Call, Ask, Open, Submit
<1>7. \A c \in AdminUsageCalls : BodyRow(c)
  BY DEF AdminUsageCalls, BodyRow, Takes, EmptyOps, ReplayOps, PagedOps, ArrayOps,
         Call, Ask, Open, Submit
<1>8. \A c \in AgentCalls : BodyRow(c)
  BY DEF AgentCalls, BodyRow, Takes, EmptyOps, ReplayOps, PagedOps, ArrayOps,
         Call, Ask, Open, Submit
<1>9. \A c \in AccountCalls : BodyRow(c)
  BY DEF AccountCalls, BodyRow, Takes, EmptyOps, ReplayOps, PagedOps, ArrayOps,
         Call, Ask, Open, Submit
<1>10. \A c \in OrgCalls : BodyRow(c)
  BY DEF OrgCalls, BodyRow, Takes, EmptyOps, ReplayOps, PagedOps, ArrayOps,
         Call, Ask, Open, Submit
<1>11. \A c \in BillingCalls : BodyRow(c)
  BY DEF BillingCalls, BodyRow, Takes, EmptyOps, ReplayOps, PagedOps, ArrayOps,
         Call, Ask, Open, Submit
<1>12. \A c \in EventTriggerCalls : BodyRow(c)
  BY DEF EventTriggerCalls, BodyRow, Takes, EmptyOps, ReplayOps, PagedOps, ArrayOps,
         Call, Ask, Open, Submit
<1>13. \A c \in LabelingCalls : BodyRow(c)
  BY DEF LabelingCalls, BodyRow, Takes, EmptyOps, ReplayOps, PagedOps, ArrayOps,
         Call, Ask, Open, Submit
<1>14. \A c \in LlmCalls : BodyRow(c)
  BY DEF LlmCalls, BodyRow, Takes, EmptyOps, ReplayOps, PagedOps, ArrayOps,
         Call, Ask, Open, Submit
<1>15. \A c \in RegistrationCalls : BodyRow(c)
  BY DEF RegistrationCalls, BodyRow, Takes, EmptyOps, ReplayOps, PagedOps, ArrayOps,
         Call, Ask, Open, Submit
<1>16. \A c \in CatalogCalls : BodyRow(c)
  BY DEF CatalogCalls, BodyRow, Takes, EmptyOps, ReplayOps, PagedOps, ArrayOps,
         Call, Ask, Open, Submit
<1>17. \A c \in AuthorCalls : BodyRow(c)
  BY DEF AuthorCalls, BodyRow, Takes, EmptyOps, ReplayOps, PagedOps, ArrayOps,
         Call, Ask, Open, Submit
<1>18. \A c \in SubscriptionCalls : BodyRow(c)
  BY DEF SubscriptionCalls, BodyRow, Takes, EmptyOps, ReplayOps, PagedOps, ArrayOps,
         Call, Ask, Open, Submit
<1>19. \A c \in McpCalls : BodyRow(c)
  BY DEF McpCalls, BodyRow, Takes, EmptyOps, ReplayOps, PagedOps, ArrayOps,
         Call, Ask, Open, Submit
<1>20. \A c \in MemoryCalls : BodyRow(c)
  BY DEF MemoryCalls, BodyRow, Takes, EmptyOps, ReplayOps, PagedOps, ArrayOps,
         Call, Ask, Open, Submit
<1>21. \A c \in ScheduleCalls : BodyRow(c)
  BY DEF ScheduleCalls, BodyRow, Takes, EmptyOps, ReplayOps, PagedOps, ArrayOps,
         Call, Ask, Open, Submit
<1>22. \A c \in ScorecardCalls : BodyRow(c)
  BY DEF ScorecardCalls, BodyRow, Takes, EmptyOps, ReplayOps, PagedOps, ArrayOps,
         Call, Ask, Open, Submit
<1>23. \A c \in ToolCalls : BodyRow(c)
  BY DEF ToolCalls, BodyRow, Takes, EmptyOps, ReplayOps, PagedOps, ArrayOps,
         Call, Ask, Open, Submit
<1>24. \A c \in UsageCalls : BodyRow(c)
  BY DEF UsageCalls, BodyRow, Takes, EmptyOps, ReplayOps, PagedOps, ArrayOps,
         Call, Ask, Open, Submit
<1>25. \A c \in WalletCalls : BodyRow(c)
  BY DEF WalletCalls, BodyRow, Takes, EmptyOps, ReplayOps, PagedOps, ArrayOps,
         Call, Ask, Open, Submit
<1> QED
  BY <1>1, <1>2, <1>3, <1>4, <1>5, <1>6, <1>7, <1>8, <1>9, <1>10, <1>11, <1>12, <1>13,
     <1>14, <1>15, <1>16, <1>17, <1>18, <1>19, <1>20, <1>21, <1>22, <1>23, <1>24, <1>25 DEF SdkCalls

\* A client without credentials makes every public call of the SDK but three, and none of
\* its calls is refused for want of a token but dispatch_event.
THEOREM TokenCorrect == ASSUME Calls \subseteq SdkCalls PROVE EventsSpec => []TokenWhereNeeded
<1>1. Init => TokenInv
  BY DEF Init, TokenInv, NoAnswer, Response
<1>2. TypeOK /\ WalkInv /\ TokenInv /\ [Next]_vars => TokenInv'
  BY TokenKept
<1>3. Spec => [](TypeOK /\ WalkInv)
  BY Invariance, PTL DEF IInv
<1>4. TypeOK /\ TokenInv => TokenWhereNeeded
  <2> SUFFICES ASSUME TypeOK, TokenInv
               PROVE  TokenWhereNeeded
    OBVIOUS
  <2>1. TokenRow(call)
    BY TokenRows DEF TypeOK
  <2> QED
    BY <2>1 DEF TokenRow, TokenInv, TokenWhereNeeded, Authorized
<1> QED
  BY <1>1, <1>2, <1>3, <1>4, EventsImplementCalls, PTL DEF Spec

\* A class admits the odd values the API documents for it, or they are in Refused.
ModelRow(m) == \A f : <<m.name, f>> \in ApiOdd => f \in m.admits \/ <<m.name, f>> \in Refused

LEMMA ModelRows == \A m \in Models : ModelRow(m)
<1>1. \A m \in A2aModels : ModelRow(m)
  BY DEF A2aModels, ModelRow, ApiOdd, Refused, Model, Strict
<1>2. \A m \in AgentModels : ModelRow(m)
  BY DEF AgentModels, ModelRow, ApiOdd, Refused, Model, Strict
<1>3. \A m \in AuthModels : ModelRow(m)
  BY DEF AuthModels, ModelRow, ApiOdd, Refused, Model, Strict
<1>4. \A m \in BillingModels : ModelRow(m)
  BY DEF BillingModels, ModelRow, ApiOdd, Refused, Model, Strict
<1>5. \A m \in SettlementModels : ModelRow(m)
  BY DEF SettlementModels, ModelRow, ApiOdd, Refused, Model, Strict
<1>6. \A m \in LabelingModels : ModelRow(m)
  BY DEF LabelingModels, ModelRow, ApiOdd, Refused, Model, Strict
<1>7. \A m \in LlmModels : ModelRow(m)
  BY DEF LlmModels, ModelRow, ApiOdd, Refused, Model, Strict
<1>8. \A m \in CatalogModels : ModelRow(m)
  BY DEF CatalogModels, ModelRow, ApiOdd, Refused, Model, Strict
<1>9. \A m \in EarningsModels : ModelRow(m)
  BY DEF EarningsModels, ModelRow, ApiOdd, Refused, Model, Strict
<1>10. \A m \in SweepModels : ModelRow(m)
  BY DEF SweepModels, ModelRow, ApiOdd, Refused, Model, Strict
<1>11. \A m \in SubscriptionModels : ModelRow(m)
  BY DEF SubscriptionModels, ModelRow, ApiOdd, Refused, Model, Strict
<1>12. \A m \in ImportModels : ModelRow(m)
  BY DEF ImportModels, ModelRow, ApiOdd, Refused, Model, Strict
<1>13. \A m \in RegistrationModels : ModelRow(m)
  BY DEF RegistrationModels, ModelRow, ApiOdd, Refused, Model, Strict
<1>14. \A m \in McpModels : ModelRow(m)
  BY DEF McpModels, ModelRow, ApiOdd, Refused, Model, Strict
<1>15. \A m \in MemoryModels : ModelRow(m)
  BY DEF MemoryModels, ModelRow, ApiOdd, Refused, Model, Strict
<1>16. \A m \in OrgModels : ModelRow(m)
  BY DEF OrgModels, ModelRow, ApiOdd, Refused, Model, Strict
<1>17. \A m \in ScheduleModels : ModelRow(m)
  BY DEF ScheduleModels, ModelRow, ApiOdd, Refused, Model, Strict
<1>18. \A m \in EventTriggerModels : ModelRow(m)
  BY DEF EventTriggerModels, ModelRow, ApiOdd, Refused, Model, Strict
<1>19. \A m \in ScorecardModels : ModelRow(m)
  BY DEF ScorecardModels, ModelRow, ApiOdd, Refused, Model, Strict
<1>20. \A m \in TelemetryModels : ModelRow(m)
  BY DEF TelemetryModels, ModelRow, ApiOdd, Refused, Model, Strict
<1>21. \A m \in ToolModels : ModelRow(m)
  BY DEF ToolModels, ModelRow, ApiOdd, Refused, Model, Strict
<1>22. \A m \in UsageModels : ModelRow(m)
  BY DEF UsageModels, ModelRow, ApiOdd, Refused, Model, Strict
<1>23. \A m \in WalletModels : ModelRow(m)
  BY DEF WalletModels, ModelRow, ApiOdd, Refused, Model, Strict
<1> QED
  BY <1>1, <1>2, <1>3, <1>4, <1>5, <1>6, <1>7, <1>8, <1>9, <1>10, <1>11, <1>12, <1>13,
     <1>14, <1>15, <1>16, <1>17, <1>18, <1>19, <1>20, <1>21, <1>22, <1>23 DEF Models

\* The name of a class stands for a class of that name.
LEMMA ModelOfName ==
  ASSUME NEW n \in DOMAIN ModelOf
  PROVE  ModelOf[n] \in Models /\ ModelOf[n].name = n
<1>1. \E m \in Models : m.name = n
  BY DEF ModelOf
<1>2. ModelOf[n] = CHOOSE m \in Models : m.name = n
  BY DEF ModelOf
<1> QED
  BY <1>1, <1>2

\* The classes within an answer are classes.
LEMMA WithinNames ==
  ASSUME NEW names \in SUBSET DOMAIN ModelOf
  PROVE  WithParts(names) \in SUBSET DOMAIN ModelOf
<1>1. \A n \in names : ModelOf[n].parts \subseteq DOMAIN ModelOf
  BY ModelOfName, PartsAssumption
<1> QED
  BY <1>1 DEF WithParts

\* An odd value the API may answer a call with is admitted or in Refused.
LEMMA OddRead ==
  ASSUME NEW c \in Calls, NEW odd \in Odd(c), odd # NoOdd
  PROVE  Admits(odd) \/ odd \in Refused
<1>1. c.model # "none" => c.model \in DOMAIN ModelOf
  BY CallsAssumption
<1>2. odd \in ApiOdd /\ odd[1] \in Within(c.model)
  BY DEF Odd
<1>3. Within(c.model) \in SUBSET DOMAIN ModelOf
  <2>1. CASE c.model = "none"
    BY <2>1 DEF Within
  <2>2. CASE c.model # "none"
    <3>1. {c.model} \in SUBSET DOMAIN ModelOf
      BY <1>1, <2>2
    <3>2. WithParts(WithParts(WithParts({c.model}))) \in SUBSET DOMAIN ModelOf
      BY <3>1, WithinNames
    <3> QED
      BY <2>2, <3>2 DEF Within
  <2> QED
    BY <2>1, <2>2
<1>4. odd = <<odd[1], odd[2]>>
  BY <1>2 DEF ApiOdd
<1>5. ModelOf[odd[1]] \in Models /\ ModelOf[odd[1]].name = odd[1]
  BY <1>2, <1>3, ModelOfName
<1>6. ModelRow(ModelOf[odd[1]])
  BY <1>5, ModelRows
<1> QED
  BY <1>2, <1>4, <1>5, <1>6 DEF ModelRow, Admits

\* What the API answers a call is read, but for the values in Refused.
LEMMA ServedIsRead ==
  ASSUME call \in Calls, BodyRow(call), NEW a \in Answers(call)
  PROVE  Readable(call, a) \/ a.odd \in Refused
<1>1. \/ ReturnsNone(call, a)
      \/ a.body \in Takes[call.reads] /\ a.odd \in Odd(call)
  <2>1. CASE call.op \in EmptyOps
    <3>1. call.reads = "nothing"
      BY <2>1, OpsDisjoint DEF BodyRow
    <3> QED
      BY <3>1 DEF ReturnsNone
  <2>2. CASE call.op \in ReplayOps
    <3>1. call.reads \in {"nothing", "replay"}
      BY <2>2, OpsDisjoint DEF BodyRow
    <3>2. a = Plain("ok", "empty") \/ a = Plain("created", "object")
      BY <2>2, OpsDisjoint DEF Answers
    <3>3. a.status = "ok" \/ (a.body = "object" /\ a.odd = NoOdd)
      BY <3>2 DEF Plain, Response
    <3>4. "object" \in Takes["replay"] /\ NoOdd \in Odd(call)
      BY DEF Takes, Odd
    <3> QED
      BY <3>1, <3>3, <3>4 DEF ReturnsNone
  <2>3. CASE call.op \in PagedOps
    <3>1. call.reads = "nothing" \/ "page" \in Takes[call.reads]
      BY <2>3, OpsDisjoint DEF BodyRow
    <3>2. a \in Pages(call)
      BY <2>3, OpsDisjoint DEF Answers
    <3>3. a.body = "page" /\ a.odd \in Odd(call)
      BY <3>2 DEF Pages, Response
    <3> QED
      BY <3>1, <3>3 DEF ReturnsNone
  <2>4. CASE call.op \in ArrayOps
    <3>1. call.reads = "nothing" \/ "array" \in Takes[call.reads]
      BY <2>4, OpsDisjoint DEF BodyRow
    <3>2. PICK limit : a \in {Response("ok", "array", Below(entries + 1, limit), 0, odd) :
                               odd \in Odd(call)}
      BY <2>4, OpsDisjoint DEF Answers
    <3>3. a.body = "array" /\ a.odd \in Odd(call)
      BY <3>2 DEF Response
    <3> QED
      BY <3>1, <3>3 DEF ReturnsNone
  <2>5. CASE call.op \notin EmptyOps \cup ReplayOps \cup PagedOps \cup ArrayOps
    <3>1. call.reads = "nothing" \/ "object" \in Takes[call.reads]
      BY <2>5 DEF BodyRow
    <3>2. a \in {Response("ok", "object", <<>>, 0, odd) : odd \in Odd(call)}
      BY <2>5 DEF Answers
    <3>3. a.body = "object" /\ a.odd \in Odd(call)
      BY <3>2 DEF Response
    <3> QED
      BY <3>1, <3>3 DEF ReturnsNone
  <2> QED
    BY <2>1, <2>2, <2>3, <2>4, <2>5
<1>2. a.odd \in Odd(call) /\ a.odd # NoOdd => Admits(a.odd) \/ a.odd \in Refused
  BY OddRead
<1> QED
  BY <1>1, <1>2 DEF Readable

\* An answer of the API that is not an error is read, but for the values in Refused.
DocumentInv ==
  pc = "answered" /\ ~garbled /\ ~Raises(answer) =>
    Readable(call, answer) \/ answer.odd \in Refused

\* What the server answers it answers as it documents.
LEMMA DocumentKept ==
  ASSUME Calls \subseteq SdkCalls
  PROVE  TypeOK /\ DocumentInv /\ [Next]_vars => DocumentInv'
<1> SUFFICES ASSUME TypeOK, DocumentInv, [Next]_vars
             PROVE  DocumentInv'
  OBVIOUS
<1>1. CASE Serve
  <2>1. answer' \in Answers(call) /\ UNCHANGED call
    BY <1>1 DEF Serve, chosen
  <2>2. call \in Calls /\ BodyRow(call)
    BY BodyRows DEF TypeOK
  <2>3. Readable(call, answer') \/ answer'.odd \in Refused
    BY <2>1, <2>2, ServedIsRead
  <2> QED
    BY <2>1, <2>3 DEF DocumentInv
<1>2. CASE Refuse
  <2>1. answer'.status \in {"error", "unauthorized"}
    BY <1>2 DEF Refuse, Plain, Response
  <2> QED
    BY <2>1 DEF DocumentInv, Raises
<1>3. CASE ProxyAnswer
  BY <1>3 DEF ProxyAnswer, DocumentInv
<1>4. CASE Fruitless \/ ReceiveResult \/ ReceivePage \/ Send \/ Repeat
  <2>1. pc' # "answered"
    BY <1>4, FruitlessStep DEF ReceiveResult, Ends, ReceivePage, Send, Repeat
  <2> QED
    BY <2>1 DEF DocumentInv
<1>5. CASE ServeLate \/ NewEntry \/ UNCHANGED vars
  <2>1. UNCHANGED <<call, pc, answer, garbled>>
    BY <1>5 DEF ServeLate, NewEntry, vars, chosen, caller, ghosts
  <2> QED
    BY <2>1 DEF DocumentInv
<1> QED
  BY <1>1, <1>2, <1>3, <1>4, <1>5, StepKinds DEF Fruitless

\* Every answer that the API documents is read by every call of the SDK that can get it,
\* but for the values in Refused.
THEOREM DocumentedCorrect ==
  ASSUME Calls \subseteq SdkCalls
  PROVE  EventsSpec => DocumentedAnswersAreRead
<1>1. Init => DocumentInv
  BY DEF Init, DocumentInv
<1>2. TypeOK /\ DocumentInv /\ [Next]_vars => DocumentInv'
  BY DocumentKept
<1>3. Spec => []TypeOK
  BY Invariance, PTL DEF IInv
<1>4. DocumentInv /\ [Next]_vars => [BecomesUnreadable => garbled \/ answer.odd \in Refused]_vars
  <2> SUFFICES ASSUME DocumentInv, [Next]_vars, BecomesUnreadable
               PROVE  garbled \/ answer.odd \in Refused
    OBVIOUS
  <2>1. pc = "answered" /\ pc' = "ended" /\ outcome' = "unreadable"
    BY DEF BecomesUnreadable
  <2>2. ReceiveUnreadable
    BY <2>1 DEF Next, NoToken, Send, Receive, ReceiveRefusal, ReceiveNone, ReceiveResult,
                ReceivePage, GivenUp, Stop, Repeat, Serve, Refuse, ProxyAnswer, ServeLate,
                NewEntry, Ends, Raises, vars, caller
  <2> QED
    BY <2>1, <2>2 DEF ReceiveUnreadable, DocumentInv
<1> QED
  BY <1>1, <1>2, <1>3, <1>4, EventsImplementCalls, PTL DEF Spec, DocumentedAnswersAreRead

-----------------------------------------------------------------------------
(* Callbacks *)

\* A header as the sender makes it, other parts before its own.
Header(others, payload, signed, sent) == others \o SignWebhook(payload, signed, sent)
Preambles == {<<>>} \cup {<<o>> : o \in Others}

\* A callback on its way has the header of its signature, a verified or refused one
\* the verdict it deserves.
CallbackInv ==
  /\ clock \in Nat /\ skew \in Int
  /\ callback # NoCallback =>
       /\ callback = [payload |-> callback.payload, signed |-> callback.signed,
                      sent |-> callback.sent, header |-> callback.header,
                      body |-> callback.body, with |-> callback.with, at |-> callback.at,
                      verdict |-> callback.verdict]
       /\ callback.sent \in Nat
       /\ \E others \in Preambles :
            callback.header = Header(others, callback.payload, callback.signed, callback.sent)
  /\ VerifiedIfSigned

\* The largest element of a set is the one no other exceeds.
LEMMA MaxFacts ==
  ASSUME NEW S \in SUBSET Int, NEW m \in S, \A x \in S : x <= m
  PROVE  Max(S) = m
<1>1. Max(S) = CHOOSE x \in S : \A y \in S : x >= y
  BY DEF Max
<1>2. \A x \in S : (\A y \in S : x >= y) => x = m
  OBVIOUS
<1> QED
  BY <1>1, <1>2

\* The last part of a key is the value read.
LEMMA LastPiece ==
  ASSUME NEW header, DOMAIN header \in SUBSET Int, NEW k \in DOMAIN header, NEW key,
         header[k].key = key, \A i \in DOMAIN header : k < i => header[i].key # key
  PROVE  Piece(header, key) = header[k].value
<1> DEFINE at == {i \in DOMAIN header : header[i].key = key}
<1>1. at \in SUBSET Int /\ k \in at /\ \A i \in at : i <= k
  OBVIOUS
<1> HIDE DEF at
<1>2. Max(at) = k /\ at # {}
  BY <1>1, MaxFacts
<1> QED
  BY <1>2 DEF Piece, at

\* Whatever part precedes them, timestamp and digest are read as they were sent.
LEMMA SignedPieces ==
  ASSUME NEW others \in Preambles, NEW payload, NEW signed, NEW sent
  PROVE  /\ Piece(Header(others, payload, signed, sent), "t") = Number(sent)
         /\ Piece(Header(others, payload, signed, sent), "v1") = Mac(signed, sent, payload)
<1> DEFINE t == Part("t", Number(sent))
           v == Part("v1", Mac(signed, sent, payload))
           h == Header(others, payload, signed, sent)
<1>1. /\ t.key = "t" /\ t.value = Number(sent)
      /\ v.key = "v1" /\ v.value = Mac(signed, sent, payload)
  BY DEF Part
<1>2. h = others \o <<t, v>>
  BY DEF Header, SignWebhook
<1> HIDE DEF t, v
<1>3. ASSUME others = <<>>
      PROVE  Piece(h, "t") = Number(sent) /\ Piece(h, "v1") = Mac(signed, sent, payload)
  <2>1. h = <<t, v>>
    BY <1>2, <1>3
  <2> HIDE DEF h
  <2>2. DOMAIN h \in SUBSET Int /\ DOMAIN h = {1, 2} /\ h[1] = t /\ h[2] = v
    BY <2>1
  <2>3. Piece(h, "t") = h[1].value
    <3>1. h[1].key = "t" /\ h[2].key # "t"
      BY <1>1, <2>2
    <3>2. 1 \in DOMAIN h /\ \A i \in DOMAIN h : 1 < i => h[i].key # "t"
      BY <2>2, <3>1
    <3> QED
      BY ONLY <2>2, <3>1, <3>2, LastPiece
  <2>4. Piece(h, "v1") = h[2].value
    <3>1. h[2].key = "v1"
      BY <1>1, <2>2
    <3>2. 2 \in DOMAIN h /\ \A i \in DOMAIN h : 2 < i => h[i].key # "v1"
      BY <2>2
    <3> QED
      BY ONLY <2>2, <3>1, <3>2, LastPiece
  <2> QED
    BY <1>1, <2>2, <2>3, <2>4
<1>4. ASSUME NEW o \in Others, others = <<o>>
      PROVE  Piece(h, "t") = Number(sent) /\ Piece(h, "v1") = Mac(signed, sent, payload)
  <2>1. h = <<o>> \o <<t, v>>
    BY <1>2, <1>4
  <2> HIDE DEF h
  <2>2. DOMAIN h \in SUBSET Int /\ DOMAIN h = {1, 2, 3} /\ h[2] = t /\ h[3] = v
    BY ONLY <2>1
  <2>3. Piece(h, "t") = h[2].value
    <3>1. h[2].key = "t" /\ h[3].key # "t"
      BY <1>1, <2>2
    <3>2. 2 \in DOMAIN h /\ \A i \in DOMAIN h : 2 < i => h[i].key # "t"
      BY <2>2, <3>1
    <3> QED
      BY ONLY <2>2, <3>1, <3>2, LastPiece
  <2>4. Piece(h, "v1") = h[3].value
    <3>1. h[3].key = "v1"
      BY <1>1, <2>2
    <3>2. 3 \in DOMAIN h /\ \A i \in DOMAIN h : 3 < i => h[i].key # "v1"
      BY <2>2
    <3> QED
      BY ONLY <2>2, <3>1, <3>2, LastPiece
  <2> QED
    BY <1>1, <2>2, <2>3, <2>4
<1> QED
  BY <1>3, <1>4 DEF Preambles, h

\* verify_webhook accepts what was signed with its secret and is recent, and nothing else.
LEMMA Verdict ==
  ASSUME NEW others \in Preambles, NEW payload, NEW signed, NEW sent \in Nat,
         NEW body, NEW secretKnown, NEW time \in Int
  PROVE  VerifyWebhook(body, Header(others, payload, signed, sent), secretKnown, Tolerance, time)
         = IF body = payload /\ secretKnown = signed /\ time - sent \in -Tolerance..Tolerance
             THEN "verified" ELSE "refused"
<1> DEFINE h == Header(others, payload, signed, sent)
<1>1. Piece(h, "t") = Number(sent) /\ Piece(h, "v1") = Mac(signed, sent, payload)
  BY SignedPieces
<1> HIDE DEF h
<1>2. Tolerance \in Nat /\ ~(Tolerance < 0) /\ Tolerance >= 0
  BY ClockAssumption
<1>3. /\ Number(sent).kind = "number" /\ Number(sent).of = sent
      /\ Mac(signed, sent, payload) # Nothing /\ Mac(signed, sent, payload).kind # "non_ascii"
  BY DEF Number, Mac, Nothing
<1>4. Abs(time - sent) > Tolerance <=> time - sent \notin -Tolerance..Tolerance
  BY <1>2 DEF Abs
<1>5. Mac(signed, sent, payload) = Mac(secretKnown, sent, body)
        <=> signed = secretKnown /\ payload = body
  BY DEF Mac
<1>6. VerifyWebhook(body, h, secretKnown, Tolerance, time) =
        IF Abs(time - sent) > Tolerance THEN "refused"
        ELSE IF Mac(signed, sent, payload) = Mac(secretKnown, sent, body) THEN "verified"
        ELSE "refused"
  BY <1>1, <1>2, <1>3 DEF VerifyWebhook
<1>7. VerifyWebhook(body, h, secretKnown, Tolerance, time) =
        IF body = payload /\ secretKnown = signed /\ time - sent \in -Tolerance..Tolerance
          THEN "verified" ELSE "refused"
  BY <1>4, <1>5, <1>6, Zenon
<1> QED
  BY <1>7 DEF h

\* A callback is verified exactly if it came as signed, with the secret its receiver
\* has, at most the tolerance before or after its time.
THEOREM VerifiedCorrect == EventsSpec => []VerifiedIfSigned
<1>1. EventsInit => CallbackInv
  <2> SUFFICES ASSUME EventsInit
               PROVE  CallbackInv
    OBVIOUS
  <2>1. clock \in Nat /\ skew \in Int
    BY ClockAssumption DEF EventsInit
  <2>2. callback = NoCallback /\ callback.verdict = "none sent"
    BY DEF EventsInit, NoCallback
  <2> QED
    BY <2>1, <2>2 DEF CallbackInv, VerifiedIfSigned
<1>2. CallbackInv /\ [EventsNext]_<<vars, events>> => CallbackInv'
  <2> SUFFICES ASSUME CallbackInv, [EventsNext]_<<vars, events>>
               PROVE  CallbackInv'
    OBVIOUS
  <2>1. ASSUME NEW p \in Payloads, SendCallback(p)
        PROVE  CallbackInv'
    <3>1. PICK others \in Preambles :
            callback' = [payload |-> p, signed |-> secret, sent |-> clock,
                         header |-> Header(others, p, secret, clock),
                         body |-> p, with |-> known, at |-> clock, verdict |-> "on its way"]
      BY <2>1 DEF SendCallback, Preambles, Header
    <3>2. /\ callback'.verdict = "on its way" /\ callback'.sent = clock
          /\ callback'.payload = p /\ callback'.signed = secret
          /\ callback'.header = Header(others, p, secret, clock)
          /\ callback'.body = p /\ callback'.with = known /\ callback'.at = clock
      BY <3>1
    <3>3. UNCHANGED <<clock, skew>>
      BY <2>1 DEF SendCallback
    <3> QED
      BY <3>1, <3>2, <3>3 DEF CallbackInv, VerifiedIfSigned
  <2>2. ASSUME NEW p \in Payloads, Verify(p)
        PROVE  CallbackInv'
    <3> DEFINE time == clock + skew
               v == VerifyWebhook(p, callback.header, known, Tolerance, time)
    <3>0. callback # NoCallback
      <4>1. callback.verdict = "on its way"
        BY <2>2, Zenon DEF Verify
      <4>2. NoCallback.verdict = "none sent"
        BY DEF NoCallback
      <4> QED
        BY <4>1, <4>2
    <3>1. callback # NoCallback /\ time \in Int /\ callback.sent \in Nat
      BY <3>0 DEF CallbackInv
    <3>2. callback' = [payload |-> callback.payload, signed |-> callback.signed,
                       sent |-> callback.sent, header |-> callback.header,
                       body |-> p, with |-> known, at |-> time, verdict |-> v]
      BY <2>2, <3>1 DEF Verify, CallbackInv
    <3>3. PICK others \in Preambles :
            callback.header = Header(others, callback.payload, callback.signed, callback.sent)
      BY <3>1 DEF CallbackInv
    <3>4. v = IF p = callback.payload /\ known = callback.signed
                 /\ time - callback.sent \in -Tolerance..Tolerance
                THEN "verified" ELSE "refused"
      BY <3>1, <3>3, Verdict
    <3> HIDE DEF v, time
    <3>5. VerifiedIfSigned'
      BY <3>2, <3>4 DEF VerifiedIfSigned
    <3> QED
      BY <2>2, <3>1, <3>2, <3>3, <3>5 DEF Verify, CallbackInv
  <2>3. CASE Tick
    <3>1. clock' \in Nat /\ UNCHANGED <<skew, callback>>
      BY <2>3 DEF Tick, CallbackInv
    <3> QED
      BY <3>1 DEF CallbackInv, VerifiedIfSigned
  <2>4. CASE UNCHANGED <<clock, skew, callback>>
    BY <2>4 DEF CallbackInv, VerifiedIfSigned
  <2>5. \/ \E p \in Payloads : SendCallback(p) \/ Verify(p)
        \/ Tick
        \/ UNCHANGED <<clock, skew, callback>>
    BY DEF EventsNext, ServeRotation, ServeLateRotation, ReceiveSecret, CallMcpTool,
           CallMarketplaceTool, events
  <2> QED
    BY <2>1, <2>2, <2>3, <2>4, <2>5
<1>3. CallbackInv => VerifiedIfSigned
  BY DEF CallbackInv
<1> QED
  BY <1>1, <1>2, <1>3, PTL DEF EventsSpec

-----------------------------------------------------------------------------
(* Names of tools *)

\* Numbers that are not none have a smallest.
LEMMA MinOfSome ==
  ASSUME NEW S, S \subseteq Nat, S # {}
  PROVE  Min(S) \in S /\ \A x \in S : Min(S) <= x
<1>1. \E m \in S : \A y \in S : ~(<<y, m>> \in OpToRel(<, Nat))
  BY NatLessThanWellFounded, WFMin
<1>2. PICK m \in S : \A y \in S : ~(<<y, m>> \in OpToRel(<, Nat))
  BY <1>1
<1>3. \A y \in S : ~(y < m)
  BY <1>2 DEF OpToRel
<1>4. \A y \in S : m <= y
  BY <1>3
<1>5. Min(S) = CHOOSE x \in S : \A y \in S : x <= y
  BY DEF Min
<1> QED
  BY <1>4, <1>5

\* Find is the first place of the separator, or 0 if it has none.
LEMMA FindFacts ==
  ASSUME NEW C, NEW name \in Seq(C), NEW separator
  PROVE  \/ /\ Find(name, separator) = 0
            /\ \A i \in 1..Len(name) : ~OccursAt(name, separator, i)
         \/ /\ Find(name, separator) \in 1..Len(name)
            /\ OccursAt(name, separator, Find(name, separator))
            /\ \A i \in 1..Len(name) :
                 OccursAt(name, separator, i) => Find(name, separator) <= i
<1> DEFINE at == {i \in DOMAIN name : OccursAt(name, separator, i)}
<1>1. Len(name) \in Nat /\ DOMAIN name = 1..Len(name)
  BY LenProperties
<1>2. Find(name, separator) = IF at = {} THEN 0 ELSE Min(at)
  BY DEF Find
<1>3. \A i \in 1..Len(name) : i \in at <=> OccursAt(name, separator, i)
  BY <1>1
<1>4. at \in SUBSET Nat /\ at \in SUBSET (1..Len(name))
  BY <1>1
<1>5. \A i \in at : OccursAt(name, separator, i)
  OBVIOUS
<1> HIDE DEF at
<1>6. at # {} => Min(at) \in at /\ \A x \in at : Min(at) <= x
  BY <1>4, MinOfSome
<1>7. CASE at = {}
  BY <1>2, <1>3, <1>7
<1>8. CASE at # {}
  BY <1>2, <1>3, <1>4, <1>5, <1>6, <1>8
<1> QED
  BY <1>7, <1>8

\* Where the separators are, character by character.
LEMMA McpOccurs ==
  ASSUME NEW C, NEW w \in Seq(C), NEW i \in 1..Len(w)
  PROVE  OccursAt(w, McpSeparator, i) <=> i < Len(w) /\ w[i] = Underscore /\ w[i + 1] = Underscore
<1> DEFINE r == SubSeq(w, i, i + 1)
<1>1. Len(w) \in Nat /\ Len(McpSeparator) = 2
  BY LenProperties DEF McpSeparator
<1>2. i + Len(McpSeparator) - 1 = i + 1
  BY <1>1
<1>3. ASSUME i + 1 <= Len(w)
      PROVE  r = McpSeparator <=> w[i] = Underscore /\ w[i + 1] = Underscore
  <2>1. \A j \in i..(i + 1) : w[j] \in C
    BY <1>1, <1>3, ElementOfSeq
  <2>2. r \in Seq(C) /\ Len(r) = 2 /\ r[1] = w[i] /\ r[2] = w[i + 1]
    BY <1>1, <2>1, SubSeqProperties
  <2> HIDE DEF r
  <2>3. r = <<r[1], r[2]>>
    BY <2>2
  <2>4. <<r[1], r[2]>> = <<Underscore, Underscore>> <=> r[1] = Underscore /\ r[2] = Underscore
    BY Zenon
  <2> QED
    BY <2>2, <2>3, <2>4 DEF McpSeparator
<1>4. i < Len(w) <=> i + 1 <= Len(w)
  BY <1>1
<1> HIDE DEF r
<1>5. OccursAt(w, McpSeparator, i) <=> i + 1 <= Len(w) /\ r = McpSeparator
  BY <1>2 DEF OccursAt, r
<1> QED
  BY <1>3, <1>4, <1>5

\* A slash is where its character is.
LEMMA SlashOccurs ==
  ASSUME NEW C, NEW w \in Seq(C), NEW i \in 1..Len(w)
  PROVE  OccursAt(w, MarketplaceSeparator, i) <=> w[i] = Slash
<1> DEFINE r == SubSeq(w, i, i)
<1>1. Len(w) \in Nat /\ Len(MarketplaceSeparator) = 1
  BY LenProperties DEF MarketplaceSeparator
<1>2. i + Len(MarketplaceSeparator) - 1 = i /\ i <= Len(w)
  BY <1>1
<1>3. r \in Seq(C) /\ Len(r) = 1 /\ r[1] = w[i]
  <2>1. \A j \in i..i : w[j] \in C
    BY <1>1, ElementOfSeq
  <2> QED
    BY <1>1, <2>1, SubSeqProperties
<1> HIDE DEF r
<1>4. r = <<r[1]>>
  BY <1>3
<1>5. <<r[1]>> = <<Slash>> <=> r[1] = Slash
  BY Zenon
<1>6. OccursAt(w, MarketplaceSeparator, i) <=> r = MarketplaceSeparator
  BY <1>2 DEF OccursAt, r
<1> QED
  BY <1>3, <1>4, <1>5, <1>6 DEF MarketplaceSeparator

\* A name put together, and its parts.
LEMMA Composed ==
  ASSUME NEW C, NEW a \in Seq(C), NEW m \in Seq(C), NEW b \in Seq(C)
  PROVE  /\ a \o m \o b \in Seq(C)
         /\ Len(a) \in Nat /\ Len(m) \in Nat /\ Len(b) \in Nat
         /\ Len(a \o m \o b) = Len(a) + Len(m) + Len(b)
         /\ \A i \in 1..Len(a) : (a \o m \o b)[i] = a[i]
         /\ \A i \in 1..Len(m) : (a \o m \o b)[Len(a) + i] = m[i]
         /\ SubSeq(a \o m \o b, 1, Len(a)) = a
         /\ SubSeq(a \o m \o b, Len(a) + Len(m) + 1, Len(a \o m \o b)) = b
<1> DEFINE am == a \o m
           w == am \o b
<1>1. Len(a) \in Nat /\ Len(m) \in Nat /\ Len(b) \in Nat
  BY LenProperties
<1>2. /\ am \in Seq(C) /\ Len(am) = Len(a) + Len(m)
      /\ \A i \in 1..(Len(a) + Len(m)) : am[i] = IF i <= Len(a) THEN a[i] ELSE m[i - Len(a)]
  BY ConcatProperties
<1> HIDE DEF am
<1>0. am \in Seq(C)
  BY <1>2
<1>3. /\ w \in Seq(C) /\ Len(w) = Len(am) + Len(b)
      /\ \A i \in 1..(Len(am) + Len(b)) : w[i] = IF i <= Len(am) THEN am[i] ELSE b[i - Len(am)]
  BY <1>0, ConcatProperties
<1>4. SubSeq(w, Len(am) + 1, Len(w)) = b
  BY <1>2, <1>3, SubSeqOfConcat2
<1> HIDE DEF w
<1>5. \A i \in 1..Len(a) : w[i] = a[i]
  BY <1>1, <1>2, <1>3
<1>6. \A i \in 1..Len(m) : w[Len(a) + i] = m[i]
  BY <1>1, <1>2, <1>3
<1>7. SubSeq(w, 1, Len(a)) = a
  <2> DEFINE r == SubSeq(w, 1, Len(a))
  <2>1. \A i \in 1..Len(a) : w[i] \in C
    BY <1>5, ElementOfSeq
  <2>2. r \in Seq(C) /\ Len(r) = Len(a) /\ \A i \in 1..Len(a) : r[i] = w[i]
    BY <1>1, <2>1, SubSeqProperties
  <2> HIDE DEF r
  <2>3. r = a
    BY <1>5, <2>2, SeqEqual
  <2> QED
    BY <2>3 DEF r
<1>8. Len(am) + 1 = Len(a) + Len(m) + 1 /\ Len(w) = Len(a) + Len(m) + Len(b)
  BY <1>1, <1>2, <1>3
<1>9. SubSeq(w, Len(a) + Len(m) + 1, Len(w)) = b
  BY <1>4, <1>8
<1> QED
  BY <1>1, <1>3, <1>5, <1>6, <1>7, <1>8, <1>9 DEF w, am

\* Where the first separator of a server's name and a tool's put together is.
LEMMA McpFirst ==
  ASSUME NEW C, NEW s \in Seq(C), Len(s) > 0, NEW w \in Seq(C), Len(w) >= Len(s) + 2,
         \A i \in 1..Len(s) : w[i] = s[i],
         w[Len(s) + 1] = Underscore, w[Len(s) + 2] = Underscore
  PROVE  /\ Find(w, McpSeparator) \in 1..(Len(s) + 1)
         /\ Separable(s) <=> Find(w, McpSeparator) = Len(s) + 1
<1> DEFINE n == Len(s)
           f == Find(w, McpSeparator)
           g == Find(s, McpSeparator)
           At(x, i) == i < Len(x) /\ x[i] = Underscore /\ x[i + 1] = Underscore
<1>1. n \in Nat /\ n # 0 /\ Len(w) \in Nat
  BY EmptySeq, LenProperties
<1>2. \A i \in 1..Len(w) : OccursAt(w, McpSeparator, i) <=> At(w, i)
  BY McpOccurs
<1>3. \A i \in 1..n : OccursAt(s, McpSeparator, i) <=> At(s, i)
  BY McpOccurs
<1>4. \/ f = 0 /\ \A i \in 1..Len(w) : ~At(w, i)
      \/ f \in 1..Len(w) /\ At(w, f) /\ \A i \in 1..Len(w) : At(w, i) => f <= i
  BY <1>2, FindFacts
<1>5. \/ g = 0 /\ \A i \in 1..n : ~At(s, i)
      \/ g \in 1..n /\ At(s, g)
  BY <1>3, FindFacts
<1>6. Separable(s) <=> g = 0 /\ s[n] # Underscore
  BY DEF Separable, Last
<1> HIDE DEF f, g
<1>7. At(w, n + 1)
  BY <1>1
<1>8. f \in 1..(n + 1) /\ At(w, f) /\ \A i \in 1..(n + 1) : At(w, i) => f <= i
  BY <1>1, <1>4, <1>7
<1>9. \A i \in 1..n : i < n => (At(w, i) <=> At(s, i))
  BY <1>1
<1>10. At(w, n) <=> s[n] = Underscore
  BY <1>1
<1>11. ASSUME f <= n
       PROVE  ~(g = 0 /\ s[n] # Underscore)
  <2>1. CASE f = n
    BY <1>8, <1>10, <2>1
  <2>2. CASE f < n
    BY <1>1, <1>5, <1>8, <1>9, <2>2
  <2> QED
    BY <1>1, <1>8, <1>11, <2>1, <2>2
<1>12. ASSUME f = n + 1
       PROVE  g = 0 /\ s[n] # Underscore
  <2>1. s[n] # Underscore
    BY <1>1, <1>8, <1>10, <1>12
  <2>2. ASSUME g \in 1..n, At(s, g)
        PROVE  FALSE
    BY <1>1, <1>8, <1>9, <1>12, <2>2
  <2> QED
    BY <1>5, <2>1, <2>2
<1> QED
  BY <1>1, <1>6, <1>8, <1>11, <1>12 DEF f

\* A tool of an MCP server is told apart exactly if its server's name is separable,
\* whatever characters the names have and however long they are.
THEOREM McpNamesSplit ==
  ASSUME NEW C, Underscore \in C, NEW s \in Seq(C), Len(s) > 0, NEW t \in Seq(C)
  PROVE  ParseMcpToolName(s \o McpSeparator \o t) = [is_mcp |-> TRUE, server |-> s, tool |-> t]
           <=> Separable(s)
<1> DEFINE w == s \o McpSeparator \o t
           n == Len(s)
           f == Find(w, McpSeparator)
<1>1. McpSeparator \in Seq(C) /\ Len(McpSeparator) = 2
      /\ McpSeparator[1] = Underscore /\ McpSeparator[2] = Underscore
  BY DEF McpSeparator
<1>2. /\ w \in Seq(C) /\ n \in Nat /\ Len(t) \in Nat /\ Len(w) = n + 2 + Len(t)
      /\ \A i \in 1..n : w[i] = s[i]
      /\ w[n + 1] = Underscore /\ w[n + 2] = Underscore
      /\ SubSeq(w, 1, n) = s /\ SubSeq(w, n + 3, Len(w)) = t
  <2>1. McpSeparator \in Seq(C)
    BY <1>1
  <2>2. /\ w \in Seq(C)
        /\ Len(s) \in Nat /\ Len(McpSeparator) \in Nat /\ Len(t) \in Nat
        /\ Len(w) = Len(s) + Len(McpSeparator) + Len(t)
        /\ \A i \in 1..Len(s) : w[i] = s[i]
        /\ \A i \in 1..Len(McpSeparator) : w[Len(s) + i] = McpSeparator[i]
        /\ SubSeq(w, 1, Len(s)) = s
        /\ SubSeq(w, Len(s) + Len(McpSeparator) + 1, Len(w)) = t
    BY ONLY <2>1, s \in Seq(C), t \in Seq(C), Composed
  <2> HIDE DEF w
  <2>3. n + Len(McpSeparator) + 1 = n + 3
    BY <1>1, <2>2
  <2> QED
    BY <1>1, <2>2, <2>3
<1>3. f \in 1..(n + 1) /\ (Separable(s) <=> f = n + 1)
  <2> HIDE DEF w
  <2>1. Len(w) >= Len(s) + 2
    BY <1>2
  <2> QED
    BY <1>2, <2>1, McpFirst
<1>4. ParseMcpToolName(w)
        = IF f > 1 THEN [is_mcp |-> TRUE, server |-> SubSeq(w, 1, f - 1),
                         tool |-> SubSeq(w, f + 2, Len(w))]
          ELSE [is_mcp |-> FALSE]
  BY <1>1 DEF ParseMcpToolName
<1>5. n # 0
  BY EmptySeq
<1> HIDE DEF w, f
<1>6. ASSUME f = n + 1
      PROVE  ParseMcpToolName(w) = [is_mcp |-> TRUE, server |-> s, tool |-> t]
  <2>1. f > 1 /\ f - 1 = n /\ f + 2 = n + 3
    BY <1>2, <1>5, <1>6
  <2> QED
    BY <1>2, <1>4, <2>1
<1>7. ASSUME f # n + 1
      PROVE  ParseMcpToolName(w) # [is_mcp |-> TRUE, server |-> s, tool |-> t]
  <2>1. CASE f > 1
    <3> DEFINE r == SubSeq(w, 1, f - 1)
    <3>1. f - 1 \in 1..n /\ f - 1 # n
      BY <1>2, <1>3, <1>7, <2>1
    <3>2. \A i \in 1..(f - 1) : w[i] \in C
      BY <1>2, <3>1, ElementOfSeq
    <3>3. Len(r) = f - 1
      BY <3>1, <3>2, SubSeqProperties
    <3>4. ParseMcpToolName(w)
            = [is_mcp |-> TRUE, server |-> r, tool |-> SubSeq(w, f + 2, Len(w))]
      BY <1>4, <2>1
    <3> HIDE DEF r
    <3>5. ParseMcpToolName(w).server = r
      BY <3>4
    <3> QED
      BY <3>1, <3>3, <3>5
  <2>2. CASE ~(f > 1)
    <3>1. ParseMcpToolName(w).is_mcp = FALSE
      BY <1>4, <2>2
    <3> QED
      BY <3>1
  <2> QED
    BY <2>1, <2>2
<1> QED
  BY <1>3, <1>6, <1>7 DEF w

\* The qualified name of a marketplace tool comes apart whatever the tool is called,
\* slashes included: its owner's slug has none.
THEOREM MarketplaceNamesSplit ==
  ASSUME NEW C, Slash \in C, NEW s \in Seq(C), Len(s) > 0, NEW t \in Seq(C),
         \A i \in 1..Len(s) : s[i] # Slash
  PROVE  ParseMarketplaceToolName(s \o MarketplaceSeparator \o t)
           = [org_slug |-> s, tool_name |-> t]
<1> DEFINE w == s \o MarketplaceSeparator \o t
           n == Len(s)
           f == Find(w, MarketplaceSeparator)
<1>1. MarketplaceSeparator \in Seq(C) /\ Len(MarketplaceSeparator) = 1
      /\ MarketplaceSeparator[1] = Slash
  BY DEF MarketplaceSeparator
<1>2. /\ w \in Seq(C) /\ n \in Nat /\ Len(t) \in Nat /\ Len(w) = n + 1 + Len(t)
      /\ \A i \in 1..n : w[i] = s[i]
      /\ w[n + 1] = Slash
      /\ SubSeq(w, 1, n) = s /\ SubSeq(w, n + 2, Len(w)) = t
  <2>1. MarketplaceSeparator \in Seq(C)
    BY <1>1
  <2>2. /\ w \in Seq(C)
        /\ Len(s) \in Nat /\ Len(MarketplaceSeparator) \in Nat /\ Len(t) \in Nat
        /\ Len(w) = Len(s) + Len(MarketplaceSeparator) + Len(t)
        /\ \A i \in 1..Len(s) : w[i] = s[i]
        /\ \A i \in 1..Len(MarketplaceSeparator) : w[Len(s) + i] = MarketplaceSeparator[i]
        /\ SubSeq(w, 1, Len(s)) = s
        /\ SubSeq(w, Len(s) + Len(MarketplaceSeparator) + 1, Len(w)) = t
    BY ONLY <2>1, s \in Seq(C), t \in Seq(C), Composed
  <2> HIDE DEF w
  <2>3. n + Len(MarketplaceSeparator) + 1 = n + 2
    BY <1>1, <2>2
  <2> QED
    BY <1>1, <2>2, <2>3
<1>3. n # 0
  BY EmptySeq
<1>4. f = n + 1
  <2> HIDE DEF w
  <2>1. \A i \in 1..Len(w) : OccursAt(w, MarketplaceSeparator, i) <=> w[i] = Slash
    BY <1>2, SlashOccurs
  <2>2. \/ f = 0 /\ \A i \in 1..Len(w) : w[i] # Slash
        \/ f \in 1..Len(w) /\ w[f] = Slash /\ \A i \in 1..Len(w) : w[i] = Slash => f <= i
    BY <1>2, <2>1, FindFacts
  <2> HIDE DEF f
  <2>3. n + 1 \in 1..Len(w)
    BY <1>2
  <2>4. f \in 1..(n + 1) /\ w[f] = Slash
    BY <1>2, <2>2, <2>3
  <2> QED
    BY <1>2, <2>4
<1> HIDE DEF w, f
<1>5. ~(f <= 1) /\ f - 1 = n /\ f + 1 = n + 2
  BY <1>2, <1>3, <1>4
<1>6. ParseMarketplaceToolName(w) = [org_slug |-> SubSeq(w, 1, f - 1),
                                     tool_name |-> SubSeq(w, f + 1, Len(w))]
  BY <1>5 DEF ParseMarketplaceToolName, f
<1> QED
  BY <1>2, <1>5, <1>6 DEF w

\* A word is a sequence that is not empty.
LEMMA WordIsSeq ==
  ASSUME NEW C, NEW n \in Nat, NEW w \in Words(C, n)
  PROVE  w \in Seq(C) /\ Len(w) \in Nat /\ Len(w) > 0
<1>1. PICK k \in 1..n : w \in [1..k -> C]
  BY DEF Words
<1>2. k \in Nat /\ k > 0
  BY <1>1
<1>3. w \in Seq(C) /\ Len(w) = k
  BY <1>1, <1>2
<1> QED
  BY <1>2, <1>3

\* What CallMcpTool and CallMarketplaceTool put together comes apart.
LEMMA EventNameParsed ==
  ASSUME NEW n \in Nat, NEW owner \in Words({"a", Underscore}, n),
         NEW name \in Words({"a", Underscore}, 3)
  PROVE  ParseMcpToolName(owner \o McpSeparator \o name)
           = [is_mcp |-> TRUE, server |-> owner, tool |-> name] <=> Separable(owner)
<1> DEFINE C == {"a", Underscore}
<1>1. Underscore \in C
  OBVIOUS
<1>2. owner \in Words(C, n) /\ name \in Words(C, 3)
  OBVIOUS
<1> HIDE DEF C
<1>3. owner \in Seq(C) /\ Len(owner) > 0
  BY <1>2, WordIsSeq
<1>4. name \in Seq(C)
  BY <1>2, WordIsSeq
<1> QED
  BY <1>1, <1>3, <1>4, McpNamesSplit

LEMMA QualifiedNameParsed ==
  ASSUME NEW slug \in Words({"a", Underscore}, 2), NEW name \in Words({"a", Underscore}, 3)
  PROVE  ParseMarketplaceToolName(slug \o MarketplaceSeparator \o name)
           = [org_slug |-> slug, tool_name |-> name]
<1> DEFINE B == {"a", Underscore}
           C == {"a", Underscore, Slash}
<1>1. Slash \in C /\ B \subseteq C
  OBVIOUS
<1>2. \A c \in B : c # Slash
  BY Zenon DEF Underscore, Slash
<1>3. slug \in Words(B, 2) /\ name \in Words(B, 3)
  OBVIOUS
<1> HIDE DEF B, C
<1>4. slug \in Seq(B) /\ Len(slug) > 0
  BY <1>3, WordIsSeq
<1>5. name \in Seq(B)
  BY <1>3, WordIsSeq
<1>6. slug \in Seq(C) /\ name \in Seq(C)
  BY <1>1, <1>4, <1>5, SeqMonotonic
<1>7. \A i \in 1..Len(slug) : slug[i] # Slash
  BY <1>2, <1>4, ElementOfSeq
<1> QED
  BY <1>1, <1>4, <1>6, <1>7, MarketplaceNamesSplit

\* Every tool that an event names is told apart as NamesSplit says.
THEOREM NamesCorrect == EventsSpec => []NamesSplit
<1>1. EventsInit => NamesSplit
  BY DEF EventsInit, NoTool, NamesSplit
<1>2. NamesSplit /\ [EventsNext]_<<vars, events>> => NamesSplit'
  <2> SUFFICES ASSUME NamesSplit, [EventsNext]_<<vars, events>>
               PROVE  NamesSplit'
    OBVIOUS
  <2>1. CASE UNCHANGED tool
    BY <2>1 DEF NamesSplit
  <2>2. ASSUME CallMcpTool
        PROVE  NamesSplit'
    <3>1. PICK s \in ServerNames, name \in Words({"a", Underscore}, 3) :
            tool' = [kind |-> "mcp", of |-> s, name |-> name,
                     text |-> s \o McpSeparator \o name]
      BY <2>2 DEF CallMcpTool
    <3>2. /\ tool'.kind = "mcp" /\ tool'.of = s /\ tool'.name = name
          /\ tool'.text = s \o McpSeparator \o name
      BY <3>1
    <3>3. s \in Words({"a", Underscore}, 3)
      BY DEF ServerNames
    <3>4. ParseMcpToolName(s \o McpSeparator \o name)
            = [is_mcp |-> TRUE, server |-> s, tool |-> name] <=> Separable(s)
      BY <3>3, EventNameParsed
    <3> QED
      BY <3>2, <3>4 DEF NamesSplit
  <2>3. ASSUME CallMarketplaceTool
        PROVE  NamesSplit'
    <3>1. PICK slug \in Words({"a", Underscore}, 2), name \in Words({"a", Underscore}, 3) :
            tool' = [kind |-> "marketplace", of |-> slug, name |-> name,
                     qualified |-> slug \o MarketplaceSeparator \o name,
                     text |-> slug \o McpSeparator \o name]
      BY <2>3 DEF CallMarketplaceTool
    <3>2. /\ tool'.of = slug /\ tool'.name = name
          /\ tool'.qualified = slug \o MarketplaceSeparator \o name
          /\ tool'.text = slug \o McpSeparator \o name
      BY <3>1
    <3>3. ParseMarketplaceToolName(slug \o MarketplaceSeparator \o name)
            = [org_slug |-> slug, tool_name |-> name]
      BY QualifiedNameParsed
    <3>4. ParseMcpToolName(slug \o McpSeparator \o name)
            = [is_mcp |-> TRUE, server |-> slug, tool |-> name] <=> Separable(slug)
      BY EventNameParsed
    <3> QED
      BY <3>2, <3>3, <3>4 DEF NamesSplit
  <2>4. UNCHANGED tool \/ CallMcpTool \/ CallMarketplaceTool
    BY DEF EventsNext, ServeRotation, ServeLateRotation, ReceiveSecret, SendCallback, Verify,
           Tick, events
  <2> QED
    BY <2>1, <2>2, <2>3, <2>4
<1> QED
  BY <1>1, <1>2, PTL DEF EventsSpec
=============================================================================
