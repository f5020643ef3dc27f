----------------------- MODULE TelemetryJournalProofs -----------------------
(***************************************************************************)
(* DamageIsLocal, RecordedOnce and LinesFollowCalls for any number of      *)
(* threads, events and failures: the lock around the write alone is        *)
(* enough, though a call begins and makes its record outside it.           *)
(***************************************************************************)
EXTENDS TelemetryJournal, FiniteSetTheorems, SequenceTheorems, TLAPS

Steps == {"idle", "waiting", "open", "partial", "written"}
Holding == {"open", "partial", "written"}
Piece == [event : Event, part : {"head", "tail"}]
Positions == 1..Len(file)

TypeInv ==
    /\ pc \in [Emitters -> Steps]
    /\ number \in [Emitters -> 0..MaxEvents]
    /\ \A t \in Emitters : pc[t] # "idle" => number[t] # 0
    /\ begun \in [Event -> Nat] /\ calls \in Nat
    /\ \A e \in Event : begun[e] < calls
    /\ file \in Seq(Piece)

(* The lock admits one emitter to the file.                                *)
OneHolder == \A t \in Emitters : pc[t] \in Holding => lock = t

(* A piece in the file is of an event that was begun, and an emitter that  *)
(* has not written yet has nothing of its event there.                     *)
Begun == \A i \in Positions :
    LET t == file[i].event[1] IN
    /\ file[i].event[2] <= number[t]
    /\ file[i].event = Current(t) => pc[t] \notin {"waiting", "open"}

Distinct == \A i, j \in Positions : file[i] = file[j] => i = j

(* A tail stands right after its head.  A head stands before its tail, or  *)
(* at the end while its emitter is between the two, or is of a failed emit.*)
TailsFollow == \A i \in Positions : file[i].part = "tail" =>
    i > 1 /\ file[i - 1] = HeadOf(file[i].event)

HeadsFollowed == \A i \in Positions : file[i].part = "head" =>
    \/ file[i].event \in failures
    \/ i < Len(file) /\ file[i + 1] = TailOf(file[i].event)
    \/ i = Len(file) /\ pc[file[i].event[1]] = "partial"

AtEnd == \A t \in Emitters :
    /\ pc[t] = "partial" => Len(file) # 0 /\ file[Len(file)] = HeadOf(Current(t))
    /\ pc[t] = "written" => Len(file) # 0 /\ file[Len(file)] = TailOf(Current(t))

ReturnedWritten == \A e \in returned : \E i \in Positions : file[i] = TailOf(e)

(* When an emitter begins its next event, all that stands in the file up   *)
(* to its last one was begun before.                                       *)
InCallOrder == \A j \in Positions, i \in Positions, n \in 1..MaxEvents :
    LET t == file[j].event[1] IN
    i <= j /\ file[j].event[2] < n /\ n <= number[t] =>
        begun[file[i].event] < begun[<<t, n>>]

JInv ==
    /\ TypeInv
    /\ OneHolder
    /\ Begun
    /\ Distinct
    /\ TailsFollow
    /\ HeadsFollowed
    /\ AtEnd
    /\ ReturnedWritten
    /\ InCallOrder
-----------------------------------------------------------------------------
(* What a piece in the file is made of.                                    *)
LEMMA PieceFacts ==
    ASSUME TypeInv, NEW i \in Positions
    PROVE  /\ file[i] \in Piece /\ file[i].event \in Event
           /\ file[i].event[1] \in Emitters /\ file[i].event[2] \in 1..MaxEvents
           /\ file[i].event = <<file[i].event[1], file[i].event[2]>>
           /\ Len(file) \in Nat
<1>1. file[i] \in Piece /\ Len(file) \in Nat
  BY DEF TypeInv, Positions
<1> QED BY <1>1 DEF Piece, Event

LEMMA CurrentFacts ==
    ASSUME TypeInv, NEW t \in Emitters, pc[t] # "idle"
    PROVE  /\ number[t] \in 1..MaxEvents /\ Current(t) \in Event
           /\ Current(t)[1] = t /\ Current(t)[2] = number[t]
           /\ HeadOf(Current(t)) \in Piece /\ TailOf(Current(t)) \in Piece
<1>1. number[t] \in 1..MaxEvents
  BY JournalAssumption DEF TypeInv
<1> QED BY <1>1 DEF Current, Event, HeadOf, TailOf, Piece

LEMMA InitInv == Init => JInv
<1> SUFFICES ASSUME Init PROVE JInv
  OBVIOUS
<1>1. TypeInv
  BY JournalAssumption DEF Init, TypeInv, Steps
<1>2. Positions = {}
  BY DEF Init, Positions
<1> QED BY <1>1, <1>2 DEF Init, JInv, OneHolder, Holding, Begun, Distinct, TailsFollow,
           HeadsFollowed, AtEnd, ReturnedWritten, InCallOrder

(* A new event has no piece in the file and the newest begun of all.       *)
LEMMA BeginStep == ASSUME JInv, NEW t \in Emitters, Begin(t) PROVE JInv'
<1> DEFINE new == <<t, number[t] + 1>>
<1>1. /\ pc[t] = "idle" /\ number[t] \in Nat /\ number[t] + 1 \in 1..MaxEvents
      /\ calls \in Nat /\ new \in Event
  BY JournalAssumption DEF JInv, TypeInv, Begin, Event
<1>2. /\ number' = [number EXCEPT ![t] = number[t] + 1]
      /\ begun' = [begun EXCEPT ![new] = calls]
      /\ calls' = calls + 1 /\ pc' = [pc EXCEPT ![t] = "waiting"]
      /\ UNCHANGED <<lock, file, returned, failures>>
  BY DEF Begin, Goto
<1>3. \A u \in Emitters : /\ pc'[u] = IF u = t THEN "waiting" ELSE pc[u]
                          /\ number'[u] = IF u = t THEN number[t] + 1 ELSE number[u]
  BY <1>2 DEF JInv, TypeInv
<1>4. \A e \in Event : begun'[e] = IF e = new THEN calls ELSE begun[e]
  BY <1>2 DEF JInv, TypeInv
<1>5. TypeInv'
  <2>1. pc' \in [Emitters -> Steps] /\ number' \in [Emitters -> 0..MaxEvents]
    BY <1>1, <1>2 DEF JInv, TypeInv, Steps
  <2>2. \A u \in Emitters : pc'[u] # "idle" => number'[u] # 0
    BY <1>1, <1>3 DEF JInv, TypeInv
  <2>3. begun' \in [Event -> Nat] /\ calls' \in Nat
    BY <1>1, <1>2 DEF JInv, TypeInv
  <2>4. \A e \in Event : begun'[e] < calls'
    BY <1>1, <1>2, <1>4 DEF JInv, TypeInv
  <2> QED BY <1>2, <2>1, <2>2, <2>3, <2>4 DEF JInv, TypeInv
<1>6. OneHolder'
  BY <1>2, <1>3 DEF JInv, OneHolder, Holding
<1>7. \A i \in Positions :
          /\ file[i].event \in Event /\ file[i].event # new
          /\ file[i].event[1] \in Emitters /\ file[i].event[2] \in 1..MaxEvents
          /\ file[i].event[2] <= number[file[i].event[1]]
  <2> TAKE i \in Positions
  <2>1. file[i].event[2] <= number[file[i].event[1]]
    BY DEF JInv, Begun
  <2> QED BY <1>1, <2>1, PieceFacts DEF JInv
<1>8. Begun'
  <2> SUFFICES ASSUME NEW i \in Positions
               PROVE  LET u == file[i].event[1] IN
                      /\ file[i].event[2] <= number'[u]
                      /\ file[i].event = <<u, number'[u]>> =>
                             pc'[u] \notin {"waiting", "open"}
    BY <1>2 DEF Begun, Positions, Current
  <2> QED BY <1>1, <1>3, <1>7 DEF JInv, Begun, Current
<1>9. Distinct' /\ TailsFollow'
  BY <1>2 DEF JInv, Distinct, TailsFollow, Positions
<1>10. HeadsFollowed'
  BY <1>1, <1>2, <1>3, <1>7 DEF JInv, HeadsFollowed, Positions
<1>11. AtEnd'
  BY <1>2, <1>3 DEF JInv, AtEnd, Current
<1>12. ReturnedWritten'
  BY <1>2 DEF JInv, ReturnedWritten, Positions
<1>13. InCallOrder'
  <2> SUFFICES ASSUME NEW j \in Positions, NEW i \in Positions, NEW n \in 1..MaxEvents,
                      i <= j, file[j].event[2] < n, n <= number'[file[j].event[1]]
               PROVE  begun'[file[i].event] < begun'[<<file[j].event[1], n>>]
    BY <1>2 DEF InCallOrder, Positions
  <2> DEFINE u == file[j].event[1]
  <2>1. u \in Emitters /\ <<u, n>> \in Event
    BY <1>7 DEF Event
  <2>2. begun'[file[i].event] = begun[file[i].event] /\ begun[file[i].event] < calls
    BY <1>4, <1>7 DEF JInv, TypeInv
  <2>3. CASE <<u, n>> = new
    BY <1>4, <2>1, <2>2, <2>3
  <2>4. CASE <<u, n>> # new
    <3>1. n <= number[u]
      BY <1>1, <1>3, <2>1, <2>4
    <3>2. begun[file[i].event] < begun[<<u, n>>]
      BY <3>1 DEF JInv, InCallOrder
    <3> QED BY <1>4, <2>1, <2>2, <2>4, <3>2
  <2> QED BY <2>3, <2>4
<1> QED BY <1>5, <1>6, <1>8, <1>9, <1>10, <1>11, <1>12, <1>13 DEF JInv

(* Steps that touch neither the file nor the order of the calls.           *)
LEMMA QuietStep ==
    ASSUME JInv, UNCHANGED <<number, begun, calls, file>>,
           pc' \in [Emitters -> Steps],
           \A t \in Emitters : /\ pc'[t] # "idle" => pc[t] # "idle"
                               /\ pc'[t] \in Holding => lock' = t
                               /\ pc'[t] \in {"waiting", "open"} =>
                                      pc[t] \in {"waiting", "open"}
                               /\ pc'[t] \in {"partial", "written"} => pc'[t] = pc[t]
                               /\ pc[t] = "partial" /\ pc'[t] # "partial" =>
                                      Current(t) \in failures',
           failures \subseteq failures',
           \A e \in returned' : \E i \in Positions : file[i] = TailOf(e)
    PROVE  JInv'
<1>1. TypeInv'
  BY DEF JInv, TypeInv
<1>2. OneHolder'
  BY DEF OneHolder
<1>3. Begun'
  <2> SUFFICES ASSUME NEW i \in Positions
               PROVE  LET u == file[i].event[1] IN
                      /\ file[i].event[2] <= number[u]
                      /\ file[i].event = Current(u) => pc'[u] \notin {"waiting", "open"}
    BY DEF Begun, Positions, Current
  <2> QED BY PieceFacts DEF JInv, Begun
<1>4. Distinct' /\ TailsFollow'
  BY DEF JInv, Distinct, TailsFollow, Positions
<1>5. HeadsFollowed'
  <2> SUFFICES ASSUME NEW i \in Positions, file[i].part = "head"
               PROVE  \/ file[i].event \in failures'
                      \/ i < Len(file) /\ file[i + 1] = TailOf(file[i].event)
                      \/ i = Len(file) /\ pc'[file[i].event[1]] = "partial"
    BY DEF HeadsFollowed, Positions
  <2> DEFINE u == file[i].event[1]
  <2>1. CASE i = Len(file) /\ pc[u] = "partial" /\ pc'[u] # "partial"
    <3>1. u \in Emitters
      BY PieceFacts DEF JInv
    <3>2. file[i] = HeadOf(Current(u)) /\ Current(u) \in failures'
      BY <2>1, <3>1 DEF JInv, AtEnd
    <3> QED BY <3>2 DEF HeadOf
  <2>2. CASE ~(i = Len(file) /\ pc[u] = "partial" /\ pc'[u] # "partial")
    BY <2>2 DEF JInv, HeadsFollowed
  <2> QED BY <2>1, <2>2
<1>6. AtEnd'
  BY DEF JInv, AtEnd, Current
<1>7. ReturnedWritten'
  BY DEF ReturnedWritten, Positions
<1>8. InCallOrder'
  BY DEF JInv, InCallOrder, Positions
<1> QED BY <1>1, <1>2, <1>3, <1>4, <1>5, <1>6, <1>7, <1>8 DEF JInv

LEMMA OpenStep == ASSUME JInv, NEW t \in Emitters, Open(t) PROVE JInv'
<1>1. \A u \in Emitters : pc'[u] = IF u = t THEN "open" ELSE pc[u]
  BY DEF JInv, TypeInv, Open, Goto
<1>2. pc' \in [Emitters -> Steps]
  BY DEF JInv, TypeInv, Open, Goto, Steps
<1>3. \A u \in Emitters : pc[u] \notin Holding
  BY JournalAssumption DEF JInv, OneHolder, Open
<1> QED BY <1>1, <1>2, <1>3, QuietStep DEF Open, JInv, ReturnedWritten, Holding

LEMMA ReturnStep == ASSUME JInv, NEW t \in Emitters, Return(t) PROVE JInv'
<1>1. \A u \in Emitters : pc'[u] = IF u = t THEN "idle" ELSE pc[u]
  BY DEF JInv, TypeInv, Return, Goto
<1>2. pc' \in [Emitters -> Steps]
  BY DEF JInv, TypeInv, Return, Goto, Steps
<1>3. \A u \in Emitters : u # t => pc[u] \notin Holding
  BY DEF JInv, OneHolder, Return, Holding
<1>4. \E i \in Positions : file[i] = TailOf(Current(t))
  BY DEF JInv, TypeInv, AtEnd, Return, Positions
<1>5. \A e \in returned' : \E i \in Positions : file[i] = TailOf(e)
  BY <1>4 DEF JInv, ReturnedWritten, Return
<1> QED BY <1>1, <1>2, <1>3, <1>5, QuietStep DEF Return, Holding

LEMMA FailStep == ASSUME JInv, NEW t \in Emitters, Fail(t) PROVE JInv'
<1>1. \A u \in Emitters : pc'[u] = IF u = t THEN "idle" ELSE pc[u]
  BY DEF JInv, TypeInv, Fail, Goto
<1>2. pc' \in [Emitters -> Steps]
  BY DEF JInv, TypeInv, Fail, Goto, Steps
<1>3. \A u \in Emitters : u # t => pc[u] \notin Holding
  BY DEF JInv, OneHolder, Fail, Holding
<1> QED BY <1>1, <1>2, <1>3, QuietStep DEF Fail, JInv, ReturnedWritten, Holding

LEMMA CrashStep == ASSUME JInv, Crash PROVE JInv'
<1>1. pc' = [u \in Emitters |-> "idle"]
  BY DEF Crash
<1>2. pc' \in [Emitters -> Steps]
  BY <1>1 DEF Steps
<1>3. \A u \in Emitters : pc[u] = "partial" => Current(u) \in failures'
  BY DEF Crash
<1>4. \A e \in returned' : \E i \in Positions : file[i] = TailOf(e)
  BY DEF JInv, ReturnedWritten, Crash
<1>5. failures \subseteq failures' /\ UNCHANGED <<number, begun, calls, file>>
  BY DEF Crash
<1> QED BY <1>1, <1>2, <1>3, <1>4, <1>5, QuietStep DEF Holding
-----------------------------------------------------------------------------
(* What one or two pieces at the end of the file add to it.                *)
LEMMA OnePiece ==
    ASSUME TypeInv, NEW p \in Piece, file' = file \o <<p>>
    PROVE  /\ file' \in Seq(Piece) /\ Len(file') = Len(file) + 1
           /\ file'[Len(file) + 1] = p
           /\ \A i \in Positions : file'[i] = file[i]
<1>1. file \in Seq(Piece) /\ <<p>> \in Seq(Piece) /\ Len(<<p>>) = 1
  BY DEF TypeInv
<1>2. /\ file' \in Seq(Piece) /\ Len(file') = Len(file) + 1
      /\ \A i \in 1..Len(file) + 1 :
             file'[i] = IF i <= Len(file) THEN file[i] ELSE <<p>>[i - Len(file)]
  BY <1>1, ConcatProperties
<1> QED BY <1>1, <1>2 DEF Positions

LEMMA TwoPieces ==
    ASSUME TypeInv, NEW p \in Piece, NEW q \in Piece, file' = file \o <<p, q>>
    PROVE  /\ file' \in Seq(Piece) /\ Len(file') = Len(file) + 2
           /\ file'[Len(file) + 1] = p /\ file'[Len(file) + 2] = q
           /\ \A i \in Positions : file'[i] = file[i]
<1>1. file \in Seq(Piece) /\ <<p, q>> \in Seq(Piece) /\ Len(<<p, q>>) = 2
  BY DEF TypeInv
<1>2. /\ file' \in Seq(Piece) /\ Len(file') = Len(file) + 2
      /\ \A i \in 1..Len(file) + 2 :
             file'[i] = IF i <= Len(file) THEN file[i] ELSE <<p, q>>[i - Len(file)]
  BY <1>1, ConcatProperties
<1> QED BY <1>1, <1>2 DEF Positions

(* A write of the emitter that holds the lock, whatever it appends: what   *)
(* stood in the file stays, and what is new is of its current event.       *)
Appends(t) ==
    /\ file' \in Seq(Piece) /\ Len(file') > Len(file)
    /\ \A i \in Positions : file'[i] = file[i]
    /\ \A i \in Positions' \ Positions : file'[i].event = Current(t)

LEMMA AppendKeeps ==
    ASSUME JInv, NEW t \in Emitters, pc[t] \in {"open", "partial"},
           NEW s \in {"partial", "written"}, Goto(t, s), Appends(t),
           UNCHANGED <<number, begun, calls, lock, returned, failures>>
    PROVE  /\ TypeInv' /\ OneHolder' /\ Begun' /\ ReturnedWritten' /\ InCallOrder'
           /\ \A u \in Emitters : pc'[u] = IF u = t THEN s ELSE pc[u]
           /\ \A u \in Emitters : u # t => pc[u] \notin Holding
<1>1. \A u \in Emitters : pc'[u] = IF u = t THEN s ELSE pc[u]
  BY DEF JInv, TypeInv, Goto
<1>2. \A u \in Emitters : u # t => pc[u] \notin Holding
  BY DEF JInv, OneHolder, Holding
<1>3. Current(t)[1] = t /\ Current(t)[2] = number[t] /\ number[t] \in 1..MaxEvents
  BY CurrentFacts DEF JInv
<1>4. TypeInv'
  <2>1. pc' \in [Emitters -> Steps]
    BY DEF JInv, TypeInv, Goto, Steps
  <2>2. \A u \in Emitters : pc'[u] # "idle" => number[u] # 0
    BY <1>1 DEF JInv, TypeInv
  <2> QED BY <2>1, <2>2 DEF JInv, TypeInv, Appends
<1>5. OneHolder'
  BY <1>1, <1>2 DEF JInv, OneHolder, Holding
<1>6. Begun'
  <2> SUFFICES ASSUME NEW i \in Positions'
               PROVE  LET u == file'[i].event[1] IN
                      /\ file'[i].event[2] <= number[u]
                      /\ file'[i].event = Current(u) => pc'[u] \notin {"waiting", "open"}
    BY DEF Begun, Current
  <2>1. CASE i \in Positions
    <3>1. file'[i] = file[i] /\ file[i].event[1] \in Emitters
      BY <2>1, PieceFacts DEF Appends, JInv
    <3> QED BY <1>1, <2>1, <3>1 DEF JInv, Begun
  <2>2. CASE i \notin Positions
    <3>1. file'[i].event = Current(t)
      BY <2>2 DEF Appends
    <3> QED BY <1>1, <1>3, <3>1
  <2> QED BY <2>1, <2>2
<1>7. Positions \subseteq Positions'
  BY DEF JInv, TypeInv, Appends, Positions
<1>8. ReturnedWritten'
  BY <1>7 DEF JInv, ReturnedWritten, Appends, TailOf
<1>9. InCallOrder'
  <2> SUFFICES ASSUME NEW j \in Positions', NEW i \in Positions', NEW n \in 1..MaxEvents,
                      i <= j, file'[j].event[2] < n, n <= number[file'[j].event[1]]
               PROVE  begun[file'[i].event] < begun[<<file'[j].event[1], n>>]
    BY DEF InCallOrder
  <2>1. j \in Positions
    BY <1>3 DEF Appends
  <2>2. i \in Positions
    BY <2>1 DEF Positions, JInv, TypeInv
  <2> QED BY <2>1, <2>2 DEF JInv, InCallOrder, Appends
<1> QED BY <1>1, <1>2, <1>4, <1>5, <1>6, <1>8, <1>9

LEMMA WriteHeadStep == ASSUME JInv, NEW t \in Emitters, WriteHead(t) PROVE JInv'
<1> DEFINE head == HeadOf(Current(t))
           n == Len(file)
<1>1. /\ pc[t] = "open" /\ Goto(t, "partial") /\ file' = file \o <<head>>
      /\ UNCHANGED <<number, begun, calls, lock, returned, failures>>
  BY DEF WriteHead, Put
<1>2. /\ Current(t)[1] = t /\ head \in Piece
      /\ head.event = Current(t) /\ head.part = "head" /\ n \in Nat
  BY <1>1, CurrentFacts DEF JInv, HeadOf, TypeInv
<1>3. /\ file' \in Seq(Piece) /\ Len(file') = n + 1 /\ file'[n + 1] = head
      /\ \A i \in Positions : file'[i] = file[i]
  BY <1>1, <1>2, OnePiece DEF JInv
<1>4. Positions' = Positions \cup {n + 1} /\ Positions = 1..n
  BY <1>2, <1>3 DEF Positions
<1>5. Appends(t)
  BY <1>2, <1>3, <1>4 DEF Appends
<1>6. /\ TypeInv' /\ OneHolder' /\ Begun' /\ ReturnedWritten' /\ InCallOrder'
      /\ \A u \in Emitters : pc'[u] = IF u = t THEN "partial" ELSE pc[u]
      /\ \A u \in Emitters : u # t => pc[u] \notin Holding
  BY <1>1, <1>5, AppendKeeps
<1>7. \A i \in Positions : file[i].event # Current(t)
  BY <1>1, <1>2, PieceFacts DEF JInv, Begun
<1>8. Distinct'
  BY <1>2, <1>3, <1>4, <1>7 DEF JInv, Distinct
<1>9. TailsFollow'
  <2> SUFFICES ASSUME NEW i \in Positions', file'[i].part = "tail"
               PROVE  i > 1 /\ file'[i - 1] = HeadOf(file'[i].event)
    BY DEF TailsFollow
  <2>1. i \in Positions /\ i > 1 /\ file[i - 1] = HeadOf(file[i].event)
    BY <1>2, <1>3, <1>4 DEF JInv, TailsFollow
  <2>2. i - 1 \in Positions
    BY <1>2, <1>4, <2>1
  <2> QED BY <1>3, <2>1, <2>2
<1>10. HeadsFollowed'
  <2> SUFFICES ASSUME NEW i \in Positions', file'[i].part = "head"
               PROVE  \/ file'[i].event \in failures
                      \/ i < n + 1 /\ file'[i + 1] = TailOf(file'[i].event)
                      \/ i = n + 1 /\ pc'[file'[i].event[1]] = "partial"
    BY <1>1, <1>3 DEF HeadsFollowed
  <2>1. CASE i = n + 1
    BY <1>2, <1>3, <1>6, <2>1
  <2>2. CASE i \in Positions
    <3>1. file'[i] = file[i] /\ file[i].event[1] \in Emitters
      BY <1>3, <2>2, PieceFacts DEF JInv
    <3>2. pc[file[i].event[1]] # "partial"
      BY <1>1, <1>6, <3>1 DEF Holding
    <3>3. \/ file[i].event \in failures
          \/ i < n /\ file[i + 1] = TailOf(file[i].event)
      BY <2>2, <3>1, <3>2 DEF JInv, HeadsFollowed
    <3>4. i < n => i + 1 \in Positions
      BY <1>2, <1>4, <2>2
    <3> QED BY <1>2, <1>3, <1>4, <2>2, <3>1, <3>3, <3>4
  <2> QED BY <1>4, <2>1, <2>2
<1>11. AtEnd'
  <2>1. \A u \in Emitters : pc'[u] \in {"partial", "written"} => u = t
    BY <1>6 DEF Holding
  <2>2. Len(file') # 0 /\ file'[Len(file')] = HeadOf(Current(t)) /\ pc'[t] = "partial"
    BY <1>2, <1>3, <1>6
  <2> QED BY <1>1, <2>1, <2>2 DEF AtEnd, Current
<1> QED BY <1>6, <1>8, <1>9, <1>10, <1>11 DEF JInv

LEMMA WriteTailStep == ASSUME JInv, NEW t \in Emitters, WriteTail(t) PROVE JInv'
<1> DEFINE tail == TailOf(Current(t))
           n == Len(file)
<1>1. /\ pc[t] = "partial" /\ Goto(t, "written") /\ file' = file \o <<tail>>
      /\ UNCHANGED <<number, begun, calls, lock, returned, failures>>
  BY DEF WriteTail, Put
<1>2. /\ Current(t)[1] = t /\ tail \in Piece
      /\ tail.event = Current(t) /\ tail.part = "tail" /\ n \in Nat
  BY <1>1, CurrentFacts DEF JInv, TailOf, TypeInv
<1>3. /\ file' \in Seq(Piece) /\ Len(file') = n + 1 /\ file'[n + 1] = tail
      /\ \A i \in Positions : file'[i] = file[i]
  BY <1>1, <1>2, OnePiece DEF JInv
<1>4. Positions' = Positions \cup {n + 1} /\ Positions = 1..n
  BY <1>2, <1>3 DEF Positions
<1>5. Appends(t)
  BY <1>2, <1>3, <1>4 DEF Appends
<1>6. /\ TypeInv' /\ OneHolder' /\ Begun' /\ ReturnedWritten' /\ InCallOrder'
      /\ \A u \in Emitters : pc'[u] = IF u = t THEN "written" ELSE pc[u]
      /\ \A u \in Emitters : u # t => pc[u] \notin Holding
  BY <1>1, <1>5, AppendKeeps
<1>7. n \in Positions /\ file[n] = HeadOf(Current(t))
  BY <1>1, <1>2, <1>4 DEF JInv, AtEnd
<1>8. \A i \in Positions : file[i] # tail
  <2> SUFFICES ASSUME NEW i \in Positions, file[i] = tail PROVE FALSE
    OBVIOUS
  <2>1. i > 1 /\ file[i - 1] = HeadOf(Current(t))
    BY <1>2 DEF JInv, TailsFollow
  <2>2. i - 1 \in Positions
    BY <1>2, <1>4, <2>1
  <2>3. i - 1 = n
    BY <1>7, <2>1, <2>2 DEF JInv, Distinct
  <2> QED BY <1>2, <1>4, <2>3
<1>9. Distinct'
  BY <1>2, <1>3, <1>4, <1>8 DEF JInv, Distinct
<1>10. TailsFollow'
  <2> SUFFICES ASSUME NEW i \in Positions', file'[i].part = "tail"
               PROVE  i > 1 /\ file'[i - 1] = HeadOf(file'[i].event)
    BY DEF TailsFollow
  <2>1. CASE i = n + 1
    BY <1>2, <1>3, <1>4, <1>7, <2>1
  <2>2. CASE i \in Positions
    <3>1. i > 1 /\ file[i - 1] = HeadOf(file[i].event)
      BY <1>3, <2>2 DEF JInv, TailsFollow
    <3>2. i - 1 \in Positions
      BY <1>2, <1>4, <2>2, <3>1
    <3> QED BY <1>3, <2>2, <3>1, <3>2
  <2> QED BY <1>4, <2>1, <2>2
<1>11. HeadsFollowed'
  <2> SUFFICES ASSUME NEW i \in Positions', file'[i].part = "head"
               PROVE  \/ file'[i].event \in failures
                      \/ i < n + 1 /\ file'[i + 1] = TailOf(file'[i].event)
    BY <1>1, <1>3 DEF HeadsFollowed
  <2>1. i \in Positions /\ file'[i] = file[i]
    BY <1>2, <1>3, <1>4
  <2>2. CASE i = n
    <3>1. file'[n + 1] = TailOf(file'[n].event)
      BY <1>3, <1>7 DEF HeadOf
    <3> QED BY <1>2, <2>2, <3>1
  <2>3. CASE i < n
    <3>1. i + 1 \in Positions
      BY <1>2, <1>4, <2>1, <2>3
    <3>2. \/ file[i].event \in failures
          \/ file[i + 1] = TailOf(file[i].event)
      BY <1>2, <2>1, <2>3 DEF JInv, HeadsFollowed
    <3>3. file'[i + 1] = file[i + 1]
      BY <1>3, <3>1
    <3> QED BY <1>2, <1>4, <2>1, <2>3, <3>2, <3>3
  <2> QED BY <1>2, <1>4, <2>1, <2>2, <2>3
<1>12. AtEnd'
  <2>1. \A u \in Emitters : pc'[u] \in {"partial", "written"} => u = t
    BY <1>6 DEF Holding
  <2>2. Len(file') # 0 /\ file'[Len(file')] = TailOf(Current(t)) /\ pc'[t] = "written"
    BY <1>2, <1>3, <1>6
  <2> QED BY <1>1, <2>1, <2>2 DEF AtEnd, Current
<1> QED BY <1>6, <1>9, <1>10, <1>11, <1>12 DEF JInv

LEMMA WriteLineStep == ASSUME JInv, NEW t \in Emitters, WriteLine(t) PROVE JInv'
<1> DEFINE head == HeadOf(Current(t))
           tail == TailOf(Current(t))
           n == Len(file)
<1>1. /\ pc[t] = "open" /\ Goto(t, "written") /\ file' = file \o <<head, tail>>
      /\ UNCHANGED <<number, begun, calls, lock, returned, failures>>
  BY DEF WriteLine, Put
<1>2. /\ Current(t)[1] = t /\ head \in Piece /\ tail \in Piece
      /\ head.event = Current(t) /\ head.part = "head"
      /\ tail.event = Current(t) /\ tail.part = "tail" /\ n \in Nat
  BY <1>1, CurrentFacts DEF JInv, HeadOf, TailOf, TypeInv
<1>3. /\ file' \in Seq(Piece) /\ Len(file') = n + 2
      /\ file'[n + 1] = head /\ file'[n + 2] = tail
      /\ \A i \in Positions : file'[i] = file[i]
  BY <1>1, <1>2, TwoPieces DEF JInv
<1>4. Positions' = Positions \cup {n + 1, n + 2} /\ Positions = 1..n
  BY <1>2, <1>3 DEF Positions
<1>5. Appends(t)
  BY <1>2, <1>3, <1>4 DEF Appends
<1>6. /\ TypeInv' /\ OneHolder' /\ Begun' /\ ReturnedWritten' /\ InCallOrder'
      /\ \A u \in Emitters : pc'[u] = IF u = t THEN "written" ELSE pc[u]
      /\ \A u \in Emitters : u # t => pc[u] \notin Holding
  BY <1>1, <1>5, AppendKeeps
<1>7. \A i \in Positions : file[i].event # Current(t)
  BY <1>1, <1>2, PieceFacts DEF JInv, Begun
<1>8. Distinct'
  BY <1>2, <1>3, <1>4, <1>7 DEF JInv, Distinct
<1>9. TailsFollow'
  <2> SUFFICES ASSUME NEW i \in Positions', file'[i].part = "tail"
               PROVE  i > 1 /\ file'[i - 1] = HeadOf(file'[i].event)
    BY DEF TailsFollow
  <2>1. CASE i = n + 2
    BY <1>2, <1>3, <2>1
  <2>2. CASE i \in Positions
    <3>1. i > 1 /\ file[i - 1] = HeadOf(file[i].event)
      BY <1>3, <2>2 DEF JInv, TailsFollow
    <3>2. i - 1 \in Positions
      BY <1>2, <1>4, <2>2, <3>1
    <3> QED BY <1>3, <2>2, <3>1, <3>2
  <2> QED BY <1>2, <1>3, <1>4, <2>1, <2>2
<1>10. HeadsFollowed'
  <2> SUFFICES ASSUME NEW i \in Positions', file'[i].part = "head"
               PROVE  \/ file'[i].event \in failures
                      \/ i < n + 2 /\ file'[i + 1] = TailOf(file'[i].event)
    BY <1>1, <1>3 DEF HeadsFollowed
  <2>1. CASE i = n + 1
    BY <1>2, <1>3, <2>1
  <2>2. CASE i \in Positions
    <3>1. file'[i] = file[i] /\ file[i].event[1] \in Emitters
      BY <1>3, <2>2, PieceFacts DEF JInv
    <3>2. pc[file[i].event[1]] # "partial"
      BY <1>1, <1>6, <3>1 DEF Holding
    <3>3. \/ file[i].event \in failures
          \/ i < n /\ file[i + 1] = TailOf(file[i].event)
      BY <2>2, <3>1, <3>2 DEF JInv, HeadsFollowed
    <3>4. i < n => i + 1 \in Positions
      BY <1>2, <1>4, <2>2
    <3> QED BY <1>2, <1>3, <1>4, <2>2, <3>1, <3>3, <3>4
  <2> QED BY <1>2, <1>3, <1>4, <2>1, <2>2
<1>11. AtEnd'
  <2>1. \A u \in Emitters : pc'[u] \in {"partial", "written"} => u = t
    BY <1>6 DEF Holding
  <2>2. Len(file') # 0 /\ file'[Len(file')] = TailOf(Current(t)) /\ pc'[t] = "written"
    BY <1>2, <1>3, <1>6
  <2> QED BY <1>1, <2>1, <2>2 DEF AtEnd, Current
<1> QED BY <1>6, <1>8, <1>9, <1>10, <1>11 DEF JInv
-----------------------------------------------------------------------------
(* JInv is an invariant of all emitters together.                          *)
THEOREM JournalInvariant == Spec => []JInv
<1>1. JInv /\ [Next]_vars => JInv'
  <2> SUFFICES ASSUME JInv, [Next]_vars PROVE JInv'
    OBVIOUS
  <2>1. CASE UNCHANGED vars
    BY <2>1 DEF vars, JInv, TypeInv, OneHolder, Begun, Current, Distinct, TailsFollow,
                HeadsFollowed, AtEnd, ReturnedWritten, InCallOrder, Positions
  <2>2. CASE Next
    BY <2>2, BeginStep, OpenStep, WriteLineStep, WriteHeadStep, WriteTailStep,
       ReturnStep, FailStep, CrashStep DEF Next
  <2> QED BY <2>1, <2>2
<1> QED BY <1>1, InitInv, PTL DEF Spec

(* A returned event stands whole in the file, and what stands before its   *)
(* line ends a line or is the head of a failed emit.                       *)
LEMMA WholeAfterLineOrFailure == JInv => DamageIsLocal
<1> SUFFICES ASSUME JInv, NEW e \in returned, ~OwnLine(e)
             PROVE  \E i \in Starts(e) : i > 1 /\ file[i - 1].event \in failures
  BY DEF DamageIsLocal
<1>1. PICK k \in Positions : file[k] = TailOf(e)
  BY DEF JInv, ReturnedWritten
<1>2. k > 1 /\ file[k - 1] = HeadOf(e) /\ Len(file) \in Nat
  BY <1>1, PieceFacts DEF JInv, TailsFollow, TailOf
<1>3. k - 1 \in Starts(e)
  BY <1>1, <1>2 DEF Starts, Positions
<1>4. k - 1 # 1 /\ file[k - 2].part # "tail"
  BY <1>2, <1>3 DEF OwnLine, Positions
<1>5. k - 2 \in Positions /\ k - 2 < Len(file)
  BY <1>2, <1>4 DEF Positions
<1>6. file[k - 2].part = "head"
  BY <1>4, <1>5, PieceFacts DEF JInv, Piece
<1>7. file[(k - 2) + 1].part = "head"
  BY <1>2, <1>5 DEF HeadOf, Positions
<1>8. \/ file[k - 2].event \in failures
      \/ file[(k - 2) + 1] = TailOf(file[k - 2].event)
  BY <1>2, <1>5, <1>6 DEF JInv, HeadsFollowed, Positions
<1>9. file[k - 2].event \in failures
  BY <1>7, <1>8 DEF TailOf
<1> QED BY <1>2, <1>3, <1>4, <1>9 DEF Positions

(* A set no two of whose members differ has at most one.                   *)
LEMMA AtMostOne ==
    ASSUME NEW S, \A x, y \in S : x = y
    PROVE  IsFiniteSet(S) /\ Cardinality(S) \in {0, 1}
<1>1. CASE S = {}
  BY <1>1, FS_EmptySet
<1>2. CASE S # {}
  <2>1. PICK x \in S : TRUE
    BY <1>2
  <2>2. S = {x}
    BY <2>1
  <2> QED BY <2>2, FS_Singleton
<1> QED BY <1>1, <1>2

(* An event has at most one head and one tail.                             *)
LEMMA AtMostTwoPieces == JInv => RecordedOnce
<1> SUFFICES ASSUME JInv, NEW e \in Event PROVE Cardinality(Pieces(e)) <= 2
  BY DEF RecordedOnce
<1> DEFINE heads == {i \in Positions : file[i] = HeadOf(e)}
           tails == {i \in Positions : file[i] = TailOf(e)}
<1>1. Pieces(e) = heads \cup tails
  <2>1. \A i \in Positions : file[i].event = e <=> file[i] \in {HeadOf(e), TailOf(e)}
    BY PieceFacts DEF JInv, Piece, HeadOf, TailOf
  <2> QED BY <2>1 DEF Pieces, Positions
<1>2. IsFiniteSet(heads) /\ Cardinality(heads) \in {0, 1}
  <2>1. \A i, j \in heads : i = j
    BY DEF JInv, Distinct
  <2> HIDE DEF heads
  <2> QED BY <2>1, AtMostOne
<1>3. IsFiniteSet(tails) /\ Cardinality(tails) \in {0, 1}
  <2>1. \A i, j \in tails : i = j
    BY DEF JInv, Distinct
  <2> HIDE DEF tails
  <2> QED BY <2>1, AtMostOne
<1> HIDE DEF heads, tails
<1>4. IsFiniteSet(heads \cap tails)
  BY <1>2, FS_Subset
<1>5. Cardinality(heads \cap tails) \in Nat
  BY <1>4, FS_CardinalityType
<1>6. Cardinality(heads \cup tails)
          = Cardinality(heads) + Cardinality(tails) - Cardinality(heads \cap tails)
  BY <1>2, <1>3, FS_Union
<1> QED BY <1>1, <1>2, <1>3, <1>5, <1>6

(* Of two older events of one emitter that follow a line, the later one    *)
(* began after that line was in the file.                                  *)
LEMMA AtMostOneOlder == JInv => LinesFollowCalls
<1> SUFFICES ASSUME JInv, NEW i \in Positions, NEW t \in Emitters
             PROVE  Cardinality({e \in {t} \X (1..MaxEvents) :
                        /\ begun[e] < begun[file[i].event]
                        /\ \E j \in Pieces(e) : j > i})
                        <= IF t = file[i].event[1] THEN 0 ELSE 1
  BY DEF LinesFollowCalls, Positions
<1> DEFINE older == {e \in {t} \X (1..MaxEvents) :
                        /\ begun[e] < begun[file[i].event]
                        /\ \E j \in Pieces(e) : j > i}
<1>1. \A e \in Event : begun[e] \in Nat
  BY DEF JInv, TypeInv
<1>2. file[i].event \in Event
  BY PieceFacts DEF JInv
<1>3. ASSUME NEW m \in 1..MaxEvents, NEW n \in 1..MaxEvents, m < n,
             <<t, m>> \in older, <<t, n>> \in older
      PROVE  FALSE
  <2>1. PICK j \in Positions : j > i /\ file[j].event = <<t, m>>
    BY <1>3 DEF Pieces, Positions
  <2>2. PICK k \in Positions : file[k].event = <<t, n>>
    BY <1>3 DEF Pieces, Positions
  <2>3. n <= number[t]
    BY <2>2 DEF JInv, Begun
  <2>4. begun[file[i].event] < begun[<<t, n>>]
    BY <1>3, <2>1, <2>3 DEF JInv, InCallOrder, Positions
  <2>5. begun[<<t, n>>] < begun[file[i].event]
    BY <1>3
  <2> QED BY <1>1, <1>2, <2>4, <2>5 DEF Event
<1>4. \A x, y \in older : x = y
  <2> SUFFICES ASSUME NEW x \in older, NEW y \in older PROVE x = y
    OBVIOUS
  <2>1. /\ x = <<t, x[2]>> /\ y = <<t, y[2]>>
        /\ x[2] \in 1..MaxEvents /\ y[2] \in 1..MaxEvents
    OBVIOUS
  <2>2. ~(x[2] < y[2]) /\ ~(y[2] < x[2])
    BY <1>3, <2>1
  <2> QED BY <2>1, <2>2, JournalAssumption
<1>5. t = file[i].event[1] => older = {}
  <2> SUFFICES ASSUME t = file[i].event[1], NEW m \in 1..MaxEvents, <<t, m>> \in older
               PROVE  FALSE
    OBVIOUS
  <2> DEFINE k == file[i].event[2]
  <2>1. k \in 1..MaxEvents /\ file[i].event = <<t, k>>
    BY PieceFacts DEF JInv
  <2>2. begun[<<t, m>>] < begun[<<t, k>>]
    BY <2>1
  <2>3. PICK j \in Positions : j > i /\ file[j].event = <<t, m>>
    BY DEF Pieces, Positions
  <2>4. k <= number[t] /\ m <= number[t]
    BY <2>1, <2>3 DEF JInv, Begun
  <2>5. CASE m < k
    <3>1. begun[file[i].event] < begun[<<t, k>>]
      BY <2>1, <2>3, <2>4, <2>5 DEF JInv, InCallOrder, Positions
    <3> QED BY <1>1, <1>2, <2>1, <3>1
  <2>6. CASE k < m
    <3>1. begun[file[i].event] < begun[<<t, m>>]
      BY <2>1, <2>4, <2>6 DEF JInv, InCallOrder, Positions
    <3> QED BY <1>1, <1>2, <2>1, <2>2, <3>1 DEF Event
  <2>7. CASE m = k
    BY <1>1, <1>2, <2>1, <2>2, <2>7
  <2> QED BY <2>1, <2>5, <2>6, <2>7, JournalAssumption
<1>6. Cardinality(older) \in {0, 1}
  <2> HIDE DEF older
  <2> QED BY <1>4, AtMostOne
<1>7. t = file[i].event[1] => Cardinality(older) = 0
  <2> HIDE DEF older
  <2> QED BY <1>5, FS_EmptySet
<1> QED BY <1>6, <1>7

(* One failure costs at most the line after it, whatever the threads.      *)
THEOREM JournalDamageIsLocal == Spec => []DamageIsLocal
  BY JournalInvariant, WholeAfterLineOrFailure, PTL

(* No event is recorded twice.                                             *)
THEOREM JournalRecordsOnce == Spec => []RecordedOnce
  BY JournalInvariant, AtMostTwoPieces, PTL

(* The lines keep the order of the calls up to one event per thread.       *)
THEOREM JournalFollowsCalls == Spec => []LinesFollowCalls
  BY JournalInvariant, AtMostOneOlder, PTL
=============================================================================
