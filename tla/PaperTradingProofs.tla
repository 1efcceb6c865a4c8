------------------------- MODULE PaperTradingProofs -------------------------
(***************************************************************************)
(* Proofs about the paper engine's order book.  That an order's fills stay *)
(* below twice its quantity is not inductive: what the last fill adds is   *)
(* the whole quantity, so one must know that the parts booked before it    *)
(* add up to what the order reports, and that this is less than its        *)
(* quantity as long as the order rests.  That a position is what its fills *)
(* bought follows by adding up, turn by turn, what a step books.           *)
(***************************************************************************)
EXTENDS PaperTrading, InductionLemmas, TLAPS

\* What holds of an order that rests.
RestingShape ==
  \A o \in resting :
    /\ book[o].status \in {"PENDING", "PARTIALLY_FILLED"}
    /\ book[o].type \in {"LIMIT", "SL"}
    /\ booked[o] = book[o].filled
    /\ book[o].filled < book[o].quantity
    /\ ~realism => book[o].filled = 0

\* Only placed orders have fills.
Unplaced == \A o \in Orders \ DOMAIN book : booked[o] = 0

BookInv == PaperTypeOK /\ RestingShape /\ Unplaced /\ FillsBounded

\* Updating status and reported quantity of a record.
LEMMA RecordUpdate ==
  ASSUME NEW ord \in OrderRecords, NEW st \in Statuses, NEW n \in Nat
  PROVE  /\ [ord EXCEPT !.status = st] \in OrderRecords
         /\ [ord EXCEPT !.status = st, !.filled = n] \in OrderRecords
         /\ [ord EXCEPT !.status = st, !.filled = @ + n] \in OrderRecords
  <1>1. ord.filled + n \in Nat
    BY DEF OrderRecords
  <1>2. [ord EXCEPT !.status = st] \in OrderRecords
    BY DEF OrderRecords
  <1>3. [ord EXCEPT !.status = st, !.filled = n] \in OrderRecords
    BY <1>2 DEF OrderRecords
  <1>4. [ord EXCEPT !.status = st, !.filled = @ + n] \in OrderRecords
    BY <1>1, <1>2 DEF OrderRecords
  <1> QED BY <1>2, <1>3, <1>4

\* Facts about one record after a fill of n.
LEMMA FilledShape ==
  ASSUME NEW ord \in OrderRecords, ord.filled < ord.quantity, NEW price,
         ord.type \in {"LIMIT", "SL"}, ~realism => ord.filled = 0,
         NEW n \in FillSizes(ord, price)
  PROVE  /\ n \in Nat
         /\ Filled(ord, n) \in OrderRecords
         /\ Filled(ord, n).quantity = ord.quantity /\ Filled(ord, n).type = ord.type
         /\ Filled(ord, n).symbol = ord.symbol /\ Filled(ord, n).side = ord.side
         /\ \/ n = 0 /\ Filled(ord, n) = ord
            \/ /\ n = ord.quantity
               /\ Filled(ord, n).status = "FILLED" /\ Filled(ord, n).filled = n
            \/ /\ realism /\ n > 0 /\ n < ord.quantity
               /\ Filled(ord, n).status = "PARTIALLY_FILLED"
               /\ Filled(ord, n).filled = ord.filled + n
               /\ ord.filled + n < ord.quantity
  <1>1. ord.quantity \in Nat \ {0} /\ ord.filled \in Nat
    BY PaperAssumption DEF OrderRecords
  <1>2. n = 0 \/ n = ord.quantity \/ (realism /\ n \in Parts(ord.quantity - ord.filled))
    BY DEF FillSizes, Dice
  <1>3. CASE n = 0
    BY <1>3 DEF Filled
  <1>4. CASE n = ord.quantity
    BY <1>1, <1>4 DEF Filled, OrderRecords, Statuses
  <1>5. CASE realism /\ n \in Parts(ord.quantity - ord.filled)
    <2>1. n \in Nat /\ n > 0 /\ ord.filled + n < ord.quantity
      BY <1>1, <1>5 DEF Parts
    <2>2. n # 0 /\ n # ord.quantity /\ n < ord.quantity
      BY <1>1, <2>1
    <2>3. Filled(ord, n) = [ord EXCEPT !.status = "PARTIALLY_FILLED", !.filled = @ + n]
      BY <2>2 DEF Filled
    <2>4. Filled(ord, n) \in OrderRecords
      <3>1. "PARTIALLY_FILLED" \in Statuses /\ n \in Nat
        BY <2>1 DEF Statuses
      <3>2. [ord EXCEPT !.status = "PARTIALLY_FILLED", !.filled = @ + n] \in OrderRecords
        BY <3>1, RecordUpdate, Zenon
      <3> QED BY <2>3, <3>2
    <2> QED BY <1>1, <1>5, <2>1, <2>2, <2>3, <2>4 DEF OrderRecords
  <1> QED BY <1>2, <1>3, <1>4, <1>5

-----------------------------------------------------------------------------
\* A placement adds one record; what is filled of it is booked.
LEMMA EnterKeeps ==
  ASSUME BookInv, NEW o \in Orders, NEW ord \in OrderRecords, Enter(o, ord),
         ord.filled \in {0, ord.quantity},
         booked' = [booked EXCEPT ![o] = ord.filled],
         \/ resting' = resting
         \/ /\ resting' = resting \cup {o}
            /\ ord.type \in {"LIMIT", "SL"} /\ ord.status = "PENDING" /\ ord.filled = 0,
         UNCHANGED <<realism, ltp>>
  PROVE  BookInv'
  <1> USE DEF BookInv
  <1>1. /\ o \notin DOMAIN book /\ DOMAIN book' = DOMAIN book \cup {o}
        /\ book'[o] = ord /\ \A x \in DOMAIN book : book'[x] = book[x]
    BY DEF Enter
  <1>2. ord.quantity \in Nat \ {0}
    BY PaperAssumption DEF OrderRecords
  <1>3. /\ booked' \in [Orders -> Nat] /\ booked'[o] = ord.filled
        /\ \A x \in Orders : x # o => booked'[x] = booked[x]
    BY <1>2 DEF PaperTypeOK
  <1>4. o \notin resting /\ resting \subseteq DOMAIN book /\ DOMAIN book \subseteq Orders
    BY <1>1 DEF PaperTypeOK
  <1>5. PaperTypeOK'
    BY <1>1, <1>2, <1>3 DEF PaperTypeOK
  <1>6. RestingShape'
    BY <1>1, <1>2, <1>3, <1>4 DEF RestingShape
  <1>7. Unplaced'
    BY <1>1, <1>3 DEF Unplaced
  <1>8. FillsBounded'
    BY <1>1, <1>2, <1>3, <1>4 DEF FillsBounded
  <1> QED BY <1>5, <1>6, <1>7, <1>8

\* The records of tickets.
LEMMA TicketShape ==
  ASSUME NEW types \in SUBSET {"MARKET", "LIMIT", "SL", "SL_M"}, NEW ord \in Tickets(types)
  PROVE  /\ ord \in OrderRecords /\ ord.type \in types
         /\ ord.filled = 0 /\ ord.status = "PENDING"
         /\ [ord EXCEPT !.status = "REJECTED"] \in OrderRecords
         /\ [ord EXCEPT !.status = "FILLED", !.filled = ord.quantity] \in OrderRecords
  <1>1. /\ ord \in OrderRecords /\ ord.type \in types
        /\ ord.filled = 0 /\ ord.status = "PENDING"
    <2>1. \A q \in Quantities : q \in Nat \ {0}
      BY PaperAssumption
    <2> QED BY <2>1 DEF Tickets, OrderRecords, Statuses
  <1>2. ord.quantity \in Nat
    BY <1>1, PaperAssumption DEF OrderRecords
  <1> QED BY <1>1, <1>2, RecordUpdate DEF Statuses

-----------------------------------------------------------------------------
\* The initial state.
LEMMA BookInit == PaperInit => BookInv
  <1> SUFFICES ASSUME PaperInit PROVE BookInv
    OBVIOUS
  <1>1. DOMAIN book = {} /\ resting = {}
    BY DEF PaperInit
  <1>2. booked \in [Orders -> Nat] /\ \A o \in Orders : booked[o] = 0
    BY DEF PaperInit
  <1>3. PaperTypeOK
    BY <1>1, <1>2 DEF PaperInit, PaperTypeOK
  <1> QED BY <1>1, <1>2, <1>3 DEF BookInv, RestingShape, Unplaced, FillsBounded

-----------------------------------------------------------------------------
\* Cancellations and ticks: each order is left alone, or it rests and is
\* cancelled or filled.
OrderMoves(o) ==
  \/ book'[o] = book[o] /\ booked'[o] = booked[o]
  \/ /\ o \in resting
     /\ book'[o] = [book[o] EXCEPT !.status = "CANCELLED"]
     /\ booked'[o] = booked[o]
  \/ /\ o \in resting
     /\ \E price : \E n \in FillSizes(book[o], price) :
          book'[o] = Filled(book[o], n) /\ booked'[o] = booked[o] + n

\* An order is filled with all of its quantity in one step.
FilledAtOnce(o) == book'[o].status = "FILLED" /\ booked[o] = 0 /\ booked'[o] = book'[o].quantity

\* What a move of one order preserves.
MoveKeeps(o) ==
  /\ book'[o] \in OrderRecords
  /\ book'[o].symbol = book[o].symbol /\ book'[o].side = book[o].side
  /\ ~realism /\ booked'[o] # booked[o] => FilledAtOnce(o)
  /\ book'[o].quantity = book[o].quantity /\ book'[o].type = book[o].type
  /\ book'[o].filled <= booked'[o] /\ book'[o].filled <= book'[o].quantity
  /\ booked'[o] \in Nat /\ booked'[o] < 2 * book'[o].quantity
  /\ booked'[o] # book'[o].filled => realism /\ book'[o].type \in {"LIMIT", "SL"}
  /\ (o \in resting /\ book'[o].status \in {"PENDING", "PARTIALLY_FILLED"}) =>
       /\ booked'[o] = book'[o].filled /\ book'[o].filled < book'[o].quantity
       /\ ~realism => book'[o].filled = 0
  /\ o \notin resting => book'[o] = book[o] /\ booked'[o] = booked[o]
  /\ booked'[o] >= booked[o]
  /\ book'[o].status = "FILLED" => book[o].status = "FILLED" \/ booked'[o] # booked[o]

LEMMA MoveIsSound ==
  ASSUME BookInv, NEW o \in DOMAIN book, OrderMoves(o)
  PROVE  MoveKeeps(o)
  <1> USE DEF BookInv
  <1>1. /\ book[o] \in OrderRecords /\ book[o].filled <= book[o].quantity
        /\ booked[o] \in Nat /\ book[o].quantity \in Nat \ {0} /\ book[o].filled \in Nat
    BY PaperAssumption DEF PaperTypeOK, OrderRecords
  <1>2. /\ book[o].filled <= booked[o] /\ booked[o] < 2 * book[o].quantity
        /\ booked[o] # book[o].filled => realism /\ book[o].type \in {"LIMIT", "SL"}
    BY DEF FillsBounded
  <1>3. o \in resting =>
          /\ booked[o] = book[o].filled /\ book[o].filled < book[o].quantity
          /\ book[o].type \in {"LIMIT", "SL"} /\ (~realism => book[o].filled = 0)
    BY DEF RestingShape
  <1>4. CASE book'[o] = book[o] /\ booked'[o] = booked[o]
    BY <1>1, <1>2, <1>3, <1>4 DEF MoveKeeps
  <1>5. CASE /\ o \in resting
             /\ book'[o] = [book[o] EXCEPT !.status = "CANCELLED"]
             /\ booked'[o] = booked[o]
    <2>1. book'[o] \in OrderRecords
      BY <1>1, <1>5, RecordUpdate DEF Statuses
    <2>2. /\ book'[o].quantity = book[o].quantity /\ book'[o].type = book[o].type
          /\ book'[o].symbol = book[o].symbol /\ book'[o].side = book[o].side
          /\ book'[o].filled = book[o].filled /\ book'[o].status = "CANCELLED"
      BY <1>1, <1>5 DEF OrderRecords
    <2> QED BY <1>1, <1>2, <1>5, <2>1, <2>2 DEF MoveKeeps
  <1>6. ASSUME o \in resting, NEW price, NEW n \in FillSizes(book[o], price),
               book'[o] = Filled(book[o], n), booked'[o] = booked[o] + n
        PROVE  MoveKeeps(o)
    <2> DEFINE ord == book[o]
    <2>1. ord \in OrderRecords /\ ord.filled < ord.quantity
          /\ ord.type \in {"LIMIT", "SL"} /\ (~realism => ord.filled = 0)
      BY <1>1, <1>3, <1>6
    <2>2. /\ n \in Nat
          /\ book'[o] \in OrderRecords
          /\ book'[o].quantity = ord.quantity /\ book'[o].type = ord.type
          /\ book'[o].symbol = ord.symbol /\ book'[o].side = ord.side
          /\ \/ n = 0 /\ book'[o] = ord
             \/ /\ n = ord.quantity
                /\ book'[o].status = "FILLED" /\ book'[o].filled = n
             \/ /\ realism /\ n > 0 /\ n < ord.quantity
                /\ book'[o].status = "PARTIALLY_FILLED"
                /\ book'[o].filled = ord.filled + n
                /\ ord.filled + n < ord.quantity
      <3> HIDE DEF ord
      <3>1. n \in FillSizes(ord, price) /\ book'[o] = Filled(ord, n)
        BY <1>6 DEF ord
      <3> QED BY <2>1, <3>1, FilledShape
    <2> HIDE DEF ord
    <2>3. ord.quantity \in Nat \ {0} /\ ord.filled \in Nat /\ booked[o] = ord.filled
      BY <1>1, <1>3, <1>6 DEF ord
    <2>4. CASE n = 0 /\ book'[o] = ord
      BY <1>6, <2>1, <2>2, <2>3, <2>4 DEF MoveKeeps, ord
    <2>5. CASE n = ord.quantity /\ book'[o].status = "FILLED" /\ book'[o].filled = n
      <3>1. booked'[o] = ord.filled + ord.quantity
        BY <1>6, <2>3, <2>5
      <3>2. booked'[o] # book'[o].filled => realism
        BY <2>1, <2>3, <2>5, <3>1
      <3>3. ~realism => FilledAtOnce(o)
        BY <2>1, <2>2, <2>3, <2>5, <3>1 DEF FilledAtOnce
      <3> QED BY <1>6, <2>1, <2>2, <2>3, <2>5, <3>1, <3>2, <3>3 DEF MoveKeeps, ord
    <2>6. CASE /\ realism /\ n > 0 /\ n < ord.quantity
               /\ book'[o].status = "PARTIALLY_FILLED"
               /\ book'[o].filled = ord.filled + n
               /\ ord.filled + n < ord.quantity
      <3>1. booked'[o] = ord.filled + n
        BY <1>6, <2>3
      <3> QED BY <1>6, <2>1, <2>2, <2>3, <2>6, <3>1 DEF MoveKeeps, ord
    <2> QED BY <2>2, <2>4, <2>5, <2>6
  <1> QED BY <1>4, <1>5, <1>6 DEF OrderMoves

\* What a step may not do to a closed order.
ClosedKept == \A o \in Closed : book'[o] = book[o] /\ booked'[o] = booked[o]

IsFilled(o) == o \in DOMAIN book /\ book[o].status = "FILLED"

\* Fills are only added, and an order becomes filled by a fill, without the fill
\* model by a single one.
FillsFollow ==
  /\ DOMAIN book \subseteq DOMAIN book'
  /\ \A o \in DOMAIN book : book'[o].symbol = book[o].symbol /\ book'[o].side = book[o].side
  /\ \A o \in DOMAIN book' :
       /\ booked'[o] >= booked[o]
       /\ book'[o].status = "FILLED" /\ ~IsFilled(o) => booked'[o] # booked[o]
       /\ ~realism /\ booked'[o] # booked[o] => FilledAtOnce(o)

StepKeeps == BookInv' /\ ClosedKept /\ FillsFollow

\* If every order moves like this, the invariant is kept.
LEMMA MovesKeep ==
  ASSUME BookInv, DOMAIN book' = DOMAIN book,
         \A o \in DOMAIN book : OrderMoves(o),
         \A o \in Orders \ DOMAIN book : booked'[o] = booked[o],
         DOMAIN booked' = Orders, booked' = [o \in Orders |-> booked'[o]],
         resting' = {o \in resting : book'[o].status \in {"PENDING", "PARTIALLY_FILLED"}},
         realism' = realism, ltp' \in [Symbols -> Prices \cup {0}]
  PROVE  StepKeeps
  <1>1. \A o \in DOMAIN book : MoveKeeps(o)
    BY MoveIsSound
  <1>2. resting \subseteq DOMAIN book /\ DOMAIN book \subseteq Orders /\ realism \in BOOLEAN
    BY DEF BookInv, PaperTypeOK
  <1>3. booked' \in [Orders -> Nat]
    <2>1. \A o \in Orders : booked'[o] \in Nat
      BY <1>1 DEF MoveKeeps, BookInv, PaperTypeOK
    <2> QED BY <2>1
  <1>4. PaperTypeOK'
    BY <1>1, <1>2, <1>3 DEF MoveKeeps, PaperTypeOK
  <1>5. RestingShape'
    <2>1. \A o \in resting : book[o].type \in {"LIMIT", "SL"}
      BY DEF BookInv, RestingShape
    <2> QED BY <1>1, <1>2, <2>1 DEF MoveKeeps, RestingShape
  <1>6. Unplaced'
    BY DEF BookInv, Unplaced
  <1>7. FillsBounded'
    BY <1>1 DEF MoveKeeps, FillsBounded
  <1>8. ClosedKept
    <2>1. Closed \cap resting = {}
      BY DEF BookInv, RestingShape, Closed
    <2> QED BY <1>1, <2>1 DEF MoveKeeps, ClosedKept, Closed
  <1>9. FillsFollow
    BY <1>1 DEF MoveKeeps, FillsFollow, IsFilled
  <1> QED BY <1>4, <1>5, <1>6, <1>7, <1>8, <1>9 DEF BookInv, StepKeeps

\* Cancelling moves one order, which leaves the resting ones.
LEMMA CancelKeeps ==
  ASSUME BookInv, NEW o \in Orders, Cancel(o)
  PROVE  StepKeeps
  <1>1. o \in DOMAIN book /\ book[o] \in OrderRecords
    BY DEF Cancel, BookInv, PaperTypeOK
  <1>2. /\ DOMAIN book' = DOMAIN book
        /\ book'[o] = [book[o] EXCEPT !.status = "CANCELLED"]
        /\ book'[o].status = "CANCELLED"
        /\ \A x \in DOMAIN book : x # o => book'[x] = book[x]
    BY <1>1 DEF Cancel, OrderRecords
  <1>3. booked \in [Orders -> Nat] /\ booked' = booked /\ o \in resting
    BY DEF Cancel, BookInv, PaperTypeOK
  <1>4. \A x \in DOMAIN book : OrderMoves(x)
    BY <1>2, <1>3 DEF OrderMoves
  <1>5. resting' = {x \in resting : book'[x].status \in {"PENDING", "PARTIALLY_FILLED"}}
    <2>1. \A x \in resting : x \in DOMAIN book
      BY DEF BookInv, PaperTypeOK
    <2>2. \A x \in resting : x # o => book'[x].status \in {"PENDING", "PARTIALLY_FILLED"}
      BY <1>2, <2>1 DEF BookInv, RestingShape
    <2> QED BY <1>2, <2>2 DEF Cancel
  <1>6. realism' = realism /\ ltp' \in [Symbols -> Prices \cup {0}]
    BY DEF Cancel, BookInv, PaperTypeOK
  <1> QED BY <1>2, <1>3, <1>4, <1>5, <1>6, MovesKeep

\* So does a tick, which moves the resting orders of its symbol.
LEMMA TickKeeps ==
  ASSUME BookInv, NEW s \in Symbols, NEW price \in Prices, Tick(s, price)
  PROVE  StepKeeps
  <1> DEFINE live == {o \in resting : book[o].symbol = s}
             gone == {o \in live : RunsAway(book[o], price)}
  <1>1. PICK n :
          LET hit == {o \in live \ gone : n[o] > 0}
          IN /\ \A o \in live \ gone : n[o] \in FillSizes(book[o], price)
             /\ ltp' = [ltp EXCEPT ![s] = price]
             /\ book' = [o \in DOMAIN book |->
                           IF o \in gone THEN [book[o] EXCEPT !.status = "CANCELLED"]
                           ELSE IF o \in hit THEN Filled(book[o], n[o])
                           ELSE book[o]]
             /\ resting' = {o \in resting : book'[o].status \in {"PENDING", "PARTIALLY_FILLED"}}
             /\ booked' = [o \in Orders |-> booked[o] + (IF o \in hit THEN n[o] ELSE 0)]
             /\ realism' = realism
    BY DEF Tick
  <1> DEFINE hit == {o \in live \ gone : n[o] > 0}
  <1>2. resting \subseteq DOMAIN book /\ DOMAIN book \subseteq Orders /\ booked \in [Orders -> Nat]
    BY DEF BookInv, PaperTypeOK
  <1>3. hit \subseteq resting /\ gone \subseteq resting /\ gone \cap hit = {}
    OBVIOUS
  <1>4. ASSUME NEW o \in DOMAIN book  PROVE OrderMoves(o)
    <2>1. CASE o \in gone
      <3>1. book'[o] = [book[o] EXCEPT !.status = "CANCELLED"] /\ booked'[o] = booked[o]
        BY <1>1, <1>2, <1>3, <2>1
      <3> QED BY <1>3, <2>1, <3>1 DEF OrderMoves
    <2>2. CASE o \in hit
      <3>1. book'[o] = Filled(book[o], n[o]) /\ booked'[o] = booked[o] + n[o]
        BY <1>1, <1>2, <1>3, <2>2
      <3>2. n[o] \in FillSizes(book[o], price) /\ o \in resting
        BY <1>1, <2>2
      <3> QED BY <3>1, <3>2 DEF OrderMoves
    <2>3. CASE o \notin gone /\ o \notin hit
      <3>1. book'[o] = book[o] /\ booked'[o] = booked[o]
        BY <1>1, <1>2, <2>3
      <3> QED BY <3>1 DEF OrderMoves
    <2> QED BY <2>1, <2>2, <2>3
  <1>5. \A o \in Orders \ DOMAIN book : booked'[o] = booked[o]
    BY <1>1, <1>2, <1>3
  <1>6. DOMAIN book' = DOMAIN book /\ DOMAIN booked' = Orders
        /\ booked' = [o \in Orders |-> booked'[o]]
    BY <1>1
  <1>7. ltp' \in [Symbols -> Prices \cup {0}]
    BY <1>1 DEF BookInv, PaperTypeOK
  <1>8. resting' = {o \in resting : book'[o].status \in {"PENDING", "PARTIALLY_FILLED"}}
        /\ realism' = realism
    BY <1>1
  <1> HIDE DEF live, gone, hit
  <1> QED BY <1>4, <1>5, <1>6, <1>7, <1>8, MovesKeep

-----------------------------------------------------------------------------
\* A placement touches no other order.
LEMMA EnterFollows ==
  ASSUME BookInv, NEW o \in Orders, NEW ord, Enter(o, ord),
         NEW n \in Nat, booked' = [booked EXCEPT ![o] = n], ord.status = "FILLED" => n # 0,
         n # 0 => ord.status = "FILLED" /\ n = ord.quantity
  PROVE  ClosedKept /\ FillsFollow
  <1>1. /\ o \notin DOMAIN book /\ \A x \in DOMAIN book : book'[x] = book[x]
        /\ DOMAIN book' = DOMAIN book \cup {o} /\ book'[o] = ord
    BY DEF Enter
  <1>2. booked \in [Orders -> Nat] /\ booked[o] = 0 /\ DOMAIN book \subseteq Orders
    BY <1>1 DEF BookInv, PaperTypeOK, Unplaced
  <1>3. booked'[o] = n /\ \A x \in DOMAIN book : booked'[x] = booked[x] /\ booked[x] \in Nat
    BY <1>1, <1>2
  <1>4. ClosedKept
    BY <1>1, <1>3 DEF ClosedKept, Closed
  <1>5. FillsFollow
    BY <1>1, <1>2, <1>3 DEF FillsFollow, IsFilled, FilledAtOnce
  <1> QED BY <1>4, <1>5

\* Every step keeps the invariant and leaves closed orders alone.
LEMMA BookStep == BookInv /\ [PaperNext]_paperVars => StepKeeps
  <1> SUFFICES ASSUME BookInv, [PaperNext]_paperVars  PROVE StepKeeps
    OBVIOUS
  <1>1. booked \in [Orders -> Nat] /\ ltp \in [Symbols -> Prices \cup {0}]
    BY DEF BookInv, PaperTypeOK
  <1>3. ASSUME NEW o \in Orders, NEW ord, Enter(o, ord)  PROVE booked = [booked EXCEPT ![o] = 0]
    BY <1>1, <1>3 DEF Enter, BookInv, Unplaced
  <1>4. ASSUME NEW o \in Orders, PlaceMarket(o)  PROVE StepKeeps
    <2> PICK ord \in Tickets({"MARKET"}) :
          /\ Enter(o, [ord EXCEPT !.status = "FILLED", !.filled = ord.quantity])
          /\ booked' = [booked EXCEPT ![o] = ord.quantity]
          /\ UNCHANGED <<realism, resting, ltp>>
      BY <1>4 DEF PlaceMarket
    <2> DEFINE done == [ord EXCEPT !.status = "FILLED", !.filled = ord.quantity]
    <2>1. ord \in OrderRecords /\ done \in OrderRecords
      BY TicketShape
    <2>2. done.filled = ord.quantity /\ done.quantity = ord.quantity /\ done.status = "FILLED"
      BY <2>1 DEF OrderRecords
    <2> HIDE DEF done
    <2>3. Enter(o, done) /\ booked' = [booked EXCEPT ![o] = done.filled]
      BY <2>2 DEF done
    <2>4. BookInv'
      BY <2>1, <2>2, <2>3, EnterKeeps
    <2>5. ClosedKept /\ FillsFollow
      <3>1. done.filled \in Nat /\ done.filled # 0 /\ done.status = "FILLED" /\ done.filled = done.quantity
        BY <2>1, <2>2 DEF OrderRecords
      <3> QED BY <2>3, <3>1, EnterFollows
    <2> QED BY <2>4, <2>5 DEF StepKeeps
  <1>5. ASSUME NEW o \in Orders, PlaceResting(o)  PROVE StepKeeps
    <2> PICK ord \in Tickets({"LIMIT", "SL"}) : Enter(o, ord)
      BY <1>5 DEF PlaceResting
    <2>1. ord \in OrderRecords /\ ord.type \in {"LIMIT", "SL"} /\ ord.filled = 0 /\ ord.status = "PENDING"
      BY TicketShape
    <2>2. booked' = [booked EXCEPT ![o] = ord.filled]
      BY <1>3, <1>5, <2>1 DEF PlaceResting
    <2>3. BookInv'
      BY <1>5, <2>1, <2>2, EnterKeeps DEF PlaceResting
    <2>4. ClosedKept /\ FillsFollow
      <3>1. ord.filled \in Nat /\ ord.filled = 0 /\ ord.status # "FILLED"
        BY <2>1
      <3> QED BY <2>2, <3>1, EnterFollows
    <2> QED BY <2>3, <2>4 DEF StepKeeps
  <1>6. ASSUME NEW o \in Orders, PlaceRefused(o)  PROVE StepKeeps
    <2> PICK ord \in Tickets({"MARKET", "LIMIT", "SL", "SL_M"}) :
         Enter(o, [ord EXCEPT !.status = "REJECTED"])
      BY <1>6 DEF PlaceRefused
    <2> DEFINE refused == [ord EXCEPT !.status = "REJECTED"]
    <2>1. ord \in OrderRecords /\ refused \in OrderRecords /\ ord.filled = 0
      BY TicketShape
    <2>2. refused.filled = 0 /\ refused.status = "REJECTED"
      BY <2>1 DEF OrderRecords
    <2> HIDE DEF refused
    <2>3. Enter(o, refused)
      BY DEF refused
    <2>4. booked' = [booked EXCEPT ![o] = refused.filled]
      BY <1>3, <1>6, <2>2, <2>3 DEF PlaceRefused
    <2>5. BookInv'
      BY <1>6, <2>1, <2>2, <2>3, <2>4, EnterKeeps DEF PlaceRefused
    <2>6. ClosedKept /\ FillsFollow
      <3>1. refused.filled \in Nat /\ refused.filled = 0 /\ refused.status # "FILLED"
        BY <2>2
      <3> QED BY <2>3, <2>4, <3>1, EnterFollows
    <2> QED BY <2>5, <2>6 DEF StepKeeps
  <1>7. ASSUME NEW o \in Orders, PlaceUnsupported(o)  PROVE StepKeeps
    <2> PICK ord \in Tickets({"SL_M"}) : Enter(o, ord)
      BY <1>7 DEF PlaceUnsupported
    <2>1. ord \in OrderRecords /\ ord.filled = 0 /\ ord.status = "PENDING"
      BY TicketShape
    <2>2. booked' = [booked EXCEPT ![o] = ord.filled]
      BY <1>3, <1>7, <2>1 DEF PlaceUnsupported
    <2>3. BookInv'
      BY <1>7, <2>1, <2>2, EnterKeeps DEF PlaceUnsupported
    <2>4. ClosedKept /\ FillsFollow
      <3>1. ord.filled \in Nat /\ ord.filled = 0 /\ ord.status # "FILLED"
        BY <2>1
      <3> QED BY <2>2, <3>1, EnterFollows
    <2> QED BY <2>3, <2>4 DEF StepKeeps
  <1>8. CASE UNCHANGED paperVars
    BY <1>8 DEF paperVars, BookInv, PaperTypeOK, RestingShape, Unplaced, FillsBounded, ClosedKept, Closed,
               FillsFollow, IsFilled, StepKeeps
  <1> QED BY <1>4, <1>5, <1>6, <1>7, <1>8, CancelKeeps, TickKeeps DEF PaperNext

-----------------------------------------------------------------------------
\* The inductive invariant.
THEOREM BookTheorem == PaperSpec => []BookInv
  <1>1. BookInv /\ [PaperNext]_paperVars => BookInv'
    BY BookStep DEF StepKeeps
  <1> QED BY <1>1, BookInit, PTL DEF PaperSpec

\* Records keep their shape, and no order reports more than its quantity as
\* filled.
THEOREM OrdersWellFormed == PaperSpec => []PaperTypeOK
  <1>1. BookInv => PaperTypeOK
    BY DEF BookInv
  <1> QED BY <1>1, BookTheorem, PTL

\* The fills of an order are what it reports, except that the last fill after
\* partial ones may book them again, below twice the quantity in all.
THEOREM FillsStayBounded == PaperSpec => []FillsBounded
  <1>1. BookInv => FillsBounded
    BY DEF BookInv
  <1> QED BY <1>1, BookTheorem, PTL

\* Filled, cancelled and rejected orders are never touched again.
THEOREM ClosedForGood == PaperSpec => ClosedStaysClosed
  <1>1. BookInv /\ [PaperNext]_paperVars
          => BookInv' /\ [\A o \in Closed : book'[o] = book[o] /\ booked'[o] = booked[o]]_paperVars
    BY BookStep DEF ClosedKept, StepKeeps
  <1> QED BY <1>1, BookTheorem, PTL DEF PaperSpec, ClosedStaysClosed

-----------------------------------------------------------------------------
\* The account.

Positions == [net : Int, entry : Int, pnl : Int]

\* What has been made of a position, and what its open quantity was paid, as a
\* profit: money that is not in the cash any more, or is in it too much.
Made(p) == p.pnl - p.net * p.entry
MadeOf(pos) == [s \in Symbols |-> Made(pos[s])]
MoneyKept(a) == SumFunction(MadeOf(a.pos)) = a.cash + a.fees + a.rounded

Accounts ==
  {a \in [cash : Int, fees : Int, rounded : Int, pos : [Symbols -> Positions]] : MoneyKept(a)}

AccountOK == account \in Accounts

LEMMA Quotient ==
  ASSUME NEW t \in Int, NEW n \in Nat \ {0}
  PROVE  t \div n \in Int /\ t % n \in 0 .. n - 1 /\ t = n * (t \div n) + (t % n)
  OBVIOUS

LEMMA SignsOfProduct ==
  ASSUME NEW a \in Int, NEW b \in Int, b # 0
  PROVE  a * b >= 0 <=> IF b > 0 THEN a >= 0 ELSE a <= 0
  OBVIOUS

\* A fill that adds to a position.
LEMMA AddingKeeps ==
  ASSUME NEW p \in Positions, NEW change \in Int, change # 0, NEW price \in Int, Adds(p, change)
  PROVE  /\ Average(p, change, price) \in Int /\ Remainder(p, change, price) \in Int
         /\ (p.net + change) * Average(p, change, price)
              = (p.net * p.entry + change * price) - Remainder(p, change, price)
         /\ Abs(Remainder(p, change, price)) < Abs(p.net + change)
  <1> DEFINE a == p.net
             e == p.entry
             t == Paid(p, change, price)
             n == Abs(a + change)
             q == t \div n
             r == t % n
  <1>1. a \in Int /\ e \in Int
    BY DEF Positions
  <1>2. IF change > 0 THEN a >= 0 ELSE a <= 0
    BY <1>1, SignsOfProduct DEF Adds
  <1>3. Abs(a) \in Nat /\ Abs(change) \in Nat /\ n \in Nat \ {0}
    BY <1>1, <1>2 DEF Abs
  <1>4. t = e * Abs(a) + price * Abs(change) /\ t \in Int
    <2>1. e * Abs(a) \in Int /\ price * Abs(change) \in Int
      BY <1>1, <1>3
    <2> QED BY <2>1 DEF Paid
  <1>5. q \in Int /\ r \in 0 .. n - 1 /\ t = n * q + r
    <2> HIDE DEF t, n
    <2> QED BY <1>3, <1>4, Quotient
  <1>6. Average(p, change, price) = q /\ Remainder(p, change, price) = IF change > 0 THEN r ELSE -r
    BY DEF Average, Remainder, Signed
  <1> HIDE DEF t, q, r
  <1>7. CASE change > 0
    <2>1. t = a * e + change * price /\ n = a + change
      BY <1>1, <1>2, <1>4, <1>7 DEF Abs
    <2>2. (a + change) * q = (a * e + change * price) - r
      <3> DEFINE x == a * e + change * price
                 y == n * q
      <3>1. x \in Int /\ y \in Int /\ x = y + r /\ r \in Int
        BY <1>1, <1>3, <1>5, <2>1
      <3>2. y = (a + change) * q
        BY <2>1
      <3> HIDE DEF x, y
      <3>3. y = x - r
        BY <3>1
      <3>4. (a + change) * q = x - r
        BY <3>2, <3>3, Zenon
      <3> QED BY <3>4, Zenon DEF x
    <2>3. r \in Int /\ Abs(r) < n
      BY <1>3, <1>5 DEF Abs
    <2> QED BY <1>5, <1>6, <1>7, <2>2, <2>3
  <1>8. CASE change < 0
    <2>1. t = -(a * e + change * price) /\ n = -(a + change)
      <3>1. t = e * (-a) + price * (-change)
        BY <1>1, <1>2, <1>4, <1>8 DEF Abs
      <3>2. /\ e * (-a) = -(a * e) /\ price * (-change) = -(change * price)
            /\ a * e \in Int /\ change * price \in Int
        BY <1>1
      <3>3. t = -(a * e + change * price)
        BY <3>1, <3>2
      <3> QED BY <1>1, <1>2, <1>8, <3>3 DEF Abs
    <2>2. (a + change) * q = (a * e + change * price) + r
      <3> DEFINE x == a * e + change * price
                 y == n * q
      <3>1. x \in Int /\ y \in Int /\ -x = y + r /\ r \in Int
        BY <1>1, <1>3, <1>5, <2>1
      <3>2. -y = (a + change) * q
        BY <1>1, <1>5, <2>1
      <3> HIDE DEF x, y
      <3>3. -y = x + r
        BY <3>1
      <3>4. (a + change) * q = x + r
        BY <3>2, <3>3, Zenon
      <3> QED BY <3>4, Zenon DEF x
    <2>3. r \in Int /\ -r \in Int /\ Abs(-r) < n
      BY <1>3, <1>5 DEF Abs
    <2>4. (a * e + change * price) - (-r) = (a * e + change * price) + r
      BY <1>1, <2>3
    <2> QED BY <1>5, <1>6, <1>8, <2>2, <2>3, <2>4
  <1> QED BY <1>7, <1>8

\* A fill that reduces, closes or reverses a position.
LEMMA ReducingKeeps ==
  ASSUME NEW p \in Positions, NEW change \in Int, change # 0, NEW price \in Int, ~Adds(p, change)
  PROVE  (price - p.entry) * (IF p.net > 0 THEN 1 ELSE -1) * Smaller(Abs(change), Abs(p.net))
           - (p.net + change) * (IF (p.net + change) * change > 0 THEN price ELSE p.entry)
           = (-(p.net * p.entry)) - change * price
  <1> DEFINE a == p.net
             e == p.entry
             entry == IF (a + change) * change > 0 THEN price ELSE e
             sign == IF a > 0 THEN 1 ELSE -1
             m == Smaller(Abs(change), Abs(a))
  <1>0. a \in Int /\ e \in Int /\ ~(a * change >= 0)
    BY DEF Positions, Adds
  <1> HIDE DEF a, e
  <1>1. IF change > 0 THEN a < 0 ELSE a > 0
    BY <1>0, SignsOfProduct
  <1>2. (a + change) * change > 0 <=> IF change > 0 THEN a + change > 0 ELSE a + change < 0
    <2>1. a + change \in Int
      BY <1>0
    <2>2. a + change = 0 => (a + change) * change = 0
      BY <1>0
    <2>3. (a + change) * change >= 0 <=> IF change > 0 THEN a + change >= 0 ELSE a + change <= 0
      BY <2>1, SignsOfProduct
    <2>4. (a + change) * change = 0 => a + change = 0
      BY <2>1
    <2> QED BY <2>1, <2>2, <2>3, <2>4
  <1>3. ASSUME (a + change) * change > 0
        PROVE  (price - e) * sign * m - (a + change) * entry = (-(a * e)) - change * price
    <2>1. entry = price /\ sign * m = a
      BY <1>0, <1>1, <1>2, <1>3 DEF Abs, Smaller
    <2>2. (price - e) * sign * m = (price - e) * a
      BY <1>0, <1>1, <1>2, <1>3 DEF Abs, Smaller
    <2> HIDE DEF entry, sign, m
    <2> QED BY <1>0, <2>1, <2>2
  <1>4. ASSUME ~((a + change) * change > 0)
        PROVE  (price - e) * sign * m - (a + change) * entry = (-(a * e)) - change * price
    <2>1. entry = e /\ sign * m = -change
      BY <1>0, <1>1, <1>2, <1>4 DEF Abs, Smaller
    <2>2. (price - e) * sign * m = (price - e) * (-change)
      BY <1>0, <1>1, <1>2, <1>4 DEF Abs, Smaller
    <2> HIDE DEF entry, sign, m
    <2> QED BY <1>0, <2>1, <2>2
  <1> QED BY <1>3, <1>4 DEF a, e

\* A position after a fill: its quantity changes by the fill, and what is made
\* of it by what was paid, but for the rounding.
LEMMA PositionChanges ==
  ASSUME NEW p \in Positions, NEW change \in Int, change # 0, NEW price \in Int
  PROVE  /\ PositionAfter(p, change, price) \in Positions
         /\ PositionAfter(p, change, price).net = p.net + change
         /\ Remainder(p, change, price) \in Int
         /\ Made(PositionAfter(p, change, price)) = Made(p) + (Remainder(p, change, price) - change * price)
  <1> DEFINE net == p.net + change
             gain == (price - p.entry) * (IF p.net > 0 THEN 1 ELSE -1) * Smaller(Abs(change), Abs(p.net))
             after == PositionAfter(p, change, price)
             r == Remainder(p, change, price)
  <1>1. p.net \in Int /\ p.entry \in Int /\ p.pnl \in Int /\ net \in Int
    BY DEF Positions
  <1>2. after = [net |-> net,
                 entry |-> IF Adds(p, change) THEN Average(p, change, price)
                           ELSE IF net * change > 0 THEN price ELSE p.entry,
                 pnl |-> IF Adds(p, change) THEN p.pnl ELSE p.pnl + gain]
    BY DEF PositionAfter
  <1>3. /\ p.net * p.entry \in Int /\ change * price \in Int /\ gain \in Int
        /\ Made(p) = p.pnl - p.net * p.entry
    <2>1. Smaller(Abs(change), Abs(p.net)) \in Int
      BY <1>1 DEF Smaller, Abs
    <2> QED BY <1>1, <2>1 DEF Made
  <1> DEFINE paid == p.net * p.entry
             cost == change * price
  <1>4. CASE Adds(p, change)
    <2>1. /\ Average(p, change, price) \in Int /\ r \in Int
          /\ net * Average(p, change, price) = (paid + cost) - r
      BY <1>4, AddingKeeps
    <2> HIDE DEF after, net, r, paid, cost, gain
    <2>2. after = [net |-> net, entry |-> Average(p, change, price), pnl |-> p.pnl]
      BY <1>2, <1>4
    <2>3. Made(after) = p.pnl - net * Average(p, change, price) /\ after \in Positions
      BY <1>1, <2>1, <2>2 DEF Made, Positions
    <2>4. paid \in Int /\ cost \in Int /\ Made(p) = p.pnl - paid
      BY <1>3 DEF paid, cost
    <2>5. Made(after) = Made(p) + (r - cost)
      BY <1>1, <2>1, <2>3, <2>4
    <2> QED BY <2>1, <2>2, <2>3, <2>5 DEF after, r, cost, net
  <1>5. CASE ~Adds(p, change)
    <2> DEFINE entry == IF net * change > 0 THEN price ELSE p.entry
    <2>1. entry \in Int /\ gain - net * entry = (-paid) - cost
      <3>1. entry \in Int
        BY <1>1
      <3>2. gain - net * entry = (-paid) - cost
        BY <1>5, ReducingKeeps
      <3> QED BY <3>1, <3>2
    <2>2. r = 0
      BY <1>5 DEF Remainder
    <2> HIDE DEF after, net, r, gain, entry, paid, cost
    <2>3. after = [net |-> net, entry |-> entry, pnl |-> p.pnl + gain]
      BY <1>2, <1>5 DEF entry
    <2>4. paid \in Int /\ cost \in Int /\ Made(p) = p.pnl - paid /\ net * entry \in Int
      BY <1>1, <1>3, <2>1 DEF paid, cost
    <2>5. Made(after) = p.pnl + gain - net * entry /\ after \in Positions
      BY <1>1, <1>3, <2>1, <2>3 DEF Made, Positions
    <2>6. Made(after) = Made(p) + (r - cost)
      <3> DEFINE open == net * entry
      <3>1. open \in Int /\ gain - open = (-paid) - cost /\ Made(after) = p.pnl + gain - open
        BY <2>1, <2>4, <2>5
      <3> HIDE DEF open
      <3> QED BY <1>1, <1>3, <2>2, <2>4, <3>1
    <2> QED BY <2>2, <2>3, <2>5, <2>6 DEF after, r, cost, net
  <1> QED BY <1>4, <1>5

\* What a fill does to an account.
LEMMA SettleChanges ==
  ASSUME NEW acct \in Accounts, NEW ord, ord.symbol \in Symbols, ord.side \in Sides,
         NEW n \in Nat \ {0}, NEW price \in Int
  PROVE  /\ Settle(acct, ord, n, price) \in Accounts
         /\ Settle(acct, ord, n, price).pos[ord.symbol].net
              = acct.pos[ord.symbol].net + Signed(ord.side, n)
         /\ \A s \in Symbols : s # ord.symbol => Settle(acct, ord, n, price).pos[s] = acct.pos[s]
  <1> DEFINE change == Signed(ord.side, n)
             fees == Fees(ord.side, n, price)
             s == ord.symbol
             p == acct.pos[s]
             cost == change * price
             r == Remainder(p, change, price)
             after == PositionAfter(p, change, price)
             next == Settle(acct, ord, n, price)
  <1>1. change \in Int /\ change # 0 /\ s \in Symbols
    BY DEF Signed
  <1>2. fees \in Int
    <2> DEFINE notional == n * price
               dues == Smaller(Fee, (3 * notional) \div 10000) + notional \div 10000
    <2>1. notional \in Int
      OBVIOUS
    <2>2. dues \in Int
      <3> HIDE DEF notional
      <3> QED BY <2>1, PaperAssumption DEF Smaller
    <2>3. fees = dues + (18 * dues) \div 100
                   + (IF ord.side = "SELL" THEN notional \div 1000 ELSE (3 * notional) \div 20000)
      BY DEF Fees
    <2> HIDE DEF notional, dues, fees
    <2> QED BY <2>1, <2>2, <2>3
  <1>3. /\ acct.cash \in Int /\ acct.fees \in Int /\ acct.rounded \in Int
        /\ acct.pos \in [Symbols -> Positions] /\ p \in Positions /\ MoneyKept(acct)
    BY DEF Accounts
  <1>4. cost \in Int
    BY <1>1
  <1>5. /\ after \in Positions /\ after.net = p.net + change /\ r \in Int
        /\ Made(after) = Made(p) + (r - cost)
    BY <1>1, <1>3, PositionChanges
  <1>6. next = [cash |-> acct.cash - cost - fees, fees |-> acct.fees + fees, rounded |-> acct.rounded + r,
                pos |-> [acct.pos EXCEPT ![s] = after]]
    BY DEF Settle
  <1> HIDE DEF change, fees, s, p, cost, r, after, next
  <1> DEFINE pos == [acct.pos EXCEPT ![s] = after]
  <1>7. /\ pos \in [Symbols -> Positions] /\ pos[s] = after
        /\ \A x \in Symbols : x # s => pos[x] = acct.pos[x]
    BY <1>1, <1>3, <1>5
  <1> HIDE DEF pos
  <1>8. /\ next.cash = acct.cash - cost - fees /\ next.fees = acct.fees + fees
        /\ next.rounded = acct.rounded + r /\ next.pos = pos
        /\ next \in [cash : Int, fees : Int, rounded : Int, pos : [Symbols -> Positions]]
    BY <1>2, <1>3, <1>4, <1>5, <1>6, <1>7 DEF pos
  <1>9. MoneyKept(next)
    <2> DEFINE f == MadeOf(acct.pos)
               h == MadeOf(pos)
               d == r - cost
    <2>1. f \in [Symbols -> Int] /\ h \in [Symbols -> Int]
      <3>1. \A q \in Positions : Made(q) \in Int
        BY DEF Positions, Made
      <3>2. \A x \in Symbols : acct.pos[x] \in Positions /\ pos[x] \in Positions
        BY <1>3, <1>7
      <3> QED BY <3>1, <3>2 DEF MadeOf
    <2>2. d \in Int /\ h[s] = f[s] + d
      BY <1>1, <1>4, <1>5, <1>7 DEF MadeOf, p
    <2>3. DifferAt(f, h, s, Symbols)
      BY <1>7 DEF DifferAt, MadeOf
    <2> HIDE DEF f, h, d
    <2>4. MovedBy(f, h, Symbols, s, d)
      BY <1>1, <2>1, <2>2, <2>3 DEF MovedBy
    <2>5. IsFiniteSet(Symbols)
      BY PaperAssumption
    <2>6. SumFunction(f) \in Int /\ SumFunction(h) = SumFunction(f) + d
      BY <2>4, <2>5, SumMoved
    <2>7. SumFunction(f) = acct.cash + acct.fees + acct.rounded
      BY <1>3 DEF MoneyKept, f
    <2>8. SumFunction(h) = next.cash + next.fees + next.rounded
      BY <1>2, <1>3, <1>4, <1>5, <1>8, <2>6, <2>7 DEF d
    <2> QED BY <1>8, <2>8 DEF MoneyKept, h
  <1>10. next \in Accounts
    BY <1>8, <1>9 DEF Accounts
  <1> QED BY <1>5, <1>7, <1>8, <1>10 DEF next, s, p, change

\* Fills have a price.
LEMMA PriceOfFill ==
  ASSUME NEW ord \in OrderRecords, NEW last \in Prices \cup {0}
  PROVE  FillPrice(ord, last) \in Int
  <1>1. ord.level \in Int /\ last \in Int /\ Slip \in Int
    <2>1. ord.level \in Prices \cup {0}
      BY DEF OrderRecords
    <2>2. Slip \in Nat /\ \A q \in Prices : q \in Nat
      BY PaperAssumption
    <2>3. ord.level \in Int
      BY <2>1, <2>2
    <2>4. last \in Int
      BY <2>2
    <2> QED BY <2>2, <2>3, <2>4
  <1>2. Slipped(ord.side, last) \in Int
    BY <1>1 DEF Slipped, Signed
  <1> QED BY <1>1, <1>2 DEF FillPrice

\* The account after the first fills of a tick.
SettleStep(turns, n, price) ==
  [i \in 1 .. Len(turns) |-> [a \in Accounts |->
     Settle(a, book[turns[i]], n[turns[i]], FillPrice(book[turns[i]], price))]]

\* Fills that may be booked.
Fillable(turns, n, price) ==
  /\ turns \in Seq(DOMAIN book) /\ price \in Prices
  /\ \A i \in 1 .. Len(turns) : book[turns[i]] \in OrderRecords /\ n[turns[i]] \in Nat \ {0}

LEMMA SettleAllAlong ==
  ASSUME NEW turns, NEW n, NEW price, Fillable(turns, n, price), AccountOK
  PROVE  \E g \in [0 .. Len(turns) -> Accounts] :
           /\ Along(g, Len(turns), account, SettleStep(turns, n, price))
           /\ SettleAll(turns, n, price) = g[Len(turns)]
  <1> DEFINE N == Len(turns)
             step == SettleStep(turns, n, price)
             Good(f) == f = [i \in 0 .. N |->
                               IF i = 0 THEN account
                               ELSE Settle(f[i - 1], book[turns[i]], n[turns[i]], FillPrice(book[turns[i]], price))]
             it == CHOOSE f : Good(f)
  <1>1. N \in Nat
    BY DEF Fillable
  <1>2. ASSUME NEW i \in 1 .. N, NEW a \in Accounts
        PROVE  Settle(a, book[turns[i]], n[turns[i]], FillPrice(book[turns[i]], price)) \in Accounts
    <2> DEFINE ord == book[turns[i]]  m == n[turns[i]]  p == FillPrice(ord, price)
    <2>1. ord \in OrderRecords /\ m \in Nat \ {0} /\ price \in Prices
      BY DEF Fillable
    <2>2. p \in Int /\ ord.symbol \in Symbols /\ ord.side \in Sides
      <3> HIDE DEF ord
      <3>1. p \in Int
        BY <2>1, PriceOfFill
      <3> QED BY <2>1, <3>1 DEF OrderRecords
    <2> HIDE DEF ord, m, p
    <2>3. Settle(a, ord, m, p) \in Accounts
      BY <2>1, <2>2, SettleChanges
    <2> QED BY <2>3 DEF ord, m, p
  <1>3. step \in [1 .. N -> [Accounts -> Accounts]]
    BY <1>2 DEF SettleStep
  <1>4. PICK g \in [0 .. N -> Accounts] : Along(g, N, account, step)
    <2> HIDE DEF N, step
    <2> QED BY <1>1, <1>3, Recursion DEF AccountOK
  <1>5. g[0] = account /\ \A i \in 1 .. N :
          g[i] = Settle(g[i - 1], book[turns[i]], n[turns[i]], FillPrice(book[turns[i]], price))
    <2>1. ASSUME NEW i \in 1 .. N
          PROVE g[i] = Settle(g[i - 1], book[turns[i]], n[turns[i]], FillPrice(book[turns[i]], price))
      <3>1. i - 1 \in 0 .. N
        BY <1>1
      <3>2. g[i - 1] \in Accounts
        BY <1>4, <3>1
      <3>3. g[i] = step[i][g[i - 1]]
        BY <1>4 DEF Along
      <3> QED BY <3>2, <3>3 DEF SettleStep
    <2> QED BY <1>4, <2>1 DEF Along
  <1>6. Good(g)
    BY <1>4, <1>5
  <1>7. Good(it)
    <2> HIDE DEF Good
    <2> QED BY <1>6
  <1> DEFINE T == {k \in Nat : k \in 0 .. N => it[k] = g[k]}
  <1>8. 0 \in T /\ \A k \in T : k + 1 \in T
    <2> HIDE DEF it, N
    <2>1. it[0] = account
      BY <1>1, <1>7
    <2>2. ASSUME NEW k \in Nat, k \in 0 .. N => it[k] = g[k], k + 1 \in 0 .. N
          PROVE  it[k + 1] = g[k + 1]
      <3>1. k \in 0 .. N /\ k + 1 \in 1 .. N /\ (k + 1) - 1 = k
        BY <1>1, <2>2
      <3>2. it[k + 1] = Settle(it[k], book[turns[k + 1]], n[turns[k + 1]], FillPrice(book[turns[k + 1]], price))
        BY <1>7, <2>2, <3>1
      <3> QED BY <1>5, <2>2, <3>1, <3>2
    <2> QED BY <1>5, <2>1, <2>2
  <1>9. T = Nat
    <2>1. T \in SUBSET Nat
      OBVIOUS
    <2> HIDE DEF T
    <2> QED BY <1>8, <2>1, SetInduction
  <1>10. it[N] = g[N]
    <2>1. N \in T /\ N \in 0 .. N
      <3> HIDE DEF T, N
      <3> QED BY <1>1, <1>9
    <2> HIDE DEF it, N
    <2> QED BY <2>1
  <1>11. SettleAll(turns, n, price) = it[N]
    BY DEF SettleAll
  <1> QED BY <1>4, <1>10, <1>11

\* What was bought of a symbol after the first k fills of a tick.
BoughtSoFar(turns, n, s, k) ==
  [o \in Orders |->
     IF o \in DOMAIN book /\ book[o].symbol = s
     THEN Signed(book[o].side, booked[o] + (IF \E i \in 1 .. k : turns[i] = o THEN n[o] ELSE 0))
     ELSE 0]

\* A change of one order's share changes the sum as much.
Shifts(b, c, x, d) ==
  /\ b \in [Orders -> Int] /\ c \in [Orders -> Int] /\ x \in Orders /\ d \in Int
  /\ DifferAt(b, c, x, Orders) /\ c[x] = b[x] + d

LEMMA SumShifts ==
  ASSUME NEW b, NEW c, NEW x, NEW d, Shifts(b, c, x, d)
  PROVE  SumFunction(c) = SumFunction(b) + d
  <1>1. IsFiniteSet(Orders)
    BY PaperAssumption
  <1> QED BY <1>1, SumChangesAt DEF Shifts

NoneTwice(turns) == \A i \in 1 .. Len(turns), j \in 1 .. Len(turns) : i # j => turns[i] # turns[j]

LEMMA SettleAllBooks ==
  ASSUME NEW turns, NEW n, NEW price, Fillable(turns, n, price), AccountOK,
         DOMAIN book \subseteq Orders, booked \in [Orders -> Nat],
         NoneTwice(turns),
         NEW s \in Symbols, account.pos[s].net = SumFunction(Bought(s))
  PROVE  SettleAll(turns, n, price).pos[s].net = SumFunction(BoughtSoFar(turns, n, s, Len(turns)))
  <1> DEFINE N == Len(turns)
             B(k) == BoughtSoFar(turns, n, s, k)
  <1>1. PICK g \in [0 .. N -> Accounts] :
          /\ Along(g, N, account, SettleStep(turns, n, price))
          /\ SettleAll(turns, n, price) = g[N]
    BY SettleAllAlong
  <1>2. N \in Nat
    BY DEF Fillable
  <1>3. ASSUME NEW k \in 0 .. N PROVE B(k) \in [Orders -> Int]
    <2>1. ASSUME NEW o \in Orders
          PROVE  booked[o] + (IF \E i \in 1 .. k : turns[i] = o THEN n[o] ELSE 0) \in Nat
      <3>1. (\E i \in 1 .. k : turns[i] = o) => n[o] \in Nat
        <4>1. \A i \in 1 .. N : n[turns[i]] \in Nat
          BY DEF Fillable
        <4>2. \A i \in 1 .. k : i \in 1 .. N
          BY <1>2
        <4> HIDE DEF N
        <4> QED BY <4>1, <4>2
      <3> QED BY <3>1
    <2> QED BY <2>1 DEF BoughtSoFar, Signed
  <1>4. B(0) = Bought(s)
    <2>1. \A o \in Orders : booked[o] + (IF \E i \in 1 .. 0 : turns[i] = o THEN n[o] ELSE 0) = booked[o]
      OBVIOUS
    <2> QED BY <2>1 DEF BoughtSoFar, Bought
  <1>5. g[0].pos[s].net = SumFunction(B(0))
    BY <1>1, <1>4 DEF Along
  <1>6. ASSUME NEW k \in Nat, k + 1 \in 1 .. N, g[k].pos[s].net = SumFunction(B(k))
        PROVE  g[k + 1].pos[s].net = SumFunction(B(k + 1))
    <2> DEFINE x == turns[k + 1]
               ord == book[x]
               m == n[x]
               p == FillPrice(ord, price)
               a == g[k]
    <2>1. k \in 0 .. N /\ k + 1 \in 0 .. N /\ (k + 1) - 1 = k /\ a \in Accounts
      BY <1>1, <1>2, <1>6
    <2>2. ord \in OrderRecords /\ m \in Nat \ {0} /\ price \in Prices /\ x \in DOMAIN book /\ x \in Orders
      BY <1>6 DEF Fillable
    <2>3. p \in Int /\ ord.symbol \in Symbols /\ ord.side \in Sides
      <3> HIDE DEF ord
      <3>1. p \in Int
        BY <2>2, PriceOfFill
      <3> QED BY <2>2, <3>1 DEF OrderRecords
    <2>4. g[k + 1] = Settle(a, ord, m, p)
      <3>1. g[k + 1] = SettleStep(turns, n, price)[k + 1][a]
        BY <1>1, <1>6, <2>1 DEF Along
      <3> QED BY <1>6, <2>1, <3>1 DEF SettleStep
    <2>5. g[k + 1].pos[s].net = a.pos[s].net + (IF ord.symbol = s THEN Signed(ord.side, m) ELSE 0)
      <3>0. a \in Accounts /\ ord.symbol \in Symbols /\ ord.side \in Sides /\ m \in Nat \ {0} /\ p \in Int
        BY <2>1, <2>2, <2>3
      <3> HIDE DEF a, ord, m, p, x
      <3>1. /\ Settle(a, ord, m, p).pos[ord.symbol].net = a.pos[ord.symbol].net + Signed(ord.side, m)
            /\ s # ord.symbol => Settle(a, ord, m, p).pos[s] = a.pos[s]
        BY <3>0, SettleChanges
      <3>2. a.pos[s].net \in Int
        BY <2>1 DEF Accounts, Positions
      <3>3. CASE ord.symbol = s
        BY <2>4, <3>1, <3>3
      <3>4. CASE ord.symbol # s
        BY <2>4, <3>1, <3>2, <3>4
      <3> QED BY <3>3, <3>4
    <2>6. ~\E i \in 1 .. k : turns[i] = x
      BY <1>2, <1>6 DEF NoneTwice
    <2>7. \E i \in 1 .. k + 1 : turns[i] = x
      BY <1>6
    <2> DEFINE d == IF ord.symbol = s THEN Signed(ord.side, m) ELSE 0
    <2>8. B(k + 1)[x] = B(k)[x] + d /\ d \in Int
      <3>1. B(k + 1)[x] = IF ord.symbol = s THEN Signed(ord.side, booked[x] + m) ELSE 0
        BY <2>2, <2>7 DEF BoughtSoFar
      <3>2. B(k)[x] = IF ord.symbol = s THEN Signed(ord.side, booked[x] + 0) ELSE 0
        BY <2>2, <2>6 DEF BoughtSoFar
      <3>3. booked[x] \in Nat /\ m \in Nat
        BY <2>2
      <3> HIDE DEF m, x, ord, B
      <3> QED BY <3>1, <3>2, <3>3 DEF Signed
    <2>9. DifferAt(B(k), B(k + 1), x, Orders)
      <3>1. \A y : y # x => ((\E i \in 1 .. k + 1 : turns[i] = y) <=> (\E i \in 1 .. k : turns[i] = y))
        BY <1>6
      <3> HIDE DEF x
      <3> QED BY <3>1 DEF BoughtSoFar, DifferAt
    <2>11. SumFunction(B(k + 1)) = SumFunction(B(k)) + d
      <3>1. B(k + 1) \in [Orders -> Int] /\ B(k) \in [Orders -> Int] /\ x \in Orders
        BY <1>3, <2>1, <2>2
      <3>2. Shifts(B(k), B(k + 1), x, d)
        BY <2>8, <2>9, <3>1 DEF Shifts
      <3> HIDE DEF x, B, d
      <3> QED BY <3>2, SumShifts
    <2>12. a.pos[s].net = SumFunction(B(k))
      BY <1>6
    <2> HIDE DEF B, x, ord, m, p
    <2> QED BY <2>5, <2>11, <2>12
  <1> DEFINE T == {k \in Nat : k \in 0 .. N => g[k].pos[s].net = SumFunction(B(k))}
  <1>7. 0 \in T /\ \A k \in T : k + 1 \in T
    <2> HIDE DEF N, B
    <2>1. ASSUME NEW k \in Nat, k \in 0 .. N => g[k].pos[s].net = SumFunction(B(k)), k + 1 \in 0 .. N
          PROVE  g[k + 1].pos[s].net = SumFunction(B(k + 1))
      <3>1. k \in 0 .. N /\ k + 1 \in 1 .. N
        BY <1>2, <2>1
      <3> QED BY <1>6, <2>1, <3>1
    <2> QED BY <1>5, <2>1
  <1>8. T = Nat
    <2>1. T \in SUBSET Nat
      OBVIOUS
    <2> HIDE DEF T
    <2> QED BY <1>7, <2>1, SetInduction
  <1>9. g[N].pos[s].net = SumFunction(B(N))
    <2>1. N \in T /\ N \in 0 .. N
      <3> HIDE DEF T, N
      <3> QED BY <1>2, <1>8
    <2> HIDE DEF N, B
    <2> QED BY <2>1
  <1> QED BY <1>1, <1>9

\* A placement: the new order's share is what is filled of it.
LEMMA EnterBooks ==
  ASSUME BookInv, AccountOK, NEW o \in Orders, NEW ord \in OrderRecords, Enter(o, ord),
         NEW n \in Nat, booked' = [booked EXCEPT ![o] = n], NEW price \in Int,
         \/ n = 0 /\ account' = account
         \/ n # 0 /\ account' = Settle(account, ord, n, price)
  PROVE  AccountOK' /\ (PositionIsBooked => PositionIsBooked')
  <1>1. /\ o \notin DOMAIN book /\ DOMAIN book' = DOMAIN book \cup {o}
        /\ book'[o] = ord /\ \A x \in DOMAIN book : book'[x] = book[x]
    BY DEF Enter
  <1>2. /\ booked \in [Orders -> Nat] /\ booked' \in [Orders -> Nat] /\ booked'[o] = n
        /\ \A x \in Orders : x # o => booked'[x] = booked[x]
    BY DEF BookInv, PaperTypeOK
  <1>3. ord.symbol \in Symbols /\ ord.side \in Sides
    BY DEF OrderRecords
  <1>4. AccountOK' /\ \A s \in Symbols :
          account'.pos[s].net = account.pos[s].net + (IF ord.symbol = s THEN Signed(ord.side, n) ELSE 0)
    <2>0. account \in Accounts /\ \A s \in Symbols : account.pos[s].net \in Int
      BY DEF AccountOK, Accounts, Positions
    <2>1. CASE n = 0 /\ account' = account
      BY <2>0, <2>1 DEF AccountOK, Signed
    <2>2. CASE n # 0 /\ account' = Settle(account, ord, n, price)
      <3>1. n \in Nat \ {0}
        BY <2>2
      <3>2. /\ account' \in Accounts
            /\ account'.pos[ord.symbol].net = account.pos[ord.symbol].net + Signed(ord.side, n)
        BY <1>3, <2>0, <2>2, <3>1, SettleChanges
      <3>3. ASSUME NEW s \in Symbols, s # ord.symbol PROVE account'.pos[s] = account.pos[s]
        BY <1>3, <2>0, <2>2, <3>1, <3>3, SettleChanges
      <3>4. ASSUME NEW s \in Symbols
            PROVE  account'.pos[s].net = account.pos[s].net + (IF ord.symbol = s THEN Signed(ord.side, n) ELSE 0)
        <4>1. CASE s = ord.symbol
          BY <3>2, <4>1
        <4>2. CASE s # ord.symbol
          BY <2>0, <3>3, <4>2
        <4> QED BY <4>1, <4>2
      <3> QED BY <3>2, <3>4 DEF AccountOK
    <2> QED BY <2>1, <2>2
  <1>5. ASSUME PositionIsBooked, NEW s \in Symbols
        PROVE  account'.pos[s].net = SumFunction(Bought(s)')
    <2> DEFINE d == IF ord.symbol = s THEN Signed(ord.side, n) ELSE 0
    <2>1. Shifts(Bought(s), Bought(s)', o, d)
      <3>1. Bought(s) \in [Orders -> Int] /\ Bought(s)' \in [Orders -> Int] /\ d \in Int
        BY <1>2 DEF Bought, Signed
      <3>2. Bought(s)[o] = 0 /\ Bought(s)'[o] = d
        BY <1>1, <1>2 DEF Bought
      <3>3. DifferAt(Bought(s), Bought(s)', o, Orders)
        BY <1>1, <1>2 DEF Bought, DifferAt
      <3> HIDE DEF d
      <3> QED BY <3>1, <3>2, <3>3 DEF Shifts
    <2>2. SumFunction(Bought(s)') = SumFunction(Bought(s)) + d
      <3> HIDE DEF d
      <3> QED BY <2>1, SumShifts
    <2> QED BY <1>4, <1>5, <2>2 DEF PositionIsBooked
  <1> QED BY <1>4, <1>5 DEF PositionIsBooked

\* A tick: the shares of the orders it hits change by what it fills of them.
LEMMA TickBooks ==
  ASSUME BookInv, AccountOK, NEW s \in Symbols, NEW price \in Prices, Tick(s, price)
  PROVE  AccountOK' /\ (PositionIsBooked => PositionIsBooked')
  <1> DEFINE live == {o \in resting : book[o].symbol = s}
             gone == {o \in live : RunsAway(book[o], price)}
             Hit(n) == {o \in live \ gone : n[o] > 0}
  <1>1. PICK n :
          LET hit == {o \in live \ gone : n[o] > 0}
          IN /\ \A o \in live \ gone : n[o] \in FillSizes(book[o], price)
             /\ book' = [o \in DOMAIN book |->
                           IF o \in gone THEN [book[o] EXCEPT !.status = "CANCELLED"]
                           ELSE IF o \in hit THEN Filled(book[o], n[o])
                           ELSE book[o]]
             /\ booked' = [o \in Orders |-> booked[o] + (IF o \in hit THEN n[o] ELSE 0)]
             /\ \E turns \in SetToSeqs(hit) : account' = SettleAll(turns, n, price)
    BY DEF Tick
  <1> DEFINE hit == {o \in live \ gone : n[o] > 0}
  <1>2. PICK turns \in SetToSeqs(hit) : account' = SettleAll(turns, n, price)
    BY <1>1
  <1>3. resting \subseteq DOMAIN book /\ DOMAIN book \subseteq Orders /\ booked \in [Orders -> Nat]
    BY DEF BookInv, PaperTypeOK
  <1>4. hit \subseteq resting /\ hit \subseteq DOMAIN book /\ hit \subseteq Orders
    BY <1>3
  <1>5. IsFiniteSet(hit)
    BY <1>4, PaperAssumption, FS_Subset
  <1>6. ASSUME NEW o \in hit PROVE book[o] \in OrderRecords /\ n[o] \in Nat \ {0}
    <2> DEFINE ord == book[o]
    <2>1. /\ ord \in OrderRecords /\ ord.filled < ord.quantity
          /\ ord.type \in {"LIMIT", "SL"} /\ (~realism => ord.filled = 0)
      BY <1>4 DEF BookInv, PaperTypeOK, RestingShape
    <2>2. n[o] \in FillSizes(ord, price) /\ n[o] > 0
      BY <1>1
    <2> HIDE DEF ord, hit
    <2>3. n[o] \in Nat
      BY <2>1, <2>2, FilledShape
    <2>4. n[o] \in Nat \ {0}
      BY <2>2, <2>3
    <2> QED BY <2>1, <2>4 DEF ord
  <1>7. /\ Len(turns) \in Nat /\ turns \in [1 .. Len(turns) -> hit] /\ turns \in Seq(hit)
        /\ NoneTwice(turns)
    <2> HIDE DEF hit
    <2>1. Len(turns) \in Nat /\ turns \in [1 .. Len(turns) -> hit] /\ turns \in Seq(hit)
      BY <1>2, <1>5, TurnsOf
    <2>2. NoneTwice(turns)
      BY <1>2, <1>5, TurnsOf DEF NoneTwice
    <2> QED BY <2>1, <2>2
  <1>8. \A o \in hit : \E i \in 1 .. Len(turns) : turns[i] = o
    <2> HIDE DEF hit
    <2> QED BY <1>2, <1>5, TurnsOf
  <1>9. Fillable(turns, n, price)
    <2> HIDE DEF hit
    <2>1. turns \in Seq(DOMAIN book)
      BY <1>4, <1>7
    <2>2. \A i \in 1 .. Len(turns) : turns[i] \in hit
      BY <1>7
    <2> QED BY <1>6, <2>1, <2>2 DEF Fillable
  <1>10. AccountOK'
    <2>1. PICK g \in [0 .. Len(turns) -> Accounts] : SettleAll(turns, n, price) = g[Len(turns)]
      BY <1>9, SettleAllAlong
    <2> HIDE DEF hit
    <2>2. g[Len(turns)] \in Accounts
      BY <1>7, <2>1
    <2> QED BY <1>2, <2>1, <2>2 DEF AccountOK
  <1>11. ASSUME NEW x \in Symbols PROVE BoughtSoFar(turns, n, x, Len(turns)) = Bought(x)'
    <2>1. ASSUME NEW o \in Orders
          PROVE  booked'[o] = booked[o] + (IF \E i \in 1 .. Len(turns) : turns[i] = o THEN n[o] ELSE 0)
      <3>1. booked'[o] = booked[o] + (IF o \in hit THEN n[o] ELSE 0)
        BY <1>1
      <3> HIDE DEF hit
      <3>2. (\E i \in 1 .. Len(turns) : turns[i] = o) <=> o \in hit
        BY <1>7, <1>8
      <3> QED BY <3>1, <3>2
    <2>2. DOMAIN book' = DOMAIN book
      BY <1>1
    <2>3. ASSUME NEW o \in DOMAIN book
          PROVE  book'[o].symbol = book[o].symbol /\ book'[o].side = book[o].side
      <3>1. book[o] \in OrderRecords
        BY DEF BookInv, PaperTypeOK
      <3>2. book'[o] = IF o \in gone THEN [book[o] EXCEPT !.status = "CANCELLED"]
                       ELSE IF o \in hit THEN Filled(book[o], n[o]) ELSE book[o]
        BY <1>1
      <3> HIDE DEF gone, hit
      <3> QED BY <3>1, <3>2 DEF OrderRecords, Filled
    <2> QED BY <2>1, <2>2, <2>3 DEF BoughtSoFar, Bought
  <1>12. ASSUME PositionIsBooked, NEW x \in Symbols PROVE account'.pos[x].net = SumFunction(Bought(x)')
    <2>1. account.pos[x].net = SumFunction(Bought(x))
      BY <1>12 DEF PositionIsBooked
    <2>2. SettleAll(turns, n, price).pos[x].net = SumFunction(BoughtSoFar(turns, n, x, Len(turns)))
      BY <1>3, <1>7, <1>9, <2>1, SettleAllBooks
    <2> QED BY <1>2, <1>11, <2>2
  <1> QED BY <1>10, <1>12 DEF PositionIsBooked

-----------------------------------------------------------------------------
\* The invariant of the account.
PositionInv == BookInv /\ AccountOK /\ PositionIsBooked

LEMMA PositionInit == PaperInit => PositionInv
  <1> SUFFICES ASSUME PaperInit PROVE PositionInv
    OBVIOUS
  <1>1. BookInv
    BY BookInit
  <1>2. AccountOK
    <2>1. account \in [cash : Int, fees : Int, rounded : Int, pos : [Symbols -> Positions]]
      BY DEF PaperInit, Positions
    <2>2. MadeOf(account.pos) \in [Symbols -> Int] /\ \A s \in Symbols : MadeOf(account.pos)[s] = 0
      BY DEF PaperInit, MadeOf, Made
    <2>3. SumFunction(MadeOf(account.pos)) = 0
      BY <2>2, SumOfZeros, PaperAssumption
    <2>4. MoneyKept(account)
      BY <2>3 DEF MoneyKept, PaperInit
    <2> QED BY <2>1, <2>4 DEF AccountOK, Accounts
  <1>3. ASSUME NEW s \in Symbols PROVE account.pos[s].net = SumFunction(Bought(s))
    <2>1. Bought(s) \in [Orders -> Int] /\ \A o \in Orders : Bought(s)[o] = 0
      BY DEF PaperInit, Bought
    <2>2. IsFiniteSet(Orders)
      BY PaperAssumption
    <2>3. SumFunction(Bought(s)) = 0
      BY <2>1, <2>2, SumOfZeros
    <2> QED BY <2>3 DEF PaperInit
  <1> QED BY <1>1, <1>2, <1>3 DEF PositionInv, PositionIsBooked

\* One step.
LEMMA AccountStep ==
  BookInv /\ AccountOK /\ [PaperNext]_paperVars => AccountOK' /\ (PositionIsBooked => PositionIsBooked')
  <1> SUFFICES ASSUME BookInv, AccountOK, [PaperNext]_paperVars
               PROVE  AccountOK' /\ (PositionIsBooked => PositionIsBooked')
    OBVIOUS
  <1>0. booked \in [Orders -> Nat]
    BY DEF BookInv, PaperTypeOK
  <1>1. ASSUME NEW o \in Orders, NEW ord \in OrderRecords, Enter(o, ord), booked' = booked, account' = account
        PROVE  AccountOK' /\ (PositionIsBooked => PositionIsBooked')
    <2>1. booked' = [booked EXCEPT ![o] = 0]
      BY <1>0, <1>1 DEF Enter, BookInv, Unplaced
    <2>2. 0 \in Nat /\ 0 \in Int
      OBVIOUS
    <2> QED BY <1>1, <2>1, <2>2, EnterBooks
  <1>2. ASSUME NEW o \in Orders, PlaceMarket(o) PROVE AccountOK' /\ (PositionIsBooked => PositionIsBooked')
    <2> PICK ord \in Tickets({"MARKET"}) :
          /\ ltp[ord.symbol] > 0
          /\ Enter(o, [ord EXCEPT !.status = "FILLED", !.filled = ord.quantity])
          /\ booked' = [booked EXCEPT ![o] = ord.quantity]
          /\ account' = Settle(account, ord, ord.quantity, FillPrice(ord, ltp[ord.symbol]))
      BY <1>2 DEF PlaceMarket
    <2> DEFINE done == [ord EXCEPT !.status = "FILLED", !.filled = ord.quantity]
               price == FillPrice(ord, ltp[ord.symbol])
               n == ord.quantity
    <2>1. ord \in OrderRecords /\ done \in OrderRecords
      BY TicketShape
    <2>2. done.symbol = ord.symbol /\ done.side = ord.side /\ n \in Nat /\ n # 0 /\ ord.symbol \in Symbols
      BY <2>1 DEF OrderRecords
    <2>3. account' = Settle(account, done, n, price)
      <3> HIDE DEF done, price
      <3> QED BY <2>2 DEF Settle, price
    <2>4. price \in Int
      <3>1. ltp[ord.symbol] \in Prices \cup {0} /\ ltp[ord.symbol] > 0
        BY <2>2 DEF BookInv, PaperTypeOK
      <3>2. ltp[ord.symbol] \in Prices
        BY <3>1
      <3> QED BY <2>1, <3>2, PriceOfFill
    <2>5. Enter(o, done) /\ booked' = [booked EXCEPT ![o] = n]
      OBVIOUS
    <2> HIDE DEF done, price, n
    <2> QED BY <2>1, <2>2, <2>3, <2>4, <2>5, EnterBooks
  <1>3. ASSUME NEW o \in Orders, PlaceResting(o) \/ PlaceUnsupported(o) \/ PlaceRefused(o)
        PROVE  AccountOK' /\ (PositionIsBooked => PositionIsBooked')
    <2>1. booked' = booked /\ account' = account
      BY <1>3 DEF PlaceResting, PlaceUnsupported, PlaceRefused
    <2>2. \E ord \in OrderRecords : Enter(o, ord)
      <3>1. CASE PlaceResting(o)
        BY <3>1, TicketShape DEF PlaceResting
      <3>2. CASE PlaceUnsupported(o)
        BY <3>2, TicketShape DEF PlaceUnsupported
      <3>3. CASE PlaceRefused(o)
        BY <3>3, TicketShape DEF PlaceRefused
      <3> QED BY <1>3, <3>1, <3>2, <3>3
    <2> QED BY <1>1, <2>1, <2>2
  <1>4. ASSUME NEW o \in Orders, Cancel(o) PROVE AccountOK' /\ (PositionIsBooked => PositionIsBooked')
    <2>1. account' = account /\ booked' = booked /\ DOMAIN book' = DOMAIN book
      BY <1>4 DEF Cancel
    <2>2. \A x \in DOMAIN book : book'[x].symbol = book[x].symbol /\ book'[x].side = book[x].side
      BY <1>4 DEF Cancel, BookInv, PaperTypeOK, OrderRecords
    <2>3. \A s : Bought(s)' = Bought(s)
      BY <2>1, <2>2 DEF Bought
    <2> QED BY <2>1, <2>3 DEF AccountOK, PositionIsBooked
  <1>5. CASE UNCHANGED paperVars
    BY <1>5 DEF paperVars, AccountOK, PositionIsBooked, Bought
  <1> QED BY <1>2, <1>3, <1>4, <1>5, TickBooks DEF PaperNext

LEMMA PositionStep == PositionInv /\ [PaperNext]_paperVars => PositionInv'
  BY BookStep, AccountStep DEF PositionInv, StepKeeps

\* However orders are placed, averaged, reversed, partly filled and cancelled, a position
\* is what the fills of its orders bought less what they sold (paper_trading.py,
\* _fill_order), for any orders, quantities and prices.
THEOREM PositionsAreBooked == PaperSpec => []PositionIsBooked
  <1>1. PositionInv => PositionIsBooked
    BY DEF PositionInv
  <1> QED BY <1>1, PositionInit, PositionStep, PTL DEF PaperSpec

\* An account in balance reports what its cash and its open positions are worth.
LEMMA BalanceAddsUp ==
  ASSUME BookInv, AccountOK
  PROVE  PnlAddsUp
  <1> DEFINE made == MadeOf(account.pos)
             reported == [s \in Symbols |-> PnlOf(account.pos[s], ltp[s])]
             worth == [s \in Symbols |-> account.pos[s].net * ltp[s]]
  <1>1. /\ account.cash \in Int /\ account.fees \in Int /\ account.rounded \in Int
        /\ account.pos \in [Symbols -> Positions] /\ MoneyKept(account)
    BY DEF AccountOK, Accounts
  <1>2. ASSUME NEW s \in Symbols
        PROVE  /\ Made(account.pos[s]) \in Int /\ account.pos[s].net * ltp[s] \in Int
               /\ PnlOf(account.pos[s], ltp[s]) = Made(account.pos[s]) + account.pos[s].net * ltp[s]
    <2> DEFINE n == account.pos[s].net
               e == account.pos[s].entry
               q == account.pos[s].pnl
               last == ltp[s]
    <2>1. n \in Int /\ e \in Int /\ q \in Int
      BY <1>1 DEF Positions
    <2>2. last \in Int
      <3>1. last \in Prices \cup {0}
        BY DEF BookInv, PaperTypeOK
      <3>2. \A q1 \in Prices : q1 \in Int
        BY PaperAssumption
      <3> HIDE DEF last
      <3> QED BY <3>1, <3>2
    <2>3. Made(account.pos[s]) = q - n * e /\ PnlOf(account.pos[s], ltp[s]) = q + n * (last - e)
      BY DEF Made, PnlOf
    <2> HIDE DEF n, e, q, last
    <2>4. q - n * e \in Int /\ n * last \in Int /\ q + n * (last - e) = (q - n * e) + n * last
      BY <2>1, <2>2
    <2> QED BY <2>3, <2>4 DEF n, last
  <1>3. made \in [Symbols -> Int] /\ worth \in [Symbols -> Int] /\ reported \in [Symbols -> Int]
    BY <1>2 DEF MadeOf
  <1>4. PointwiseSum(made, worth, reported, Symbols)
    BY <1>2 DEF MadeOf, PointwiseSum
  <1>5. SumFunction(made) = account.cash + account.fees + account.rounded
    BY <1>1 DEF MoneyKept
  <1> HIDE DEF made, reported, worth
  <1>6. IsFiniteSet(Symbols)
    BY PaperAssumption
  <1>7. /\ SumFunction(reported) = SumFunction(made) + SumFunction(worth)
        /\ SumFunction(made) \in Int /\ SumFunction(worth) \in Int
    BY <1>3, <1>4, <1>6, SumOfBoth, SumIsNumber
  <1>8. SumFunction(reported) = account.cash + SumFunction(worth) + account.fees + account.rounded
    BY <1>1, <1>5, <1>7
  <1> QED BY <1>8 DEF PnlAddsUp, reported, worth

\* get_pnl and the cash of paper_trading.py agree: what averaging, partial
\* closes, reversals and slippage make of a position is what was paid for it
\* and what it is worth, to the fraction, for any symbols, orders, quantities,
\* prices, slippage and fees.
THEOREM MoneyAddsUp == PaperSpec => []PnlAddsUp
  <1>1. PositionInv => PnlAddsUp
    BY BalanceAddsUp DEF PositionInv
  <1> QED BY <1>1, PositionInit, PositionStep, PTL DEF PaperSpec
=============================================================================
