------------------------- MODULE BookingPagesProofs -------------------------
(***************************************************************************)
(* BookingPages, for every set of bookings, users and clients, finite or   *)
(* not, every value of the parameters and every width of an int: its       *)
(* types, what a page holds beside its total, when an offset goes wrong,   *)
(* what a user is told of its own bookings, and that a walk through the    *)
(* pages skips nothing.                                                    *)
(***************************************************************************)
EXTENDS BookingPages, FiniteSetTheorems, SequenceTheorems, TLAPS

(* A request for a page that was let through. *)
IsGood(q) ==
  /\ q \in PageRequest
  /\ PageIsValid(Parsed(q.page, 1)) /\ SizeIsValid(Parsed(q.size, DefaultSize))

StepsAgree ==
  \A c \in Clients :
    /\ pc[c] # "answered" => resp[c] = "none" /\ got[c] = << >>
    /\ pc[c] \in {"count", "select"} => IsGood(req[c])
    /\ pc[c] = "mine" => req[c] \in MineRequest
    /\ resp[c] = "OK" => IsGood(req[c]) \/ req[c] \in MineRequest
    /\ resp[c] = "NEGATIVE_OFFSET" => IsGood(req[c])

(* What a client has been told of is there for good. *)
KnownIsStored ==
  /\ IsFiniteSet(Stored)
  /\ \A c \in Clients : known[c] \subseteq Stored
  /\ \A c \in Clients : pc[c] = "select" => total[c] <= Cardinality(Stored)

(* WrongOnlyByOverflow, told so that a row more does not matter.            *)
OffsetsFit ==
  \A c \in Clients :
    /\ resp[c] = "NEGATIVE_OFFSET" => Skipped(c) > MaxInt
    /\ Paged(c) /\ got[c] # << >> /\ Skipped(c) <= MaxInt =>
         Skipped(c) < Cardinality(Stored)

(* The rows that come before b, however rows of one time are ordered. *)
Before(b) == {d \in Stored : created[d] > created[b]}

(* c reads the pages from the first on. *)
Walking(c) == (pc[c] \in {"count", "select"} \/ Paged(c)) /\ Parsed(req[c].page, 1) = 1

(* The first offset that is beyond an int is refused.                       *)
WalkStaysWithin ==
  \A c \in Clients : Walking(c) =>
    /\ Skipped(c) <= MaxInt + MaxSize
    /\ Paged(c) => Skipped(c) <= MaxInt

(* What the walk has not come to is behind all the rows it has passed, so   *)
(* that a page which ends the walk leaves nothing.                          *)
NothingIsBehind ==
  \A c \in Clients : Walking(c) =>
    \A b \in known[c] \ seen[c] : Alone(b) =>
      /\ Skipped(c) + Len(got[c]) <= Cardinality(Before(b))
      /\ Paged(c) => Len(got[c]) >= Size(c)

IInv ==
  /\ TypeOK /\ StepsAgree /\ KnownIsStored /\ PageFillsTotal /\ OffsetsFit
  /\ MineIsWhole /\ WalkStaysWithin /\ NothingIsBehind

-----------------------------------------------------------------------------
(* A number below the modulus is its own remainder. *)
LEMMA ModBelow ==
  ASSUME NEW m \in Int, NEW n \in 0 .. m - 1
  PROVE  n % m = n
  OBVIOUS

(* The modulus is taken away once. *)
LEMMA ModOnceOver ==
  ASSUME NEW m \in Int, NEW n \in m .. 2 * m - 1
  PROVE  n % m = n - m
  OBVIOUS

(* A remainder is no more than the number. *)
LEMMA ModShrinks ==
  ASSUME NEW m \in Nat \ {0}, NEW n \in Nat
  PROVE  n % m \in 0 .. n
  OBVIOUS

(* What fits an int is not changed by its width ... *)
LEMMA WrapFits ==
  ASSUME NEW n \in 0 .. MaxInt
  PROVE  Wrap(n) = n
  <1> DEFINE m == 2 * (MaxInt + 1)
  <1>1. m \in Int /\ n + MaxInt + 1 \in 0 .. m - 1
    BY PagesAssumption
  <1>2. (n + MaxInt + 1) % m = n + MaxInt + 1
    BY <1>1, ModBelow
  <1> QED
    BY <1>2, PagesAssumption DEF Wrap

(* ... nothing grows ... *)
LEMMA WrapShrinks ==
  ASSUME NEW n \in Nat
  PROVE  Wrap(n) \in Int /\ Wrap(n) <= n
  <1> DEFINE m == 2 * (MaxInt + 1)
  <1>1. m \in Nat \ {0} /\ n + MaxInt + 1 \in Nat
    BY PagesAssumption
  <1>2. (n + MaxInt + 1) % m \in 0 .. n + MaxInt + 1
    BY <1>1, ModShrinks
  <1> QED
    BY <1>2, PagesAssumption DEF Wrap

(* ... and what is beyond an int, but not twice, comes out negative. *)
LEMMA WrapOverflows ==
  ASSUME NEW n \in MaxInt + 1 .. 2 * MaxInt + 1
  PROVE  Wrap(n) < 0
  BY PagesAssumption, ModOnceOver DEF Wrap

(* What a request that was let through asks for. *)
LEMMA GoodParams ==
  ASSUME NEW q, IsGood(q)
  PROVE  Parsed(q.size, DefaultSize) \in 1 .. MaxSize /\ Parsed(q.page, 1) \in 1 .. MaxInt
  <1>1. Params \subseteq Int \cup {Blank, Junk} /\ DefaultSize \in Int
    BY PagesAssumption
  <1>2. q.page \in Int \cup {Blank, Junk} /\ q.size \in Int \cup {Blank, Junk}
    BY <1>1 DEF IsGood, PageRequest
  <1>3. /\ Parsed(q.size, DefaultSize) \in Int \cup {Junk}
        /\ Parsed(q.page, 1) \in Int \cup {Junk}
    BY <1>1, <1>2 DEF Parsed
  <1> QED
    BY <1>3, PagesAssumption DEF IsGood, PageIsValid, SizeIsValid

(* So that its offset, had an int no width, would be a number. *)
LEMMA GoodRequest ==
  ASSUME NEW c \in Clients, TypeOK, IsGood(req[c])
  PROVE  /\ Size(c) \in 1 .. MaxSize
         /\ Skipped(c) \in Nat
         /\ page[c] = 1 => Skipped(c) = 0
  <1>1. Size(c) \in 1 .. MaxSize
    BY GoodParams DEF Size
  <1>2. page[c] - 1 \in Nat /\ Size(c) \in Nat
    BY <1>1, PagesAssumption DEF TypeOK
  <1>3. Skipped(c) \in Nat
    BY <1>2 DEF Skipped
  <1>4. page[c] = 1 => Skipped(c) = 0
    BY <1>2 DEF Skipped
  <1> QED
    BY <1>1, <1>3, <1>4

(* No request is of both kinds. *)
LEMMA RequestKinds ==
  /\ \A q : IsGood(q) => q \in PageRequest
  /\ \A q \in PageRequest : q.op = "page" /\ q \in Request
  /\ \A q \in MineRequest : q.op = "mine" /\ q \in Request /\ q.user \in Users
  BY DEF IsGood, Request, PageRequest, MineRequest

(* The positions of n rows. *)
LEMMA Positions ==
  ASSUME NEW n \in Nat
  PROVE  IsFiniteSet(1 .. n) /\ Cardinality(1 .. n) = n
  BY FS_Interval

(* An order of S has each row of it once. *)
LEMMA OrderIsOnto ==
  ASSUME NEW S, IsFiniteSet(S), NEW f \in Orders(S)
  PROVE  /\ Cardinality(S) \in Nat /\ f \in [1 .. Cardinality(S) -> S]
         /\ f \in Seq(S) /\ Len(f) = Cardinality(S)
         /\ \A b \in S : \E k \in 1 .. Len(f) : f[k] = b
         /\ \A i, j \in 1 .. Len(f) : f[i] = f[j] => i = j
         /\ \A i, j \in 1 .. Len(f) : i < j => created[f[i]] >= created[f[j]]
  <1> DEFINE n == Cardinality(S)
  <1>1. n \in Nat
    BY FS_CardinalityType
  <1>2. /\ f \in [1 .. n -> S] /\ \A i, j \in 1 .. n : i # j => f[i] # f[j]
        /\ \A i, j \in 1 .. Len(f) : i < j => created[f[i]] >= created[f[j]]
    BY DEF Orders, SetToSeqs
  <1>3. f \in Seq(S) /\ Len(f) = n
    <2>1. f \in Seq(S)
      BY <1>1, <1>2, SeqDef
    <2>2. Len(f) \in Nat /\ 1 .. Len(f) = 1 .. n
      BY <1>2, <2>1, LenProperties
    <2> QED
      BY <1>1, <2>1, <2>2
  <1>4. f \in Surjection(1 .. n, S)
    <2>1. f \in Injection(1 .. n, S)
      BY <1>2 DEF Injection, IsInjective
    <2>2. Cardinality(1 .. n) = n
      BY <1>1, Positions
    <2> QED
      BY <2>1, <2>2, FS_Injection
  <1>5. \A b \in S : \E k \in 1 .. n : f[k] = b
    BY <1>4 DEF Surjection
  <1> QED
    BY <1>1, <1>2, <1>3, <1>5

(* The rows before b are those that precede it in every order, where no     *)
(* other shares its time.                                                   *)
LEMMA BeforeIsPrefix ==
  ASSUME IsFiniteSet(Stored), created \in [Bookings -> Int], NEW f \in Orders(Stored),
         NEW k \in 1 .. Len(f), Alone(f[k])
  PROVE  Cardinality(Before(f[k])) = k - 1
  <1> DEFINE b == f[k]
             g == [i \in 1 .. k - 1 |-> f[i]]
  <1>1. /\ f \in [1 .. Len(f) -> Stored] /\ Len(f) \in Nat
        /\ \A d \in Stored : \E i \in 1 .. Len(f) : f[i] = d
        /\ \A i, j \in 1 .. Len(f) : f[i] = f[j] => i = j
        /\ \A i, j \in 1 .. Len(f) : i < j => created[f[i]] >= created[f[j]]
    BY OrderIsOnto
  <1>2. \A i \in 1 .. Len(f) : created[f[i]] \in Int
    BY <1>1 DEF Stored
  <1>3. \A i \in 1 .. Len(f) : created[f[i]] > created[b] <=> i < k
    <2> TAKE i \in 1 .. Len(f)
    <2>1. i < k => created[f[i]] > created[b]
      BY <1>1, <1>2 DEF Alone
    <2>2. i >= k => created[f[i]] <= created[b]
      BY <1>1, <1>2
    <2> QED
      BY <1>2, <2>1, <2>2
  <1>4. g \in [1 .. k - 1 -> Before(b)]
    BY <1>1, <1>3 DEF Before
  <1>5. \A d \in Before(b) : \E i \in 1 .. k - 1 : g[i] = d
    BY <1>1, <1>3 DEF Before
  <1>6. g \in Bijection(1 .. k - 1, Before(b))
    BY <1>1, <1>4, <1>5 DEF Bijection, Injection, Surjection, IsInjective
  <1>7. IsFiniteSet(1 .. k - 1) /\ Cardinality(1 .. k - 1) = k - 1
    <2>1. k - 1 \in Nat
      BY <1>1
    <2> QED
      BY <2>1, Positions
  <1> QED
    BY <1>6, <1>7, FS_Bijection DEF ExistsBijection

(* What LIMIT and OFFSET keep of the rows. *)
LEMMA PageRows ==
  ASSUME NEW S, NEW f \in Seq(S), NEW off \in Nat, NEW size \in Nat
  PROVE  LET rest == PageOf(f, off, size) IN
         /\ rest \in Seq(S) /\ ToSet(rest) \subseteq S
         /\ Len(rest) <= size
         /\ Len(rest) >= size \/ Len(rest) >= Len(f) - off
         /\ rest # << >> => off < Len(f)
         /\ \A k \in 1 .. Len(f) : off < k /\ k <= off + size => f[k] \in ToSet(rest)
         /\ \A k \in 1 .. Len(f) : off + size < k => Len(rest) = size
  <1> DEFINE rest == PageOf(f, off, size)
             m == off + 1
             n == IF Len(f) < off + size THEN Len(f) ELSE off + size
  <1>1. Len(f) \in Nat /\ f \in [1 .. Len(f) -> S]
    BY LenProperties
  <1>2. n \in Nat /\ \A i \in m .. n : f[i] \in S
    BY <1>1
  <1>3. /\ rest \in Seq(S)
        /\ Len(rest) = IF m <= n THEN n - m + 1 ELSE 0
        /\ \A i \in 1 .. n - m + 1 : rest[i] = f[m + i - 1]
    BY <1>2, SubSeqProperties DEF PageOf
  <1>4. rest # << >> => off < Len(f)
    <2>1. n < m => rest = << >>
      BY <1>2, SubSeqEmpty DEF PageOf
    <2> QED
      BY <1>1, <1>2, <2>1
  <1>5. DOMAIN rest = 1 .. Len(rest) /\ ToSet(rest) \subseteq S
    BY <1>3, LenProperties DEF ToSet
  <1>6. n \in Nat /\ Len(f) \in Nat /\ n <= Len(f) /\ n <= off + size
    BY <1>1
  <1>7. n = Len(f) \/ n = off + size
    OBVIOUS
  <1> HIDE DEF n, rest
  <1>8. /\ Len(rest) \in Nat
        /\ off < n => Len(rest) = n - off
        /\ n <= off => Len(rest) = 0
        /\ \A i \in 1 .. n - off : rest[i] = f[off + i]
    BY <1>3, <1>6
  <1>9. Len(rest) <= size
    BY <1>6, <1>8
  <1>10. Len(rest) >= size \/ Len(rest) >= Len(f) - off
    BY <1>6, <1>7, <1>8
  <1>11. \A k \in 1 .. Len(f) : off + size < k => Len(rest) = size
    BY <1>6, <1>7, <1>8
  <1>12. ASSUME NEW k \in 1 .. Len(f), off < k, k <= off + size PROVE f[k] \in ToSet(rest)
    <2>1. k - off \in 1 .. n - off /\ k - off \in 1 .. Len(rest) /\ off + (k - off) = k
      BY <1>6, <1>7, <1>8, <1>12
    <2>2. rest[k - off] = f[k]
      BY <1>8, <2>1
    <2> QED
      BY <1>5, <2>1, <2>2 DEF ToSet
  <1> QED
    BY <1>3, <1>4, <1>5, <1>9, <1>10, <1>11, <1>12 DEF rest

-----------------------------------------------------------------------------
(* How the table grows, and how the clients take turns. *)

(* A client that does not move. *)
Still(c) ==
  /\ req'[c] = req[c] /\ pc'[c] = pc[c] /\ resp'[c] = resp[c] /\ page'[c] = page[c]
  /\ asked'[c] = asked[c] /\ total'[c] = total[c] /\ got'[c] = got[c]
  /\ seen'[c] = seen[c] /\ known'[c] = known[c]

Moves(c) ==
  \/ AskPage(c) \/ AskNext(c) \/ Count(c) \/ Select(c)
  \/ AskMine(c) \/ SelectMine(c) \/ StatementFails(c)

(* A step is a writer's, who moves no client, or one client's, who writes   *)
(* nothing.                                                                 *)
LEMMA WhoMoves ==
  ASSUME TypeOK, [Next]_vars, NEW c \in Clients
  PROVE  Still(c) \/ (Moves(c) /\ UNCHANGED <<table, now>>)
  <1>1. CASE UNCHANGED reader
    BY <1>1 DEF reader, Still
  <1>2. ASSUME NEW b \in Bookings, Begin(b) \/ Commit(b) \/ Cancel(b) PROVE UNCHANGED reader
    BY <1>2 DEF Begin, Commit, Cancel
  <1>3. ASSUME NEW q \in Clients, Moves(q), q # c PROVE Still(c)
    BY <1>3
    DEF Moves, AskPage, AskNext, Count, Select, AskMine, SelectMine, StatementFails, Still,
        TypeOK
  <1>4. ASSUME Moves(c) PROVE UNCHANGED <<table, now>>
    BY <1>4 DEF Moves, AskPage, AskNext, Count, Select, AskMine, SelectMine, StatementFails
  <1>5. Tick \/ UNCHANGED vars => UNCHANGED reader
    BY DEF Tick, vars
  <1> QED
    BY <1>1, <1>2, <1>3, <1>4, <1>5 DEF Next, Moves

(* A row that is stored stays, with its time, and at most one is added. *)
LEMMA TableGrows ==
  ASSUME TypeOK, [Next]_vars
  PROVE  /\ Stored \subseteq Stored'
         /\ \A b \in Stored : created'[b] = created[b]
         /\ Stored' = Stored \/ \E b \in Bookings : Stored' = Stored \cup {b}
  <1> USE DEF TypeOK, Stored
  <1> DEFINE P == /\ Stored \subseteq Stored'
                  /\ \A b \in Stored : created'[b] = created[b]
                  /\ Stored' = Stored \/ \E b \in Bookings : Stored' = Stored \cup {b}
  <1>1. CASE UNCHANGED table
    BY <1>1 DEF table
  <1>2. ASSUME NEW b \in Bookings, Begin(b) PROVE P
    BY <1>2 DEF Begin
  <1>3. ASSUME NEW b \in Bookings, Commit(b) PROVE P
    <2>1. Stored' = Stored \cup {b} /\ created' = created
      BY <1>3 DEF Commit
    <2> HIDE DEF Stored
    <2> QED
      BY <2>1
  <1>4. ASSUME NEW b \in Bookings, Cancel(b) PROVE P
    BY <1>4 DEF Cancel
  <1>5. ASSUME NEW c \in Clients, Moves(c) PROVE UNCHANGED table
    BY <1>5 DEF Moves, AskPage, AskNext, Count, Select, AskMine, SelectMine, StatementFails
  <1>6. Tick \/ UNCHANGED vars => UNCHANGED table
    BY DEF Tick, vars
  <1> QED
    BY <1>1, <1>2, <1>3, <1>4, <1>5, <1>6 DEF Next, Moves

(* So its number does not fall, nor what comes before a row, and a row that *)
(* shares its time with no other has never done so.                         *)
LEMMA CountsGrow ==
  ASSUME TypeOK, IsFiniteSet(Stored), [Next]_vars
  PROVE  /\ IsFiniteSet(Stored')
         /\ Cardinality(Stored) \in Nat /\ Cardinality(Stored') \in Nat
         /\ Cardinality(Stored) <= Cardinality(Stored')
         /\ \A b \in Stored : /\ Cardinality(Before(b)) \in Nat
                              /\ Cardinality(Before(b)') \in Nat
                              /\ Cardinality(Before(b)) <= Cardinality(Before(b)')
                              /\ Alone(b)' => Alone(b)
  <1>1. IsFiniteSet(Stored')
    BY TableGrows, FS_AddElement
  <1>2. Cardinality(Stored) \in Nat /\ Cardinality(Stored') \in Nat
    BY <1>1, FS_CardinalityType
  <1>3. Cardinality(Stored) <= Cardinality(Stored')
    BY <1>1, TableGrows, FS_Subset
  <1>4. ASSUME NEW b \in Stored
        PROVE  /\ Cardinality(Before(b)) \in Nat /\ Cardinality(Before(b)') \in Nat
               /\ Cardinality(Before(b)) <= Cardinality(Before(b)')
               /\ Alone(b)' => Alone(b)
    <2>1. Before(b) \subseteq Before(b)' /\ Before(b)' \subseteq Stored'
      BY TableGrows DEF Before
    <2>2. IsFiniteSet(Before(b)')
      BY <1>1, <2>1, FS_Subset
    <2>3. IsFiniteSet(Before(b)) /\ Cardinality(Before(b)) <= Cardinality(Before(b)')
      BY <2>1, <2>2, FS_Subset
    <2>4. Cardinality(Before(b)) \in Nat /\ Cardinality(Before(b)') \in Nat
      BY <2>2, <2>3, FS_CardinalityType
    <2>5. Alone(b)' => Alone(b)
      BY TableGrows DEF Alone
    <2> QED
      BY <2>3, <2>4, <2>5
  <1> QED
    BY <1>1, <1>2, <1>3, <1>4

-----------------------------------------------------------------------------
(* Initially there is no row and nobody has asked. *)
LEMMA InitIInv == Init => IInv
  <1> SUFFICES ASSUME Init PROVE IInv
    OBVIOUS
  <1>1. TypeOK
    BY PagesAssumption, EmptySeq DEF Init, TypeOK
  <1>2. KnownIsStored
    <2>1. Stored = {}
      BY DEF Init, Stored
    <2> QED
      BY <2>1, FS_EmptySet DEF Init, KnownIsStored
  <1>3. \A c \in Clients : pc[c] = "idle" /\ resp[c] = "none" /\ got[c] = << >>
    BY DEF Init
  <1>4. StepsAgree /\ PageFillsTotal /\ OffsetsFit /\ MineIsWhole /\ WalkStaysWithin
          /\ NothingIsBehind
    BY <1>3
    DEF StepsAgree, PageFillsTotal, OffsetsFit, MineIsWhole, WalkStaysWithin,
        NothingIsBehind, Walking, Paged
  <1> QED
    BY <1>1, <1>2, <1>4 DEF IInv

(* What a page of what is stored is made of. *)
LEMMA SelectedPage ==
  ASSUME IInv, NEW c \in Clients, Select(c), resp'[c] = "OK"
  PROVE  \E f \in Orders(Stored) :
           /\ got' = [got EXCEPT ![c] = PageOf(f, Offset(c), Size(c))]
           /\ got'[c] = PageOf(f, Offset(c), Size(c))
           /\ seen' = [seen EXCEPT ![c] = @ \cup ToSet(got'[c])]
           /\ Offset(c) >= 0
  BY DEF IInv, TypeOK, Select, Listed

(* The offset that is sent is the one meant, unless that is beyond an int.  *)
LEMMA Offsets ==
  ASSUME IInv, NEW c \in Clients, IsGood(req[c])
  PROVE  /\ Skipped(c) \in Nat /\ Size(c) \in 1 .. MaxSize
         /\ Offset(c) \in Int /\ Offset(c) <= Skipped(c)
         /\ Skipped(c) <= MaxInt => Offset(c) = Skipped(c)
         /\ MaxInt < Skipped(c) /\ Skipped(c) <= MaxInt + MaxSize => Offset(c) < 0
  <1>1. Skipped(c) \in Nat /\ Size(c) \in 1 .. MaxSize /\ Offset(c) = Wrap(Skipped(c))
    BY GoodRequest DEF IInv, Offset, Skipped
  <1>2. MaxSize \in 1 .. MaxInt /\ MaxInt \in Nat
    BY PagesAssumption
  <1> QED
    BY <1>1, <1>2, WrapFits, WrapShrinks, WrapOverflows

-----------------------------------------------------------------------------
(* Every step keeps the types. *)
LEMMA NextType ==
  ASSUME IInv, [Next]_vars
  PROVE  TypeOK'
  <1> USE DEF IInv, TypeOK, table, reader
  <1>1. ASSUME NEW b \in Bookings, Begin(b) PROVE TypeOK'
    BY <1>1 DEF Begin
  <1>2. ASSUME NEW b \in Bookings, Commit(b) PROVE TypeOK'
    BY <1>2 DEF Commit
  <1>3. ASSUME NEW b \in Bookings, Cancel(b) PROVE TypeOK'
    BY <1>3 DEF Cancel
  <1>4. CASE Tick
    BY <1>4, PagesAssumption DEF Tick
  <1>5. ASSUME NEW c \in Clients, AskPage(c) PROVE TypeOK'
    <2>1. PICK q \in PageRequest :
            /\ req' = [req EXCEPT ![c] = q]
            /\ \/ IsGood(q) /\ page' = [page EXCEPT ![c] = Parsed(q.page, 1)]
               \/ UNCHANGED page
      BY <1>5 DEF AskPage, IsGood
    <2>2. page' \in [Clients -> 1 .. MaxInt]
      <3>1. IsGood(q) => Parsed(q.page, 1) \in 1 .. MaxInt
        BY GoodParams
      <3> QED
        BY <2>1, <3>1
    <2>3. Stored \subseteq Bookings /\ q \in Request
      BY DEF Stored, Request
    <2>4. /\ pc' \in [Clients -> {"idle", "count", "select", "mine", "answered"}]
          /\ resp' \in [Clients -> {"none", "OK", "INVALID_REQUEST", "INTERNAL_ERROR",
                                  "NEGATIVE_OFFSET"}]
          /\ known' = [known EXCEPT ![c] = Stored]
          /\ UNCHANGED <<table, now, asked, total, got, seen>>
      BY <1>5 DEF AskPage
    <2> QED
      BY <2>1, <2>2, <2>3, <2>4
  <1>6. ASSUME NEW c \in Clients, AskNext(c) PROVE TypeOK'
    BY <1>6, PagesAssumption, EmptySeq DEF AskNext
  <1>7. ASSUME NEW c \in Clients, Count(c) PROVE TypeOK'
    <2>1. Cardinality(Stored) \in Nat
      BY FS_CardinalityType DEF KnownIsStored
    <2> QED
      BY <1>7, <2>1 DEF Count
  <1>8. ASSUME NEW c \in Clients, Select(c) PROVE TypeOK'
    <2>1. /\ pc' = [pc EXCEPT ![c] = "answered"]
          /\ resp' \in {[resp EXCEPT ![c] = "OK"], [resp EXCEPT ![c] = "NEGATIVE_OFFSET"]}
          /\ UNCHANGED <<table, now, req, page, asked, total, known>>
      BY <1>8 DEF Select
    <2>2. CASE UNCHANGED <<got, seen>>
      BY <2>1, <2>2
    <2>3. CASE resp'[c] = "OK"
      <3>1. PICK f \in Orders(Stored) :
              /\ got' = [got EXCEPT ![c] = PageOf(f, Offset(c), Size(c))]
              /\ got'[c] = PageOf(f, Offset(c), Size(c))
              /\ seen' = [seen EXCEPT ![c] = @ \cup ToSet(got'[c])]
              /\ Offset(c) >= 0
        BY <1>8, <2>3, SelectedPage
      <3>2. Offset(c) \in Nat /\ Size(c) \in Nat
        BY <1>8, <3>1, Offsets DEF Select, StepsAgree
      <3>3. f \in Seq(Bookings)
        BY OrderIsOnto, SeqMonotonic DEF KnownIsStored, Stored
      <3>4. got'[c] \in Seq(Bookings) /\ ToSet(got'[c]) \subseteq Bookings
        BY <3>1, <3>2, <3>3, PageRows
      <3> QED
        BY <2>1, <3>1, <3>4
    <2> QED
      BY <1>8, <2>2, <2>3 DEF Select
  <1>9. ASSUME NEW c \in Clients, AskMine(c) PROVE TypeOK'
    BY <1>9 DEF AskMine, Stored, Request, MineRequest
  <1>10. ASSUME NEW c \in Clients, SelectMine(c) PROVE TypeOK'
    BY <1>10 DEF SelectMine, Stored
  <1>11. ASSUME NEW c \in Clients, StatementFails(c) PROVE TypeOK'
    BY <1>11 DEF StatementFails
  <1>12. CASE UNCHANGED vars
    BY <1>12 DEF vars
  <1> QED
    BY <1>1, <1>2, <1>3, <1>4, <1>5, <1>6, <1>7, <1>8, <1>9, <1>10, <1>11, <1>12 DEF Next

(* Every step leaves a client at a statement of its request. *)
LEMMA NextStepsAgree ==
  ASSUME IInv, [Next]_vars
  PROVE  StepsAgree'
  <1> DEFINE Agrees(c) ==
        /\ pc[c] # "answered" => resp[c] = "none" /\ got[c] = << >>
        /\ pc[c] \in {"count", "select"} => IsGood(req[c])
        /\ pc[c] = "mine" => req[c] \in MineRequest
        /\ resp[c] = "OK" => IsGood(req[c]) \/ req[c] \in MineRequest
        /\ resp[c] = "NEGATIVE_OFFSET" => IsGood(req[c])
  <1> SUFFICES ASSUME NEW c \in Clients PROVE Agrees(c)'
    BY DEF StepsAgree
  <1> USE DEF IInv, TypeOK
  <1>1. Agrees(c)
    BY DEF StepsAgree
  <1>2. CASE Still(c)
    BY <1>1, <1>2 DEF Still
  <1>3. CASE AskPage(c)
    <2>1. PICK q \in PageRequest :
            /\ req' = [req EXCEPT ![c] = q]
            /\ \/ IsGood(q) /\ pc' = [pc EXCEPT ![c] = "count"] /\ UNCHANGED resp
               \/ /\ pc' = [pc EXCEPT ![c] = "answered"]
                  /\ resp' = [resp EXCEPT ![c] = "INVALID_REQUEST"]
      BY <1>3 DEF AskPage, IsGood
    <2> QED
      BY <1>1, <1>3, <2>1 DEF AskPage
  <1>4. CASE AskNext(c)
    BY <1>1, <1>4, RequestKinds DEF AskNext
  <1>5. CASE Count(c)
    BY <1>1, <1>5 DEF Count
  <1>6. CASE Select(c)
    BY <1>1, <1>6 DEF Select
  <1>7. CASE AskMine(c)
    BY <1>1, <1>7 DEF AskMine, MineRequest
  <1>8. CASE SelectMine(c)
    BY <1>1, <1>8 DEF SelectMine
  <1>9. CASE StatementFails(c)
    BY <1>1, <1>9 DEF StatementFails
  <1> QED
    BY <1>2, <1>3, <1>4, <1>5, <1>6, <1>7, <1>8, <1>9, WhoMoves DEF Moves

(* What was read of a table that only grows is still there. *)
LEMMA NextKnown ==
  ASSUME IInv, [Next]_vars
  PROVE  KnownIsStored'
  <1> USE DEF IInv, TypeOK
  <1>1. /\ IsFiniteSet(Stored') /\ Stored \subseteq Stored'
        /\ Cardinality(Stored) \in Nat /\ Cardinality(Stored') \in Nat
        /\ Cardinality(Stored) <= Cardinality(Stored')
    BY TableGrows, CountsGrow DEF KnownIsStored
  <1>2. ASSUME NEW c \in Clients
        PROVE  /\ known'[c] \subseteq Stored'
               /\ pc'[c] = "select" => total'[c] <= Cardinality(Stored')
    <2>1. known'[c] \in {known[c], Stored} /\ known[c] \subseteq Stored
      BY WhoMoves
      DEF Still, Moves, AskPage, AskNext, Count, Select, AskMine, SelectMine,
          StatementFails, KnownIsStored
    <2>2. pc'[c] = "select" => \/ pc[c] = "select" /\ total'[c] = total[c]
                               \/ total'[c] = Cardinality(Stored)
      BY WhoMoves
      DEF Still, Moves, AskPage, AskNext, Count, Select, AskMine, SelectMine, StatementFails
    <2>3. total[c] \in Nat /\ (pc[c] = "select" => total[c] <= Cardinality(Stored))
      BY DEF KnownIsStored
    <2> QED
      BY <1>1, <2>1, <2>2, <2>3
  <1> QED
    BY <1>1, <1>2 DEF KnownIsStored

(* The facts of a page just selected, whatever its walk. *)
LEMMA SelectFacts ==
  ASSUME IInv, NEW c \in Clients, Select(c), resp'[c] = "OK"
  PROVE  /\ IsGood(req[c]) /\ UNCHANGED <<table, req, page, total, known>>
         /\ Skipped(c) \in Nat /\ Offset(c) \in Nat /\ Offset(c) <= Skipped(c)
         /\ Size(c) \in 1 .. MaxSize
         /\ Skipped(c) <= MaxInt => Offset(c) = Skipped(c)
         /\ Skipped(c) <= MaxInt + MaxSize => Skipped(c) <= MaxInt
         /\ got'[c] \in Seq(Stored) /\ Len(got'[c]) \in Nat
         /\ Len(got'[c]) <= Size(c)
         /\ Len(got'[c]) >= Size(c) \/ Len(got'[c]) >= Cardinality(Stored) - Offset(c)
         /\ got'[c] # << >> => Offset(c) < Cardinality(Stored)
         /\ \A b \in Stored : Alone(b) /\ Offset(c) <= Cardinality(Before(b)) =>
              \/ b \in seen'[c]
              \/ /\ Len(got'[c]) = Size(c)
                 /\ Offset(c) + Size(c) <= Cardinality(Before(b))
  <1>1. IsGood(req[c]) /\ UNCHANGED <<table, req, page, total, known>>
    BY DEF Select, IInv, StepsAgree
  <1>2. PICK f \in Orders(Stored) :
          /\ got' = [got EXCEPT ![c] = PageOf(f, Offset(c), Size(c))]
          /\ got'[c] = PageOf(f, Offset(c), Size(c))
          /\ seen' = [seen EXCEPT ![c] = @ \cup ToSet(got'[c])]
          /\ Offset(c) >= 0
    BY SelectedPage
  <1>3. /\ Skipped(c) \in Nat /\ Size(c) \in 1 .. MaxSize
        /\ Offset(c) \in Nat /\ Offset(c) <= Skipped(c)
        /\ Skipped(c) <= MaxInt => Offset(c) = Skipped(c)
        /\ Skipped(c) <= MaxInt + MaxSize => Skipped(c) <= MaxInt
    <2>1. /\ Skipped(c) \in Nat /\ Size(c) \in 1 .. MaxSize
          /\ Offset(c) \in Int /\ Offset(c) <= Skipped(c)
          /\ Skipped(c) <= MaxInt => Offset(c) = Skipped(c)
          /\ MaxInt < Skipped(c) /\ Skipped(c) <= MaxInt + MaxSize => Offset(c) < 0
      BY <1>1, Offsets
    <2> QED
      BY <1>2, <2>1, PagesAssumption
  <1>4. IsFiniteSet(Stored) /\ created \in [Bookings -> Int]
    BY DEF IInv, KnownIsStored, TypeOK
  <1>5. /\ f \in Seq(Stored) /\ Len(f) = Cardinality(Stored) /\ Cardinality(Stored) \in Nat
        /\ \A b \in Stored : \E k \in 1 .. Len(f) : f[k] = b
    BY <1>4, OrderIsOnto
  <1>6. Offset(c) \in Nat /\ Size(c) \in Nat
    BY <1>3
  <1>7. /\ got'[c] \in Seq(Stored)
        /\ Len(got'[c]) <= Size(c)
        /\ Len(got'[c]) >= Size(c) \/ Len(got'[c]) >= Len(f) - Offset(c)
        /\ got'[c] # << >> => Offset(c) < Len(f)
        /\ \A k \in 1 .. Len(f) :
             Offset(c) < k /\ k <= Offset(c) + Size(c) => f[k] \in ToSet(got'[c])
        /\ \A k \in 1 .. Len(f) : Offset(c) + Size(c) < k => Len(got'[c]) = Size(c)
    <2> DEFINE rest == PageOf(f, Offset(c), Size(c))
    <2>1. /\ rest \in Seq(Stored) /\ Len(rest) <= Size(c)
          /\ Len(rest) >= Size(c) \/ Len(rest) >= Len(f) - Offset(c)
          /\ rest # << >> => Offset(c) < Len(f)
          /\ \A k \in 1 .. Len(f) :
               Offset(c) < k /\ k <= Offset(c) + Size(c) => f[k] \in ToSet(rest)
          /\ \A k \in 1 .. Len(f) : Offset(c) + Size(c) < k => Len(rest) = Size(c)
      BY <1>5, <1>6, PageRows
    <2>2. got'[c] = rest
      BY <1>2
    <2> HIDE DEF rest
    <2> QED
      BY <2>1, <2>2
  <1>8. Len(got'[c]) \in Nat
    BY <1>7, LenProperties
  <1>9. ASSUME NEW b \in Stored, Alone(b), Offset(c) <= Cardinality(Before(b))
        PROVE  \/ b \in seen'[c]
               \/ /\ Len(got'[c]) = Size(c)
                  /\ Offset(c) + Size(c) <= Cardinality(Before(b))
    <2>1. PICK k \in 1 .. Len(f) : f[k] = b
      BY <1>5
    <2>2. Cardinality(Before(b)) = k - 1
      BY <1>4, <1>9, <2>1, BeforeIsPrefix
    <2>3. CASE k <= Offset(c) + Size(c)
      <3>1. b \in ToSet(got'[c])
        BY <1>5, <1>6, <1>7, <1>9, <2>1, <2>2, <2>3
      <3> QED
        BY <1>2, <3>1 DEF IInv, TypeOK
    <2>4. CASE Offset(c) + Size(c) < k
      BY <1>5, <1>6, <1>7, <2>2, <2>4
    <2> QED
      BY <1>5, <1>6, <2>3, <2>4
  <1> QED
    BY <1>1, <1>3, <1>5, <1>7, <1>8, <1>9

(* A page has its rows, and its offset, once and for all, and the table is  *)
(* not what it was.                                                         *)
LEMMA NextFills ==
  ASSUME IInv, [Next]_vars
  PROVE  PageFillsTotal'
  <1> SUFFICES ASSUME NEW c \in Clients, Paged(c)'
               PROVE  /\ Len(got'[c]) <= Size(c)'
                      /\ Len(got'[c]) >= Size(c)' \/ Len(got'[c]) >= total'[c] - Skipped(c)'
    BY DEF PageFillsTotal
  <1> USE DEF IInv, TypeOK
  <1>1. CASE Still(c)
    BY <1>1 DEF Still, PageFillsTotal, Paged, Size, Skipped
  <1>2. CASE Select(c)
    <2>1. resp'[c] = "OK" /\ pc[c] = "select"
      BY <1>2 DEF Select, Paged
    <2>2. Size(c)' = Size(c) /\ Skipped(c)' = Skipped(c) /\ total'[c] = total[c]
      BY <1>2 DEF Select, Size, Skipped
    <2>3. total[c] <= Cardinality(Stored) /\ total[c] \in Nat /\ Cardinality(Stored) \in Nat
      BY <2>1, FS_CardinalityType DEF KnownIsStored
    <2>4. /\ Skipped(c) \in Nat /\ Offset(c) \in Nat /\ Offset(c) <= Skipped(c)
          /\ Size(c) \in 1 .. MaxSize /\ Len(got'[c]) \in Nat
          /\ Len(got'[c]) <= Size(c)
          /\ Len(got'[c]) >= Size(c) \/ Len(got'[c]) >= Cardinality(Stored) - Offset(c)
      BY <1>2, <2>1, SelectFacts
    <2> QED
      BY <2>2, <2>3, <2>4
  <1>3. Moves(c) => Select(c)
    BY DEF Moves, AskPage, AskNext, Count, AskMine, SelectMine, StatementFails, Paged,
           MineRequest, StepsAgree
  <1> QED
    BY <1>1, <1>2, <1>3, WhoMoves

(* An offset that fits an int is what was meant, and a page that has rows   *)
(* begins before the last of them.                                          *)
LEMMA NextOffsetsFit ==
  ASSUME IInv, [Next]_vars
  PROVE  OffsetsFit'
  <1> DEFINE Fits(c) ==
        /\ resp[c] = "NEGATIVE_OFFSET" => Skipped(c) > MaxInt
        /\ Paged(c) /\ got[c] # << >> /\ Skipped(c) <= MaxInt =>
             Skipped(c) < Cardinality(Stored)
  <1> SUFFICES ASSUME NEW c \in Clients PROVE Fits(c)'
    BY DEF OffsetsFit
  <1> USE DEF IInv, TypeOK
  <1>1. /\ Cardinality(Stored) \in Nat /\ Cardinality(Stored') \in Nat
        /\ Cardinality(Stored) <= Cardinality(Stored')
    BY CountsGrow DEF KnownIsStored
  <1>2. Fits(c) /\ (Paged(c) => Skipped(c) \in Nat)
    BY GoodRequest DEF OffsetsFit, Paged, StepsAgree, MineRequest
  <1>3. CASE Still(c)
    BY <1>1, <1>2, <1>3 DEF Still, Paged, Size, Skipped
  <1>4. CASE Select(c)
    <2>1. IsGood(req[c]) /\ Skipped(c)' = Skipped(c) /\ Stored' = Stored
      BY <1>4 DEF Select, Skipped, Size, StepsAgree, Stored, table
    <2>2. CASE resp'[c] = "OK"
      BY <1>4, <2>1, <2>2, SelectFacts
    <2>3. CASE resp'[c] = "NEGATIVE_OFFSET"
      <3>1. Offset(c) < 0
        BY <1>4, <2>3 DEF Select
      <3>2. Skipped(c) > MaxInt
        <4>1. /\ Skipped(c) \in Nat /\ MaxInt \in Nat
              /\ Skipped(c) <= MaxInt => Offset(c) = Skipped(c)
          BY <2>1, Offsets, PagesAssumption
        <4> QED
          BY <3>1, <4>1
      <3> QED
        BY <2>1, <2>3, <3>2 DEF Paged
    <2> QED
      BY <1>4, <2>2, <2>3 DEF Select
  <1>5. Moves(c) /\ ~ Select(c) => resp'[c] # "NEGATIVE_OFFSET" /\ ~ Paged(c)'
    BY DEF Moves, AskPage, AskNext, Count, AskMine, SelectMine, StatementFails, Paged,
           MineRequest, StepsAgree
  <1> QED
    BY <1>3, <1>4, <1>5, WhoMoves

(* What a user is told of is read after the request came, of a table that   *)
(* had lost nothing.                                                        *)
LEMMA NextMine ==
  ASSUME IInv, [Next]_vars
  PROVE  MineIsWhole'
  <1> DEFINE Mine(c) == {b \in Bookings : UserOf[b] = req[c].user /\ asked[c] <= StartOf[b]}
             Whole(c) ==
               pc[c] = "answered" /\ resp[c] = "OK" /\ req[c].op = "mine" =>
                 known[c] \cap Mine(c) \subseteq seen[c] /\ seen[c] \subseteq Mine(c)
  <1> SUFFICES ASSUME NEW c \in Clients PROVE Whole(c)'
    BY DEF MineIsWhole
  <1> USE DEF IInv, TypeOK
  <1>1. Whole(c)
    BY DEF MineIsWhole
  <1>2. CASE Still(c)
    BY <1>1, <1>2 DEF Still
  <1>3. CASE SelectMine(c)
    <2>1. known[c] \subseteq Stored /\ Stored \subseteq Bookings
      BY DEF KnownIsStored, Stored
    <2>2. \A b \in Bookings : Ahead(b, c) <=> asked[c] <= StartOf[b]
      BY PagesAssumption DEF Ahead
    <2> QED
      BY <1>3, <2>1, <2>2 DEF SelectMine
  <1>4. Select(c) => req'[c].op = "page"
    BY RequestKinds DEF Select, StepsAgree
  <1>5. Moves(c) /\ ~ SelectMine(c) /\ ~ Select(c) => resp'[c] # "OK"
    BY DEF Moves, AskPage, AskNext, Count, AskMine, StatementFails, StepsAgree
  <1> QED
    BY <1>2, <1>3, <1>4, <1>5, WhoMoves

-----------------------------------------------------------------------------
(* How a walk goes on: it begins, it waits, it is answered, it asks for the *)
(* next page, or it ends.                                                   *)
LEMMA WalkSteps ==
  ASSUME IInv, [Next]_vars, NEW c \in Clients, Walking(c)'
  PROVE  \/ /\ pc[c] = "idle" /\ pc'[c] = "count" /\ got'[c] = << >>
            /\ Skipped(c)' = 0
         \/ /\ Walking(c) /\ Still(c)
         \/ /\ Walking(c) /\ UNCHANGED <<table, now>> /\ Count(c)
         \/ /\ Walking(c) /\ UNCHANGED <<table, now>> /\ AskNext(c)
         \/ /\ Walking(c) /\ UNCHANGED <<table, now>> /\ Select(c) /\ resp'[c] = "OK"
  <1> USE DEF IInv, TypeOK
  <1>1. CASE Still(c)
    BY <1>1 DEF Still, Walking, Paged
  <1>2. CASE AskPage(c)
    <2>1. PICK q \in PageRequest :
            /\ req' = [req EXCEPT ![c] = q]
            /\ \/ /\ page' = [page EXCEPT ![c] = Parsed(q.page, 1)]
                  /\ pc' = [pc EXCEPT ![c] = "count"]
               \/ /\ pc' = [pc EXCEPT ![c] = "answered"]
                  /\ resp' = [resp EXCEPT ![c] = "INVALID_REQUEST"]
      BY <1>2 DEF AskPage
    <2>2. pc'[c] = "count" /\ page'[c] = 1 /\ got'[c] = << >> /\ pc[c] = "idle"
      BY <1>2, <2>1 DEF AskPage, Walking, Paged, StepsAgree
    <2>3. TypeOK' /\ IsGood(req'[c])
      BY <2>2, NextType, NextStepsAgree DEF StepsAgree
    <2>4. Size(c)' \in Int
      BY <2>3, GoodParams DEF Size
    <2>5. Skipped(c)' = 0
      BY <2>2, <2>4 DEF Skipped
    <2> QED
      BY <2>2, <2>5
  <1>3. CASE AskNext(c)
    <2>1. req' = req /\ Paged(c)
      BY <1>3 DEF AskNext, Paged
    <2> QED
      BY <1>3, <2>1 DEF Walking, AskNext
  <1>4. CASE Count(c)
    BY <1>4 DEF Count, Walking
  <1>5. CASE Select(c)
    BY <1>5 DEF Select, Walking, Paged
  <1>6. AskMine(c) \/ SelectMine(c) \/ StatementFails(c) => ~ Walking(c)'
    BY DEF AskMine, SelectMine, StatementFails, Walking, Paged, StepsAgree, MineRequest
  <1> QED
    BY <1>1, <1>2, <1>3, <1>4, <1>5, <1>6, WhoMoves DEF Moves

(* One page on is a page further. *)
LEMMA NextPage ==
  ASSUME IInv, NEW c \in Clients, AskNext(c)
  PROVE  /\ Paged(c) /\ Size(c) \in 1 .. MaxSize /\ Skipped(c) \in Nat
         /\ Len(got[c]) = Size(c)
         /\ Skipped(c)' = Skipped(c) + Size(c)
         /\ pc'[c] = "count" /\ got'[c] = << >>
         /\ UNCHANGED <<table, req, seen, known>>
  <1> USE DEF IInv, TypeOK
  <1>1. /\ Paged(c) /\ Len(got[c]) = Size(c) /\ page'[c] = page[c] + 1
        /\ pc'[c] = "count" /\ got'[c] = << >> /\ UNCHANGED <<table, req, seen, known>>
    BY DEF AskNext, Paged
  <1>2. IsGood(req[c])
    BY <1>1 DEF Paged, StepsAgree, MineRequest
  <1>3. Size(c) \in 1 .. MaxSize /\ Skipped(c) \in Nat
    BY <1>2, GoodRequest
  <1>4. page[c] \in Int
    BY PagesAssumption
  <1>5. Size(c)' = Size(c) /\ Size(c) \in Int
    BY <1>1, <1>3, PagesAssumption DEF Size
  <1>6. (page[c] + 1 - 1) * Size(c) = (page[c] - 1) * Size(c) + Size(c)
    BY <1>3, <1>4, <1>5
  <1>7. Skipped(c)' = Skipped(c) + Size(c)
    BY <1>1, <1>5, <1>6 DEF Skipped
  <1> QED
    BY <1>1, <1>3, <1>7

(* A walk comes to the largest int by steps of a page, so that the first    *)
(* offset beyond it is not twice beyond it.                                 *)
LEMMA NextStaysWithin ==
  ASSUME IInv, [Next]_vars
  PROVE  WalkStaysWithin'
  <1> SUFFICES ASSUME NEW c \in Clients, Walking(c)'
               PROVE  /\ Skipped(c)' <= MaxInt + MaxSize
                      /\ Paged(c)' => Skipped(c)' <= MaxInt
    BY DEF WalkStaysWithin
  <1>1. MaxInt \in Nat /\ MaxSize \in Nat
    BY PagesAssumption
  <1>2. Walking(c) => /\ Skipped(c) <= MaxInt + MaxSize
                      /\ Paged(c) => Skipped(c) <= MaxInt
    BY DEF IInv, WalkStaysWithin
  <1>3. CASE pc'[c] = "count" /\ Skipped(c)' = 0
    BY <1>1, <1>3 DEF Paged
  <1>4. CASE Walking(c) /\ Still(c)
    BY <1>2, <1>4 DEF Still, Paged, Skipped, Size
  <1>5. CASE Walking(c) /\ Count(c)
    <2>1. Skipped(c)' = Skipped(c) /\ ~ Paged(c)'
      BY <1>5 DEF Count, Skipped, Size, Paged, IInv, TypeOK
    <2> QED
      BY <1>2, <1>5, <2>1
  <1>6. CASE Walking(c) /\ AskNext(c)
    <2>1. /\ Paged(c) /\ Size(c) \in 1 .. MaxSize /\ Skipped(c) \in Nat
          /\ Skipped(c)' = Skipped(c) + Size(c) /\ ~ Paged(c)'
      BY <1>6, NextPage DEF Paged
    <2> QED
      BY <1>1, <1>2, <1>6, <2>1
  <1>7. CASE Walking(c) /\ Select(c) /\ resp'[c] = "OK"
    <2>1. Skipped(c)' = Skipped(c) /\ Skipped(c) \in Nat /\ Skipped(c) <= MaxInt
      BY <1>2, <1>7, SelectFacts DEF Skipped, Size
    <2> QED
      BY <1>1, <2>1
  <1> QED
    BY <1>3, <1>4, <1>5, <1>6, <1>7, WalkSteps

(* Rows are only ever pushed back. *)
LEMMA NextBehind ==
  ASSUME IInv, [Next]_vars
  PROVE  NothingIsBehind'
  <1> SUFFICES ASSUME NEW c \in Clients, Walking(c)',
                      NEW b \in known'[c] \ seen'[c], Alone(b)'
               PROVE  /\ Skipped(c)' + Len(got'[c]) <= Cardinality(Before(b)')
                      /\ Paged(c)' => Len(got'[c]) >= Size(c)'
    BY DEF NothingIsBehind
  <1> USE DEF IInv
  <1>1. IsFiniteSet(Stored) /\ known[c] \subseteq Stored
    BY DEF KnownIsStored
  <1>2. ASSUME b \in Stored
        PROVE  /\ Cardinality(Before(b)) \in Nat /\ Cardinality(Before(b)') \in Nat
               /\ Cardinality(Before(b)) <= Cardinality(Before(b)')
               /\ Alone(b)
    BY <1>1, <1>2, CountsGrow
  <1>3. ASSUME Walking(c), b \in known[c] \ seen[c]
        PROVE  /\ Skipped(c) + Len(got[c]) <= Cardinality(Before(b))
               /\ Paged(c) => Len(got[c]) >= Size(c)
    BY <1>1, <1>2, <1>3 DEF NothingIsBehind
  <1>4. CASE pc'[c] = "count" /\ got'[c] = << >> /\ Skipped(c)' = 0
    <2>1. IsFiniteSet(Stored') /\ Before(b)' \subseteq Stored'
      BY <1>1, CountsGrow DEF Before
    <2>2. Cardinality(Before(b)') \in Nat
      BY <2>1, FS_Subset, FS_CardinalityType
    <2>3. Len(got'[c]) = 0
      BY <1>4, EmptySeq
    <2> QED
      BY <1>4, <2>2, <2>3 DEF Paged
  <1>5. CASE Walking(c) /\ Still(c)
    <2>1. /\ Skipped(c)' = Skipped(c) /\ Size(c)' = Size(c) /\ got'[c] = got[c]
          /\ Paged(c)' = Paged(c) /\ b \in known[c] \ seen[c]
      BY <1>5 DEF Still, Paged, Skipped, Size
    <2>2. Skipped(c) \in Nat /\ Len(got[c]) \in Nat
      BY <1>5, GoodRequest, LenProperties
      DEF Walking, Paged, StepsAgree, MineRequest, TypeOK
    <2> QED
      BY <1>1, <1>2, <1>3, <1>5, <2>1, <2>2
  <1>6. CASE Walking(c) /\ Count(c)
    <2>1. /\ Skipped(c)' = Skipped(c) /\ got'[c] = got[c] /\ ~ Paged(c)'
          /\ b \in known[c] \ seen[c] /\ Before(b)' = Before(b)
      BY <1>6 DEF Count, Skipped, Size, Paged, TypeOK, Before, Stored, table
    <2> QED
      BY <1>3, <1>6, <2>1
  <1>7. CASE Walking(c) /\ AskNext(c)
    <2>1. /\ Skipped(c)' = Skipped(c) + Size(c) /\ Len(got[c]) = Size(c)
          /\ Skipped(c) \in Nat /\ Size(c) \in 1 .. MaxSize
          /\ got'[c] = << >> /\ ~ Paged(c)' /\ b \in known[c] \ seen[c]
          /\ UNCHANGED table
      BY <1>7, NextPage DEF Paged
    <2>2. Before(b)' = Before(b)
      BY <2>1 DEF Before, Stored, table
    <2>3. Len(got'[c]) = 0
      BY <2>1, EmptySeq
    <2> QED
      BY <1>3, <1>7, <2>1, <2>2, <2>3
  <1>8. CASE Walking(c) /\ Select(c) /\ resp'[c] = "OK"
    <2>1. /\ UNCHANGED <<table, req, page, known>>
          /\ Skipped(c) \in Nat
          /\ Skipped(c) <= MaxInt => Offset(c) = Skipped(c)
          /\ Skipped(c) <= MaxInt + MaxSize => Skipped(c) <= MaxInt
          /\ Size(c) \in 1 .. MaxSize
      BY <1>8, SelectFacts
    <2>2. Offset(c) = Skipped(c)
      BY <1>8, <2>1 DEF WalkStaysWithin
    <2>3. b \in known[c] \ seen[c] /\ b \in Stored /\ Alone(b) /\ got[c] = << >>
      BY <1>1, <1>2, <1>8, <2>1 DEF Select, StepsAgree, TypeOK
    <2>4. Offset(c) <= Cardinality(Before(b))
      <3>1. Len(got[c]) = 0
        BY <2>3, EmptySeq
      <3> QED
        BY <1>3, <1>8, <2>1, <2>2, <2>3, <3>1
    <2>5. Len(got'[c]) = Size(c) /\ Offset(c) + Size(c) <= Cardinality(Before(b))
      BY <1>8, <2>3, <2>4, SelectFacts
    <2>6. Skipped(c)' = Skipped(c) /\ Size(c)' = Size(c) /\ Before(b)' = Before(b)
      BY <2>1 DEF Skipped, Size, Before, Stored, table
    <2> QED
      BY <2>1, <2>2, <2>5, <2>6
  <1> QED
    BY <1>4, <1>5, <1>6, <1>7, <1>8, WalkSteps

-----------------------------------------------------------------------------
(* Every step keeps IInv. *)
LEMMA NextIInv == IInv /\ [Next]_vars => IInv'
  BY NextType, NextStepsAgree, NextKnown, NextFills, NextOffsetsFit, NextMine,
     NextStaysWithin, NextBehind DEF IInv

(* The invariant of the readers and writers of bookings. *)
THEOREM Inductive == Spec => []IInv
  BY InitIInv, NextIInv, PTL DEF Spec

(* Every variable has its type. *)
THEOREM TypeCorrect == Spec => []TypeOK
  <1>1. IInv => TypeOK
    BY DEF IInv
  <1> QED
    BY <1>1, Inductive, PTL

(* A page is as long as the total beside it and the size asked for make it, *)
(* whatever commits between the two statements of ListAllBookings.          *)
THEOREM PagesFillTheirTotal == Spec => []PageFillsTotal
  <1>1. IInv => PageFillsTotal
    BY DEF IInv
  <1> QED
    BY <1>1, Inductive, PTL

(* An offset is refused, or a page past the end has rows in it, only where  *)
(* (page-1)*pageSize is beyond an int.                                      *)
THEOREM OnlyOverflowGoesWrong == Spec => []WrongOnlyByOverflow
  <1>1. IInv => WrongOnlyByOverflow
    <2> SUFFICES ASSUME IInv, NEW c \in Clients,
                        \/ resp[c] = "NEGATIVE_OFFSET"
                        \/ Paged(c) /\ got[c] # << >> /\ Skipped(c) >= Cardinality(Stored)
                 PROVE  Skipped(c) > MaxInt
      BY DEF WrongOnlyByOverflow
    <2>1. CASE resp[c] = "NEGATIVE_OFFSET"
      BY <2>1 DEF IInv, OffsetsFit
    <2>2. CASE Paged(c) /\ got[c] # << >> /\ Skipped(c) >= Cardinality(Stored)
      <3>1. Skipped(c) \in Nat /\ Cardinality(Stored) \in Nat /\ MaxInt \in Nat
        BY <2>2, GoodRequest, FS_CardinalityType, PagesAssumption
        DEF IInv, KnownIsStored, Paged, StepsAgree, MineRequest
      <3> QED
        BY <2>2, <3>1 DEF IInv, OffsetsFit
    <2> QED
      BY <2>1, <2>2
  <1> QED
    BY <1>1, Inductive, PTL

(* A user is told of all of its bookings to come, and of no other. *)
THEOREM MineAreWhole == Spec => []MineIsWhole
  <1>1. IInv => MineIsWhole
    BY DEF IInv
  <1> QED
    BY <1>1, Inductive, PTL

(* A walk from the first page to one that is short has come upon every row  *)
(* that was there when it began and shares its time with no other.          *)
THEOREM WalksSkipNothing == Spec => []WalkSkipsNothing
  <1>1. IInv => WalkSkipsNothing
    <2> SUFFICES ASSUME IInv, NEW c \in Clients,
                        Paged(c), Parsed(req[c].page, 1) = 1, Len(got[c]) < Size(c),
                        NEW b \in known[c], Alone(b), b \notin seen[c]
                 PROVE  FALSE
      BY DEF WalkSkipsNothing
    <2>1. Len(got[c]) >= Size(c)
      BY DEF IInv, NothingIsBehind, Walking
    <2>2. Len(got[c]) \in Nat /\ Size(c) \in 1 .. MaxSize
      BY GoodRequest, LenProperties DEF IInv, TypeOK, Paged, StepsAgree, MineRequest
    <2> QED
      BY <2>1, <2>2
  <1> QED
    BY <1>1, Inductive, PTL
=============================================================================
