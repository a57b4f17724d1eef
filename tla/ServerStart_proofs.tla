-------------------------- MODULE ServerStart_proofs --------------------------
(***************************************************************************)
(* Theorems about ServerStart, for any number of servers, tables and       *)
(* accounts, and any stops and writes.                                     *)
(***************************************************************************)
EXTENDS ServerStart, SequenceTheorems, TLAPS

Ops ==
    {"find_table", "create_table", "drop_check", "add_check", "drop_trigger", "create_trigger",
     "fill_column", "find_account", "create_account"}

Stmt(op, of) == [op |-> op, of |-> of]

Stmts == [op : Ops, of : Tables \cup {"users"} \cup Accounts]

-----------------------------------------------------------------------------
(* The script, statement by statement. *)

LEMMA PairIndex ==
    ASSUME NEW n \in Nat, NEW i \in 1 .. 2 * n
    PROVE  /\ (i + 1) \div 2 \in 1 .. n
           /\ i % 2 = 1 => i = 2 * ((i + 1) \div 2) - 1
           /\ i % 2 # 1 => i = 2 * ((i + 1) \div 2)
  OBVIOUS

LEMMA PairPlace ==
    ASSUME NEW n \in Nat, NEW j \in 1 .. n
    PROVE  /\ 2 * j - 1 \in 1 .. 2 * n /\ (2 * j - 1) % 2 = 1 /\ (2 * j - 1 + 1) \div 2 = j
           /\ 2 * j \in 1 .. 2 * n /\ (2 * j) % 2 # 1 /\ (2 * j + 1) \div 2 = j
  OBVIOUS

LEMMA FunctionIsSeq ==
    ASSUME NEW U, NEW m \in Nat, NEW f \in [1 .. m -> U]
    PROVE  f \in Seq(U) /\ Len(f) = m
  OBVIOUS

\* Two statements for each name, each next to the other.
Pairs(pairs, first, second, names, S) ==
    /\ pairs \in Seq(Stmts)
    /\ Len(pairs) = 2 * Len(names)
    /\ \A i \in 1 .. Len(pairs) :
          /\ pairs[i].of \in S
          /\ \/ /\ pairs[i].op = first
                /\ i + 1 \in 1 .. Len(pairs)
                /\ pairs[i + 1] = Stmt(second, pairs[i].of)
             \/ /\ pairs[i].op = second
                /\ i - 1 \in 1 .. Len(pairs)
                /\ pairs[i - 1] = Stmt(first, pairs[i].of)
    /\ \A j \in 1 .. Len(names) :
          \E i \in 1 .. Len(pairs) : pairs[i] = Stmt(second, names[j])

LEMMA ForEachPairs ==
    ASSUME NEW S, NEW first \in Ops, NEW second \in Ops, NEW names \in Seq(S),
           S \subseteq Tables \cup {"users"} \cup Accounts,
           NEW pairs, pairs = ForEach(first, second, names)
    PROVE  Pairs(pairs, first, second, names, S)
  <1> DEFINE n == Len(names)
  <1>1. n \in Nat /\ \A j \in 1 .. n : names[j] \in S
    BY LenProperties, ElementOfSeq
  <1>2. 2 * n \in Nat
    BY <1>1
  <1>3. ASSUME NEW i \in 1 .. 2 * n
        PROVE  /\ pairs[i].of = names[(i + 1) \div 2] /\ pairs[i].of \in S
               /\ pairs[i].op = IF i % 2 = 1 THEN first ELSE second
               /\ pairs[i] = Stmt(pairs[i].op, pairs[i].of)
    <2>1. (i + 1) \div 2 \in 1 .. n
      BY <1>1, PairIndex
    <2>2. pairs[i] = [op |-> IF i % 2 = 1 THEN first ELSE second, of |-> names[(i + 1) \div 2]]
      BY DEF ForEach
    <2>3. QED
      BY <1>1, <2>1, <2>2 DEF Stmt
  <1>4. pairs \in Seq(Stmts) /\ Len(pairs) = 2 * n
    <2>1. \A i \in 1 .. 2 * n :
             [op |-> IF i % 2 = 1 THEN first ELSE second, of |-> names[(i + 1) \div 2]]
               \in Stmts
      BY <1>1, PairIndex DEF Stmts
    <2>2. pairs \in [1 .. 2 * n -> Stmts]
      BY <2>1 DEF ForEach
    <2>3. QED
      BY <1>2, <2>2, FunctionIsSeq
  <1>5. ASSUME NEW i \in 1 .. 2 * n
        PROVE  \/ /\ pairs[i].op = first
                  /\ i + 1 \in 1 .. 2 * n
                  /\ pairs[i + 1] = Stmt(second, pairs[i].of)
               \/ /\ pairs[i].op = second
                  /\ i - 1 \in 1 .. 2 * n
                  /\ pairs[i - 1] = Stmt(first, pairs[i].of)
    <2>1. PICK j \in 1 .. n : j = (i + 1) \div 2
      BY <1>1, PairIndex
    <2>2. CASE i % 2 = 1
      <3>1. i = 2 * j - 1 /\ i + 1 = 2 * j
        BY <1>1, <2>1, <2>2, PairIndex
      <3>2. i + 1 \in 1 .. 2 * n /\ (i + 1) % 2 # 1 /\ ((i + 1) + 1) \div 2 = j
        BY <1>1, <3>1, PairPlace
      <3>3. pairs[i].op = first /\ pairs[i].of = names[j]
        BY <1>3, <2>1, <2>2
      <3>4. pairs[i + 1] = Stmt(second, names[j])
        BY <1>3, <3>2
      <3>5. QED
        BY <3>2, <3>3, <3>4
    <2>3. CASE i % 2 # 1
      <3>1. i = 2 * j /\ i - 1 = 2 * j - 1
        BY <1>1, <2>1, <2>3, PairIndex
      <3>2. i - 1 \in 1 .. 2 * n /\ (i - 1) % 2 = 1 /\ ((i - 1) + 1) \div 2 = j
        BY <1>1, <3>1, PairPlace
      <3>3. pairs[i].op = second /\ pairs[i].of = names[j]
        BY <1>3, <2>1, <2>3
      <3>4. pairs[i - 1] = Stmt(first, names[j])
        BY <1>3, <3>2
      <3>5. QED
        BY <3>2, <3>3, <3>4
    <2>4. QED
      BY <2>2, <2>3
  <1>6. ASSUME NEW j \in 1 .. n
        PROVE  \E i \in 1 .. 2 * n : pairs[i] = Stmt(second, names[j])
    <2>1. 2 * j \in 1 .. 2 * n /\ (2 * j) % 2 # 1 /\ (2 * j + 1) \div 2 = j
      BY <1>1, PairPlace
    <2>2. pairs[2 * j] = Stmt(second, names[j])
      BY <1>3, <2>1
    <2>3. QED
      BY <2>1, <2>2
  <1>7. QED
    BY <1>3, <1>4, <1>5, <1>6 DEF Pairs

\* What precedes or follows a statement of a sequence.
Ordered(s, k) ==
    /\ s[k].op = "find_table" => s[k].of \in Tables \cup {"users"}
    /\ s[k].op = "create_table" =>
          /\ s[k].of \in Tables \cup {"users"}
          /\ k - 1 \in 1 .. Len(s) /\ s[k - 1] = Stmt("find_table", s[k].of)
    /\ s[k].op = "drop_check" => k + 1 \in 1 .. Len(s) /\ s[k + 1] = Stmt("add_check", "users")
    /\ s[k].op \in {"drop_check", "add_check"} => s[k].of = "users"
    /\ s[k].op = "drop_trigger" =>
          /\ s[k].of \in Tables
          /\ k + 1 \in 1 .. Len(s) /\ s[k + 1] = Stmt("create_trigger", s[k].of)
    /\ s[k].op \in {"create_trigger", "fill_column"} => s[k].of \in Tables
    /\ s[k].op = "find_account" => s[k].of \in Accounts
    /\ s[k].op = "create_account" =>
          /\ s[k].of \in Accounts
          /\ k - 1 \in 1 .. Len(s) /\ s[k - 1] = Stmt("find_account", s[k].of)

\* A sequence found in another one from an offset on.
Within(p, s, off) ==
    \A i \in 1 .. Len(p) : off + i \in 1 .. Len(s) /\ s[off + i] = p[i]

LEMMA OrderedWithin ==
    ASSUME NEW p, NEW s, NEW off \in Nat, Len(p) \in Nat, Within(p, s, off),
           NEW i \in 1 .. Len(p), Ordered(p, i)
    PROVE  Ordered(s, off + i)
  <1>1. s[off + i] = p[i]
    BY DEF Within
  <1>2. ASSUME i + 1 \in 1 .. Len(p)
        PROVE  (off + i) + 1 \in 1 .. Len(s) /\ s[(off + i) + 1] = p[i + 1]
    <2>1. off + (i + 1) \in 1 .. Len(s) /\ s[off + (i + 1)] = p[i + 1]
      BY <1>2 DEF Within
    <2>2. off + (i + 1) = (off + i) + 1
      OBVIOUS
    <2>3. QED
      BY <2>1, <2>2
  <1>3. ASSUME i - 1 \in 1 .. Len(p)
        PROVE  (off + i) - 1 \in 1 .. Len(s) /\ s[(off + i) - 1] = p[i - 1]
    <2>1. off + (i - 1) \in 1 .. Len(s) /\ s[off + (i - 1)] = p[i - 1]
      BY <1>3 DEF Within
    <2>2. off + (i - 1) = (off + i) - 1
      OBVIOUS
    <2>3. QED
      BY <2>1, <2>2
  <1>4. QED
    BY <1>1, <1>2, <1>3 DEF Ordered

LEMMA TwoParts ==
    ASSUME NEW U, NEW p \in Seq(U), NEW q \in Seq(U)
    PROVE  /\ p \o q \in Seq(U) /\ Len(p \o q) = Len(p) + Len(q)
           /\ Len(p) \in Nat /\ Len(q) \in Nat
           /\ Within(p, p \o q, 0) /\ Within(q, p \o q, Len(p))
           /\ \A k \in 1 .. Len(p \o q) : k \in 1 .. Len(p) \/ k - Len(p) \in 1 .. Len(q)
  <1>1. p \o q \in Seq(U) /\ Len(p \o q) = Len(p) + Len(q) /\ Len(p) \in Nat /\ Len(q) \in Nat
    BY ConcatProperties
  <1>2. \A i \in 1 .. Len(p) + Len(q) :
           (p \o q)[i] = IF i <= Len(p) THEN p[i] ELSE q[i - Len(p)]
    BY ConcatProperties
  <1>3. Within(p, p \o q, 0)
    BY <1>1, <1>2 DEF Within
  <1>4. Within(q, p \o q, Len(p))
    <2> SUFFICES ASSUME NEW i \in 1 .. Len(q)
                 PROVE  Len(p) + i \in 1 .. Len(p \o q) /\ (p \o q)[Len(p) + i] = q[i]
      BY DEF Within
    <2>1. Len(p) + i \in 1 .. Len(p) + Len(q) /\ ~(Len(p) + i <= Len(p)) /\ (Len(p) + i) - Len(p) = i
      BY <1>1
    <2>2. QED
      BY <1>1, <1>2, <2>1
  <1>5. QED
    BY <1>1, <1>3, <1>4

LEMMA WithinTransitive ==
    ASSUME NEW p, NEW q, NEW s, NEW off \in Nat, NEW shift \in Nat, Len(p) \in Nat, Len(q) \in Nat,
           Within(p, q, off), Within(q, s, shift)
    PROVE  Within(p, s, shift + off)
  <1> SUFFICES ASSUME NEW i \in 1 .. Len(p)
               PROVE  (shift + off) + i \in 1 .. Len(s) /\ s[(shift + off) + i] = p[i]
    BY DEF Within
  <1>1. off + i \in 1 .. Len(q) /\ q[off + i] = p[i]
    BY DEF Within
  <1>2. shift + (off + i) \in 1 .. Len(s) /\ s[shift + (off + i)] = q[off + i]
    BY <1>1 DEF Within
  <1>3. shift + (off + i) = (shift + off) + i
    OBVIOUS
  <1>4. QED
    BY <1>1, <1>2, <1>3

(* A sequence of statements each of which is in order, and one put behind another. *)
InOrder(s) == s \in Seq(Stmts) /\ \A k \in 1 .. Len(s) : Ordered(s, k)

LEMMA ConcatInOrder ==
    ASSUME NEW p, NEW q, InOrder(p), InOrder(q)
    PROVE  /\ InOrder(p \o q)
           /\ Len(p) \in Nat /\ Len(q) \in Nat /\ Len(p \o q) = Len(p) + Len(q)
           /\ Within(p, p \o q, 0) /\ Within(q, p \o q, Len(p))
  <1>1. p \in Seq(Stmts) /\ q \in Seq(Stmts)
    BY DEF InOrder
  <1>2. /\ p \o q \in Seq(Stmts) /\ Len(p \o q) = Len(p) + Len(q)
        /\ Len(p) \in Nat /\ Len(q) \in Nat
        /\ Within(p, p \o q, 0) /\ Within(q, p \o q, Len(p))
        /\ \A k \in 1 .. Len(p \o q) : k \in 1 .. Len(p) \/ k - Len(p) \in 1 .. Len(q)
    BY <1>1, TwoParts
  <1>3. ASSUME NEW k \in 1 .. Len(p \o q)
        PROVE  Ordered(p \o q, k)
    <2>1. CASE k \in 1 .. Len(p)
      <3>1. Ordered(p, k)
        BY <2>1 DEF InOrder
      <3>2. Ordered(p \o q, 0 + k)
        BY <1>2, <2>1, <3>1, OrderedWithin
      <3>3. QED
        BY <2>1, <3>2
    <2>2. CASE k - Len(p) \in 1 .. Len(q)
      <3>1. PICK i \in 1 .. Len(q) : i = k - Len(p)
        BY <2>2
      <3>2. Ordered(q, i)
        BY DEF InOrder
      <3>3. Ordered(p \o q, Len(p) + i)
        BY <1>2, <3>2, OrderedWithin
      <3>4. Len(p) + i = k
        BY <1>2, <3>1
      <3>5. QED
        BY <3>3, <3>4
    <2>3. QED
      BY <1>2, <2>1, <2>2
  <1>4. QED
    BY <1>2, <1>3 DEF InOrder

LEMMA OrderNames ==
    /\ TableOrder \in Seq(Tables) /\ AccountOrder \in Seq(Accounts)
    /\ <<"users">> \o TableOrder \in Seq(Tables \cup {"users"})
    /\ \A t \in Tables : \E j \in 1 .. Len(TableOrder) : TableOrder[j] = t
    /\ \A u \in Accounts : \E j \in 1 .. Len(AccountOrder) : AccountOrder[j] = u
    /\ \A t \in Tables \cup {"users"} :
          \E j \in 1 .. Len(<<"users">> \o TableOrder) : (<<"users">> \o TableOrder)[j] = t
  <1> DEFINE users == <<"users">>
             everyTable == Tables \cup {"users"}
  <1>1. TableOrder \in Seq(Tables) /\ AccountOrder \in Seq(Accounts)
    BY StartAssumption
  <1>2. \A t \in Tables : \E j \in 1 .. Len(TableOrder) : TableOrder[j] = t
    BY <1>1, LenProperties DEF Tables
  <1>3. \A u \in Accounts : \E j \in 1 .. Len(AccountOrder) : AccountOrder[j] = u
    BY <1>1, LenProperties DEF Accounts
  <1>4. users \in Seq(everyTable) /\ Len(users) = 1 /\ users[1] = "users"
    OBVIOUS
  <1>5. TableOrder \in Seq(everyTable)
    <2>1. Tables \subseteq everyTable
      OBVIOUS
    <2>2. QED
      BY <1>1, <2>1, LenProperties, ElementOfSeq
  <1> HIDE DEF users
  <1>6. /\ users \o TableOrder \in Seq(everyTable)
        /\ Within(users, users \o TableOrder, 0) /\ Within(TableOrder, users \o TableOrder, Len(users))
    BY <1>4, <1>5, TwoParts
  <1>7. \A t \in everyTable :
           \E j \in 1 .. Len(users \o TableOrder) : (users \o TableOrder)[j] = t
    <2> SUFFICES ASSUME NEW t \in everyTable
                 PROVE  \E j \in 1 .. Len(users \o TableOrder) : (users \o TableOrder)[j] = t
      OBVIOUS
    <2>1. CASE t = "users"
      <3>1. 0 + 1 \in 1 .. Len(users \o TableOrder) /\ (users \o TableOrder)[0 + 1] = users[1]
        BY <1>4, <1>6 DEF Within
      <3>2. QED
        BY <1>4, <2>1, <3>1
    <2>2. CASE t \in Tables
      <3>1. PICK j \in 1 .. Len(TableOrder) : TableOrder[j] = t
        BY <1>2, <2>2
      <3>2. /\ Len(users) + j \in 1 .. Len(users \o TableOrder)
            /\ (users \o TableOrder)[Len(users) + j] = t
        BY <1>6, <3>1 DEF Within
      <3>3. QED
        BY <3>2
    <2>3. QED
      BY <2>1, <2>2
  <1>8. QED
    BY <1>1, <1>2, <1>3, <1>6, <1>7 DEF users

LEMMA CreatingTablesFacts ==
    /\ InOrder(CreatingTables) /\ 1 \in 1 .. Len(CreatingTables)
    /\ \A t \in Tables \cup {"users"} :
          \E k \in 1 .. Len(CreatingTables) : CreatingTables[k] = Stmt("create_table", t)
  <1> DEFINE names == <<"users">> \o TableOrder
             all == Tables \cup {"users"} \cup Accounts
  <1>1. /\ "find_table" \in Ops /\ "create_table" \in Ops /\ "find_table" # "create_table"
        /\ Tables \cup {"users"} \subseteq all
    BY DEF Ops
  <1>2. names \in Seq(Tables \cup {"users"})
    BY OrderNames
  <1>3. \A t \in Tables \cup {"users"} : \E j \in 1 .. Len(names) : names[j] = t
    BY OrderNames
  <1>4. CreatingTables = ForEach("find_table", "create_table", names)
    BY DEF CreatingTables
  <1> HIDE DEF names
  <1>5. /\ CreatingTables \in Seq(Stmts)
        /\ \A i \in 1 .. Len(CreatingTables) :
              /\ CreatingTables[i].of \in Tables \cup {"users"}
              /\ \/ CreatingTables[i].op = "find_table"
                 \/ /\ CreatingTables[i].op = "create_table"
                    /\ i - 1 \in 1 .. Len(CreatingTables)
                    /\ CreatingTables[i - 1] = Stmt("find_table", CreatingTables[i].of)
        /\ \A j \in 1 .. Len(names) :
              \E i \in 1 .. Len(CreatingTables) : CreatingTables[i] = Stmt("create_table", names[j])
    <2>1. Pairs(CreatingTables, "find_table", "create_table", names, Tables \cup {"users"})
      BY <1>1, <1>2, <1>4, ForEachPairs
    <2>2. QED
      BY <2>1, <1>1 DEF Pairs
  <1>6. \A k \in 1 .. Len(CreatingTables) : Ordered(CreatingTables, k)
    BY <1>5 DEF Ordered
  <1>7. ASSUME NEW t \in Tables \cup {"users"}
        PROVE  \E k \in 1 .. Len(CreatingTables) : CreatingTables[k] = Stmt("create_table", t)
    <2>1. PICK j \in 1 .. Len(names) : names[j] = t
      BY <1>3
    <2>2. PICK k \in 1 .. Len(CreatingTables) : CreatingTables[k] = Stmt("create_table", names[j])
      BY <1>5
    <2>3. QED
      BY <2>1, <2>2
  <1>8. 1 \in 1 .. Len(CreatingTables)
    <2>1. PICK k \in 1 .. Len(CreatingTables) : CreatingTables[k] = Stmt("create_table", "users")
      BY <1>7
    <2>2. Len(CreatingTables) \in Nat
      BY <1>5, LenProperties
    <2>3. QED
      BY <2>1, <2>2
  <1>9. QED
    BY <1>5, <1>6, <1>7, <1>8 DEF InOrder

LEMMA CheckingRolesFacts ==
    /\ InOrder(CheckingRoles) /\ Len(CheckingRoles) = 2
    /\ CheckingRoles[1] = Stmt("drop_check", "users")
    /\ CheckingRoles[2] = Stmt("add_check", "users")
  <1>1. CheckingRoles = <<Stmt("drop_check", "users"), Stmt("add_check", "users")>>
    BY DEF CheckingRoles, Stmt
  <1>2. Stmt("drop_check", "users") \in Stmts /\ Stmt("add_check", "users") \in Stmts
    BY DEF Stmt, Stmts, Ops
  <1>3. /\ CheckingRoles \in Seq(Stmts) /\ Len(CheckingRoles) = 2
        /\ CheckingRoles[1] = Stmt("drop_check", "users")
        /\ CheckingRoles[2] = Stmt("add_check", "users")
    BY <1>1, <1>2
  <1>4. Ordered(CheckingRoles, 1) /\ Ordered(CheckingRoles, 2)
    BY <1>3 DEF Ordered, Stmt
  <1>5. \A k \in 1 .. Len(CheckingRoles) : k = 1 \/ k = 2
    BY <1>3
  <1>6. QED
    BY <1>3, <1>4, <1>5 DEF InOrder

LEMMA InstallingTriggersFacts ==
    /\ InOrder(InstallingTriggers)
    /\ \A t \in Tables :
          \E k \in 1 .. Len(InstallingTriggers) : InstallingTriggers[k] = Stmt("create_trigger", t)
  <1> DEFINE all == Tables \cup {"users"} \cup Accounts
  <1>1. /\ "drop_trigger" \in Ops /\ "create_trigger" \in Ops /\ "drop_trigger" # "create_trigger"
        /\ Tables \subseteq all
    BY DEF Ops
  <1>2. /\ TableOrder \in Seq(Tables)
        /\ \A t \in Tables : \E j \in 1 .. Len(TableOrder) : TableOrder[j] = t
    BY OrderNames
  <1>3. InstallingTriggers = ForEach("drop_trigger", "create_trigger", TableOrder)
    BY DEF InstallingTriggers
  <1>4. /\ InstallingTriggers \in Seq(Stmts)
        /\ \A i \in 1 .. Len(InstallingTriggers) :
              /\ InstallingTriggers[i].of \in Tables
              /\ \/ InstallingTriggers[i].op = "create_trigger"
                 \/ /\ InstallingTriggers[i].op = "drop_trigger"
                    /\ i + 1 \in 1 .. Len(InstallingTriggers)
                    /\ InstallingTriggers[i + 1] = Stmt("create_trigger", InstallingTriggers[i].of)
        /\ \A j \in 1 .. Len(TableOrder) :
              \E i \in 1 .. Len(InstallingTriggers) :
                 InstallingTriggers[i] = Stmt("create_trigger", TableOrder[j])
    <2>1. Pairs(InstallingTriggers, "drop_trigger", "create_trigger", TableOrder, Tables)
      BY <1>1, <1>2, <1>3, ForEachPairs
    <2>2. QED
      BY <2>1, <1>1 DEF Pairs
  <1>5. \A k \in 1 .. Len(InstallingTriggers) : Ordered(InstallingTriggers, k)
    BY <1>4 DEF Ordered
  <1>6. QED
    BY <1>2, <1>4, <1>5 DEF InOrder

LEMMA FillingColumnsFacts ==
    /\ InOrder(FillingColumns)
    /\ \A k \in 1 .. Len(FillingColumns) : FillingColumns[k].op = "fill_column"
    /\ \A t \in Tables :
          \E k \in 1 .. Len(FillingColumns) : FillingColumns[k] = Stmt("fill_column", t)
  <1> DEFINE n == Len(TableOrder)
  <1>1. /\ n \in Nat /\ \A j \in 1 .. n : TableOrder[j] \in Tables
        /\ \A t \in Tables : \E j \in 1 .. n : TableOrder[j] = t
    BY OrderNames, LenProperties, ElementOfSeq
  <1>2. \A j \in 1 .. n : [op |-> "fill_column", of |-> TableOrder[j]] \in Stmts
    BY <1>1 DEF Stmts, Ops
  <1>3. FillingColumns \in [1 .. n -> Stmts]
    BY <1>2 DEF FillingColumns
  <1>4. FillingColumns \in Seq(Stmts) /\ Len(FillingColumns) = n
    BY <1>1, <1>3, FunctionIsSeq
  <1>5. \A j \in 1 .. n :
           /\ FillingColumns[j] = Stmt("fill_column", TableOrder[j])
           /\ FillingColumns[j].op = "fill_column" /\ FillingColumns[j].of = TableOrder[j]
    BY DEF FillingColumns, Stmt
  <1>6. \A k \in 1 .. n : Ordered(FillingColumns, k)
    BY <1>1, <1>5 DEF Ordered
  <1>7. QED
    BY <1>1, <1>4, <1>5, <1>6 DEF InOrder

LEMMA SeedingFacts ==
    /\ InOrder(Seeding)
    /\ \A k \in 1 .. Len(Seeding) : Seeding[k].op \in {"find_account", "create_account"}
    /\ \A u \in Accounts : \E k \in 1 .. Len(Seeding) : Seeding[k] = Stmt("create_account", u)
  <1> DEFINE all == Tables \cup {"users"} \cup Accounts
  <1>1. /\ "find_account" \in Ops /\ "create_account" \in Ops /\ "find_account" # "create_account"
        /\ Accounts \subseteq all
    BY DEF Ops
  <1>2. /\ AccountOrder \in Seq(Accounts)
        /\ \A u \in Accounts : \E j \in 1 .. Len(AccountOrder) : AccountOrder[j] = u
    BY OrderNames
  <1>3. Seeding = ForEach("find_account", "create_account", AccountOrder)
    BY DEF Seeding
  <1>4. /\ Seeding \in Seq(Stmts)
        /\ \A i \in 1 .. Len(Seeding) :
              /\ Seeding[i].of \in Accounts
              /\ \/ Seeding[i].op = "find_account"
                 \/ /\ Seeding[i].op = "create_account"
                    /\ i - 1 \in 1 .. Len(Seeding)
                    /\ Seeding[i - 1] = Stmt("find_account", Seeding[i].of)
        /\ \A j \in 1 .. Len(AccountOrder) :
              \E i \in 1 .. Len(Seeding) : Seeding[i] = Stmt("create_account", AccountOrder[j])
    <2>1. Pairs(Seeding, "find_account", "create_account", AccountOrder, Accounts)
      BY <1>1, <1>2, <1>3, ForEachPairs
    <2>2. QED
      BY <2>1, <1>1 DEF Pairs
  <1>5. \A k \in 1 .. Len(Seeding) : Ordered(Seeding, k)
    BY <1>4 DEF Ordered
  <1>6. QED
    BY <1>2, <1>4, <1>5 DEF InOrder

\* What the script does, and in which order: every trigger is installed before its
\* column is filled.
Contains(stmt) == \E k \in 1 .. Len(Script) : Script[k] = stmt

LEMMA WithinContains ==
    ASSUME NEW p, NEW off \in Nat, Within(p, Script, off), NEW i \in 1 .. Len(p)
    PROVE  Contains(p[i])
  BY DEF Within, Contains

LEMMA ScriptFacts ==
    /\ InOrder(Script) /\ Len(Script) \in Nat \ {0}
    /\ \A t \in Tables \cup {"users"} : Contains(Stmt("create_table", t))
    /\ Contains(Stmt("drop_check", "users")) /\ Contains(Stmt("add_check", "users"))
    /\ \A t \in Tables : Contains(Stmt("create_trigger", t)) /\ Contains(Stmt("fill_column", t))
    /\ \A u \in Accounts : Contains(Stmt("create_account", u))
    /\ \A t \in Tables, k \in 1 .. Len(Script) :
          Script[k] = Stmt("create_trigger", t) =>
             \E i \in 1 .. Len(Script) : k < i /\ Script[i] = Stmt("fill_column", t)
  <1> DEFINE two == CreatingTables \o CheckingRoles
             three == two \o InstallingTriggers
             four == three \o FillingColumns
  <1>0. Script = four \o Seeding
    BY DEF Script
  <1>1. /\ InOrder(two) /\ Within(CreatingTables, two, 0)
        /\ Within(CheckingRoles, two, Len(CreatingTables))
        /\ Len(CreatingTables) \in Nat /\ Len(CheckingRoles) \in Nat
        /\ Len(two) = Len(CreatingTables) + Len(CheckingRoles)
    BY CreatingTablesFacts, CheckingRolesFacts, ConcatInOrder
  <1> HIDE DEF two
  <1>2. /\ InOrder(three) /\ Within(two, three, 0) /\ Within(InstallingTriggers, three, Len(two))
        /\ Len(two) \in Nat /\ Len(InstallingTriggers) \in Nat
        /\ Len(three) = Len(two) + Len(InstallingTriggers)
    BY <1>1, InstallingTriggersFacts, ConcatInOrder
  <1> HIDE DEF three
  <1>3. /\ InOrder(four) /\ Within(three, four, 0) /\ Within(FillingColumns, four, Len(three))
        /\ Len(three) \in Nat /\ Len(FillingColumns) \in Nat
        /\ Len(four) = Len(three) + Len(FillingColumns)
    BY <1>2, FillingColumnsFacts, ConcatInOrder
  <1> HIDE DEF four
  <1>4. /\ InOrder(Script) /\ Within(four, Script, 0) /\ Within(Seeding, Script, Len(four))
        /\ Len(four) \in Nat /\ Len(Seeding) \in Nat
        /\ Len(Script) = Len(four) + Len(Seeding)
    BY <1>0, <1>3, SeedingFacts, ConcatInOrder
  <1>5. Within(three, Script, 0 + 0) /\ Within(FillingColumns, Script, 0 + Len(three))
    BY <1>3, <1>4, WithinTransitive
  <1>6. Within(two, Script, 0) /\ Within(InstallingTriggers, Script, 0 + Len(two))
    <2>1. Within(three, Script, 0)
      BY <1>5
    <2>2. Within(two, Script, 0 + 0) /\ Within(InstallingTriggers, Script, 0 + Len(two))
      BY <1>2, <1>3, <2>1, WithinTransitive
    <2>3. QED
      BY <2>2
  <1>7. Within(CreatingTables, Script, 0 + 0) /\ Within(CheckingRoles, Script, 0 + Len(CreatingTables))
    BY <1>1, <1>2, <1>6, WithinTransitive
  <1>8. \A t \in Tables \cup {"users"} : Contains(Stmt("create_table", t))
    BY <1>7, CreatingTablesFacts, WithinContains
  <1>9. Contains(Stmt("drop_check", "users")) /\ Contains(Stmt("add_check", "users"))
    <2>1. 1 \in 1 .. Len(CheckingRoles) /\ 2 \in 1 .. Len(CheckingRoles)
      BY CheckingRolesFacts
    <2>2. 0 + Len(CreatingTables) \in Nat
      BY <1>1
    <2>3. Contains(CheckingRoles[1]) /\ Contains(CheckingRoles[2])
      BY <1>7, <2>1, <2>2, WithinContains
    <2>4. QED
      BY <2>3, CheckingRolesFacts
  <1>10. \A t \in Tables : Contains(Stmt("create_trigger", t))
    BY <1>2, <1>6, InstallingTriggersFacts, WithinContains
  <1>11. \A t \in Tables : Contains(Stmt("fill_column", t))
    BY <1>3, <1>5, FillingColumnsFacts, WithinContains
  <1>12. \A u \in Accounts : Contains(Stmt("create_account", u))
    BY <1>4, SeedingFacts, WithinContains
  <1>13. ASSUME NEW t \in Tables, NEW k \in 1 .. Len(Script), Script[k] = Stmt("create_trigger", t)
         PROVE  \E i \in 1 .. Len(Script) : k < i /\ Script[i] = Stmt("fill_column", t)
    <2>1. Script[k].op = "create_trigger"
      BY <1>13 DEF Stmt
    <2>2. k <= Len(three)
      <3> SUFFICES ASSUME ~(k <= Len(three))
                   PROVE  FALSE
        OBVIOUS
      <3>1. CASE k <= Len(four)
        <4>0. k - Len(three) \in 1 .. Len(FillingColumns)
          BY <1>3, <1>4, <3>1
        <4>1. PICK i \in 1 .. Len(FillingColumns) : i = k - Len(three)
          BY <4>0
        <4>2. Script[0 + Len(three) + i].op = "fill_column"
          BY <1>5, <4>1, FillingColumnsFacts DEF Within
        <4>3. 0 + Len(three) + i = k
          BY <1>3, <4>1
        <4>4. QED
          BY <2>1, <4>2, <4>3
      <3>2. CASE ~(k <= Len(four))
        <4>0. k - Len(four) \in 1 .. Len(Seeding)
          BY <1>4, <3>2
        <4>1. PICK i \in 1 .. Len(Seeding) : i = k - Len(four)
          BY <4>0
        <4>2. Script[Len(four) + i].op \in {"find_account", "create_account"}
          BY <1>4, <4>1, SeedingFacts DEF Within
        <4>3. Len(four) + i = k
          BY <1>4, <4>1
        <4>4. QED
          BY <2>1, <4>2, <4>3
      <3>3. QED
        BY <3>1, <3>2
    <2>3. PICK i \in 1 .. Len(FillingColumns) : FillingColumns[i] = Stmt("fill_column", t)
      BY FillingColumnsFacts
    <2>4. /\ 0 + Len(three) + i \in 1 .. Len(Script)
          /\ Script[0 + Len(three) + i] = Stmt("fill_column", t)
      BY <1>5, <2>3 DEF Within
    <2>5. k < 0 + Len(three) + i
      BY <1>3, <2>2
    <2>6. QED
      BY <2>4, <2>5
  <1>14. Len(Script) \in Nat \ {0}
    BY <1>1, <1>2, <1>3, <1>4, CheckingRolesFacts
  <1>15. QED
    BY <1>4, <1>8, <1>9, <1>10, <1>11, <1>12, <1>13, <1>14

-----------------------------------------------------------------------------
(* The invariant. *)

\* The statement a process runs next, past the last one when it serves; 0 when it is down.
Position(server) ==
    IF server.phase = "starting" THEN server.at
    ELSE IF server.phase = "serving" THEN Len(Script) + 1 ELSE 0

\* A process that migrates is behind this statement, or this one is still before all of them.
Passed(stmt, procs) ==
    \E s \in Migrating, k \in 1 .. Len(Script) : Script[k] = stmt /\ k < Position(procs[s])

Owed(stmt, procs) ==
    \E s \in Migrating, k \in 1 .. Len(Script) : Script[k] = stmt /\ Position(procs[s]) <= k

\* Only those processes start that migrate; and a look-up that found everything of its
\* subject was right, still.
Starters ==
    \A s \in Servers : servers[s].phase = "starting" =>
        /\ s \in Migrating
        /\ servers[s].found = "all" =>
              /\ At(s, "create_table") => Subject(s) \in tables
              /\ At(s, "create_account") => accounts[Subject(s)] # "none"

\* What a process that migrates has put behind it is done, and stays done.
Done ==
    /\ \A t \in Tables \cup {"users"} : Passed(Stmt("create_table", t), servers) => t \in tables
    /\ Passed(Stmt("drop_check", "users"), servers) => roleCheck \in {NoCheck, Roles}
    /\ \A u \in Accounts : Passed(Stmt("create_account", u), servers) => accounts[u] # "none"

\* What is missing after a DROP, or in rows written without a trigger, is still before a
\* process that migrates.
Pending ==
    Migrating # {} =>
        /\ roleCheck = NoCheck => Owed(Stmt("add_check", "users"), servers)
        /\ \A t \in Tables \ triggers : Owed(Stmt("create_trigger", t), servers)
        /\ \A t \in Tables :
              rows[t] # NoRow /\ rows[t].geom = 0 => Owed(Stmt("fill_column", t), servers)

\* A spatial column lags behind its row only after an update without the trigger.
Lagging ==
    \A t \in Tables :
        /\ rows[t].geojson = 0 => rows[t].geom = 0
        /\ rows[t].geom \notin {0, rows[t].geojson} => t \in exposed

StartInv == TypeOK /\ Starters /\ Done /\ Pending /\ Lagging

-----------------------------------------------------------------------------
(* Processes. *)

LEMMA ServerForms ==
    /\ Down \in Server /\ Serving \in Server
    /\ \A at \in 1 .. Len(Script), found \in Findings :
          /\ Starting(at, found) \in Server
          /\ Starting(at, found).phase = "starting"
          /\ Starting(at, found).at = at /\ Starting(at, found).found = found
          /\ Starting(at, found) # Down /\ Starting(at, found) # Serving
    /\ Down.phase = "down" /\ Serving.phase = "serving" /\ Down # Serving
    /\ \A server \in Server :
          \/ server = Down
          \/ server = Serving
          \/ /\ server.phase = "starting"
             /\ server.at \in 1 .. Len(Script) /\ server.found \in Findings
             /\ server = Starting(server.at, server.found)
  <1>1. DOMAIN Script = 1 .. Len(Script)
    BY ScriptFacts, LenProperties DEF InOrder
  <1>2. /\ Down.phase = "down" /\ Serving.phase = "serving" /\ Down # Serving
    BY DEF Down, Serving
  <1>3. ASSUME NEW at \in 1 .. Len(Script), NEW found \in Findings
        PROVE  /\ Starting(at, found) \in Server
               /\ Starting(at, found).phase = "starting"
               /\ Starting(at, found).at = at /\ Starting(at, found).found = found
               /\ Starting(at, found) # Down /\ Starting(at, found) # Serving
    <2>1. Starting(at, found) \in {Starting(a, f) : a \in DOMAIN Script, f \in Findings}
      BY <1>1
    <2>2. /\ Starting(at, found).phase = "starting"
          /\ Starting(at, found).at = at /\ Starting(at, found).found = found
      BY DEF Starting
    <2>3. Starting(at, found) \in Server
      BY <2>1 DEF Server
    <2>4. QED
      BY <1>2, <2>2, <2>3
  <1>4. ASSUME NEW server \in Server
        PROVE  \/ server = Down
               \/ server = Serving
               \/ /\ server.phase = "starting"
                  /\ server.at \in 1 .. Len(Script) /\ server.found \in Findings
                  /\ server = Starting(server.at, server.found)
    <2>1. \/ server = Down \/ server = Serving
          \/ \E at \in 1 .. Len(Script), found \in Findings : server = Starting(at, found)
      BY <1>1 DEF Server
    <2>2. CASE \E at \in 1 .. Len(Script), found \in Findings : server = Starting(at, found)
      <3>1. PICK at \in 1 .. Len(Script), found \in Findings : server = Starting(at, found)
        BY <2>2
      <3>2. QED
        BY <1>3, <3>1
    <2>3. QED
      BY <2>1, <2>2
  <1>5. Down \in Server /\ Serving \in Server
    BY DEF Server
  <1>6. QED
    BY <1>2, <1>3, <1>4, <1>5

LEMMA Positions ==
    /\ Position(Down) = 0 /\ Position(Serving) = Len(Script) + 1
    /\ \A server \in Server :
          /\ Position(server) \in 0 .. Len(Script) + 1
          /\ server.phase = "starting" =>
                Position(server) = server.at /\ server.at \in 1 .. Len(Script)
  BY ServerForms, ScriptFacts DEF Position

\* One process moves on to its next statement, or ends its start.
LEMMA Advances ==
    ASSUME TypeOK, NEW s \in Servers, servers[s].phase = "starting",
           NEW found \in Findings, Advance(s, found)
    PROVE  /\ servers' \in [Servers -> Server] /\ failed' \in [Servers -> 0 .. Patience]
           /\ \A o \in Servers \ {s} : servers'[o] = servers[o]
           /\ Position(servers'[s]) = Position(servers[s]) + 1
           /\ servers[s].at \in 1 .. Len(Script) /\ Position(servers[s]) = servers[s].at
           /\ servers'[s].phase = "starting" =>
                 servers'[s].at = servers[s].at + 1 /\ servers'[s].found = found
  <1>1. /\ servers \in [Servers -> Server] /\ failed \in [Servers -> 0 .. Patience]
        /\ servers[s] \in Server
    BY DEF TypeOK
  <1>2. servers[s].at \in 1 .. Len(Script) /\ Position(servers[s]) = servers[s].at
    BY <1>1, Positions
  <1>3. Len(Script) \in Nat /\ Patience \in Nat
    BY ScriptFacts, StartAssumption
  <1>4. CASE servers[s].at < Len(Script)
    <2>1. servers[s].at + 1 \in 1 .. Len(Script)
      BY <1>2, <1>3, <1>4
    <2>2. PICK next \in Server : next = Starting(servers[s].at + 1, found)
      BY <2>1, ServerForms
    <2>3. next.phase = "starting" /\ next.at = servers[s].at + 1 /\ next.found = found
      BY <2>1, <2>2, ServerForms
    <2>4. servers' = [servers EXCEPT ![s] = next] /\ failed' = failed
      BY <1>4, <2>2 DEF Advance
    <2>5. Position(next) = servers[s].at + 1
      BY <2>3, Positions
    <2>6. servers' \in [Servers -> Server] /\ servers'[s] = next
      BY <1>1, <2>4
    <2>7. \A o \in Servers \ {s} : servers'[o] = servers[o]
      BY <1>1, <2>4
    <2>8. QED
      BY <1>1, <1>2, <2>3, <2>4, <2>5, <2>6, <2>7
  <1>5. CASE ~(servers[s].at < Len(Script))
    <2>1. servers[s].at = Len(Script)
      BY <1>2, <1>3, <1>5
    <2>2. servers' = [servers EXCEPT ![s] = Serving] /\ failed' = [failed EXCEPT ![s] = 0]
      BY <1>5 DEF Advance
    <2>3. servers' \in [Servers -> Server] /\ servers'[s] = Serving
      BY <1>1, <2>2, ServerForms
    <2>4. \A o \in Servers \ {s} : servers'[o] = servers[o]
      BY <1>1, <2>2
    <2>5. failed' \in [Servers -> 0 .. Patience]
      BY <1>1, <1>3, <2>2
    <2>6. QED
      BY <1>2, <2>1, <2>3, <2>4, <2>5, ServerForms, Positions
  <1>6. QED
    BY <1>4, <1>5

LEMMA GoesDown ==
    ASSUME TypeOK, NEW s \in Servers, GoDown(s)
    PROVE  /\ servers' \in [Servers -> Server] /\ failed' \in [Servers -> 0 .. Patience]
           /\ \A o \in Servers \ {s} : servers'[o] = servers[o]
           /\ servers'[s] = Down
  <1>1. /\ servers \in [Servers -> Server] /\ failed \in [Servers -> 0 .. Patience]
        /\ Patience \in Nat
    BY StartAssumption DEF TypeOK
  <1>2. servers' = [servers EXCEPT ![s] = Down]
    BY DEF GoDown
  <1>3. failed' = [failed EXCEPT ![s] = IF failed[s] < Patience THEN failed[s] + 1 ELSE failed[s]]
    BY DEF GoDown
  <1>4. (IF failed[s] < Patience THEN failed[s] + 1 ELSE failed[s]) \in 0 .. Patience
    BY <1>1
  <1>5. failed' \in [Servers -> 0 .. Patience]
    BY <1>1, <1>3, <1>4
  <1>6. QED
    BY <1>1, <1>2, <1>5, ServerForms

LEMMA Starts ==
    ASSUME TypeOK, NEW s \in Servers, Start(s)
    PROVE  /\ servers' \in [Servers -> Server]
           /\ \A o \in Servers \ {s} : servers'[o] = servers[o]
           /\ \/ s \notin Migrating /\ servers'[s] = Serving
              \/ s \in Migrating /\ servers'[s] = Starting(1, "none")
           /\ UNCHANGED <<tables, roleCheck, triggers, rows, accounts, failed, stops, exposed>>
  <1>1. servers \in [Servers -> Server]
    BY DEF TypeOK
  <1>2. 1 \in 1 .. Len(Script) /\ "none" \in Findings
    BY ScriptFacts DEF Findings
  <1>3. Starting(1, "none") \in Server /\ Serving \in Server
    BY <1>2, ServerForms
  <1>4. PICK next \in Server : next = IF s \in Migrating THEN Starting(1, "none") ELSE Serving
    BY <1>3
  <1>5. servers' = [servers EXCEPT ![s] = next]
    BY <1>4 DEF Start
  <1>6. UNCHANGED <<tables, roleCheck, triggers, rows, accounts, failed, stops, exposed>>
    BY DEF Start, db
  <1>7. QED
    BY <1>1, <1>4, <1>5, <1>6

\* The subject of a statement.
LEMMA Subjects ==
    ASSUME TypeOK, NEW s \in Servers, NEW op \in Ops, At(s, op)
    PROVE  /\ servers[s].phase = "starting" /\ servers[s].at \in 1 .. Len(Script)
           /\ Script[servers[s].at] = Stmt(op, Subject(s)) /\ Script[servers[s].at].op = op
           /\ op \in {"find_table", "create_table"} => Subject(s) \in Tables \cup {"users"}
           /\ op \in {"drop_check", "add_check"} => Subject(s) = "users"
           /\ op \in {"drop_trigger", "create_trigger", "fill_column"} => Subject(s) \in Tables
           /\ op \in {"find_account", "create_account"} => Subject(s) \in Accounts
  <1> DEFINE at == servers[s].at
  <1>1. servers[s].phase = "starting" /\ Script[at].op = op
    BY DEF At
  <1>2. at \in 1 .. Len(Script)
    BY <1>1, Positions DEF TypeOK
  <1>3. Script[at] \in Stmts /\ Ordered(Script, at)
    BY <1>2, ScriptFacts, ElementOfSeq DEF InOrder
  <1>4. Script[at] = Stmt(op, Subject(s))
    BY <1>1, <1>3 DEF Subject, Stmt, Stmts
  <1>5. QED
    BY <1>1, <1>2, <1>3, <1>4 DEF Ordered, Subject

-----------------------------------------------------------------------------
(* What a statement does that succeeds. *)

\* Rows whose spatial column is NULL get it from their GeoJSON.
Filled(t) ==
    /\ rows' \in [Tables -> Row]
    /\ \A o \in Tables \ {t} : rows'[o] = rows[o]
    /\ rows'[t].geojson = rows[t].geojson
    /\ rows'[t].geom = IF rows[t].geom = 0 THEN rows[t].geojson ELSE rows[t].geom

\* The account is there, and so is every other one as it was.
Seeded(u) ==
    /\ accounts' \in [Accounts -> {"none", "active", "inactive"}]
    /\ \A o \in Accounts : accounts[o] # "none" => accounts'[o] = accounts[o]
    /\ accounts'[u] # "none"

Looks(s, found) ==
    /\ \/ At(s, "find_table") /\ (found = "all" => Subject(s) \in tables)
       \/ At(s, "find_account") /\ (found = "all" => accounts[Subject(s)] # "none")
    /\ UNCHANGED <<tables, roleCheck, triggers, rows, accounts, stops, exposed>>

Writes(s) ==
    \/ /\ At(s, "create_table")
       /\ tables' = tables \cup {Subject(s)} /\ roleCheck' \in {roleCheck, Roles}
       /\ UNCHANGED <<triggers, rows, accounts, stops, exposed>>
    \/ /\ At(s, "drop_check") /\ roleCheck' = NoCheck
       /\ UNCHANGED <<tables, triggers, rows, accounts, stops, exposed>>
    \/ /\ At(s, "add_check") /\ roleCheck' = Roles
       /\ UNCHANGED <<tables, triggers, rows, accounts, stops, exposed>>
    \/ /\ At(s, "drop_trigger") /\ triggers' = triggers \ {Subject(s)}
       /\ UNCHANGED <<tables, roleCheck, rows, accounts, stops, exposed>>
    \/ /\ At(s, "create_trigger") /\ triggers' = triggers \cup {Subject(s)}
       /\ UNCHANGED <<tables, roleCheck, rows, accounts, stops, exposed>>
    \/ /\ At(s, "fill_column") /\ Filled(Subject(s))
       /\ UNCHANGED <<tables, roleCheck, triggers, accounts, stops, exposed>>
    \/ /\ At(s, "create_account") /\ Seeded(Subject(s))
       /\ UNCHANGED <<tables, roleCheck, triggers, rows, stops, exposed>>

\* It looks something up, or writes; or it fails and the process ends.
LEMMA StatementEffects ==
    ASSUME TypeOK, Starters, NEW s \in Servers, Statement(s)
    PROVE  \/ Exit(s)
           \/ \E found \in Findings : Advance(s, found) /\ Looks(s, found)
           \/ Advance(s, "none") /\ Writes(s)
  <1>0. Ops = {"find_table", "create_table", "drop_check", "add_check", "drop_trigger",
               "create_trigger", "fill_column", "find_account", "create_account"}
    BY DEF Ops
  <1>1. CASE FindTable(s)
    <2>1. PICK found \in Findings :
             found = IF Subject(s) \notin tables THEN "none"
                     ELSE IF Subject(s) = "users" /\ roleCheck = NoCheck THEN "part" ELSE "all"
      BY DEF Findings
    <2>2. At(s, "find_table") /\ Advance(s, found) /\ UNCHANGED <<db, stops, exposed>>
      BY <1>1, <2>1 DEF FindTable
    <2>3. found = "all" => Subject(s) \in tables
      BY <2>1
    <2>4. Looks(s, found)
      BY <2>2, <2>3 DEF Looks, db
    <2>5. QED
      BY <2>2, <2>4
  <1>2. CASE CreateTable(s)
    <2>1. At(s, "create_table")
      BY <1>2 DEF CreateTable
    <2>2. CASE servers[s].found = "all"
      <3>1. Advance(s, "none") /\ UNCHANGED <<db, stops, exposed>>
        BY <1>2, <2>2 DEF CreateTable
      <3>2. Subject(s) \in tables
        BY <1>0, <2>1, <2>2, Subjects DEF Starters
      <3>3. Writes(s)
        BY <2>1, <3>1, <3>2 DEF Writes, db
      <3>4. QED
        BY <3>1, <3>3
    <2>3. CASE servers[s].found # "all" /\ ~Exit(s)
      <3>1. /\ tables' = tables \cup {Subject(s)}
            /\ roleCheck' = IF Subject(s) = "users" THEN Roles ELSE roleCheck
            /\ Advance(s, "none")
            /\ UNCHANGED <<triggers, rows, accounts, stops, exposed>>
        BY <1>2, <2>3 DEF CreateTable
      <3>2. Writes(s)
        BY <2>1, <3>1 DEF Writes
      <3>3. QED
        BY <3>1, <3>2
    <2>4. QED
      BY <2>2, <2>3
  <1>3. CASE DropCheck(s)
    BY <1>3 DEF DropCheck, Writes
  <1>4. CASE AddCheck(s)
    BY <1>4 DEF AddCheck, Writes
  <1>5. CASE DropTrigger(s)
    BY <1>5 DEF DropTrigger, Writes
  <1>6. CASE CreateTrigger(s)
    BY <1>6 DEF CreateTrigger, Writes
  <1>7. CASE FillColumn(s)
    <2>1. /\ At(s, "fill_column") /\ Advance(s, "none")
          /\ UNCHANGED <<tables, roleCheck, triggers, accounts, stops, exposed>>
      BY <1>7 DEF FillColumn
    <2>2. Subject(s) \in Tables
      BY <1>0, <2>1, Subjects
    <2>3. PICK t \in Tables : t = Subject(s)
      BY <2>2
    <2>4. rows' = [rows EXCEPT ![t].geom = IF @ = 0 THEN rows[t].geojson ELSE @]
      BY <1>7, <2>3 DEF FillColumn
    <2>5. rows \in [Tables -> [geojson : 0 .. MaxVersion, geom : 0 .. MaxVersion]]
      BY DEF TypeOK, Row
    <2>6. Filled(t)
      <3>1. rows' \in [Tables -> [geojson : 0 .. MaxVersion, geom : 0 .. MaxVersion]]
        BY <2>4, <2>5
      <3>2. \A o \in Tables \ {t} : rows'[o] = rows[o]
        BY <2>4, <2>5
      <3>3. /\ rows'[t].geojson = rows[t].geojson
            /\ rows'[t].geom = IF rows[t].geom = 0 THEN rows[t].geojson ELSE rows[t].geom
        BY <2>4, <2>5
      <3>4. QED
        BY <3>1, <3>2, <3>3 DEF Filled, Row
    <2>7. QED
      BY <2>1, <2>3, <2>6 DEF Writes
  <1>8. CASE FindAccount(s)
    <2>1. PICK found \in Findings : found = IF accounts[Subject(s)] = "none" THEN "none" ELSE "all"
      BY DEF Findings
    <2>2. At(s, "find_account") /\ Advance(s, found) /\ UNCHANGED <<db, stops, exposed>>
      BY <1>8, <2>1 DEF FindAccount
    <2>3. found = "all" => accounts[Subject(s)] # "none"
      BY <2>1
    <2>4. Looks(s, found)
      BY <2>2, <2>3 DEF Looks, db
    <2>5. QED
      BY <2>2, <2>4
  <1>9. CASE CreateAccount(s)
    <2>1. At(s, "create_account")
      BY <1>9 DEF CreateAccount
    <2>2. Subject(s) \in Accounts
      BY <1>0, <2>1, Subjects
    <2>3. accounts \in [Accounts -> {"none", "active", "inactive"}]
      BY DEF TypeOK
    <2>4. CASE servers[s].found = "all"
      <3>1. Advance(s, "none") /\ UNCHANGED <<db, stops, exposed>>
        BY <1>9, <2>4 DEF CreateAccount
      <3>2. accounts[Subject(s)] # "none"
        BY <1>0, <2>1, <2>4, Subjects DEF Starters
      <3>3. Seeded(Subject(s))
        BY <2>3, <3>1, <3>2 DEF Seeded, db
      <3>4. QED
        BY <2>1, <3>1, <3>3 DEF Writes, db
    <2>5. CASE servers[s].found # "all" /\ ~Exit(s)
      <3>1. PICK u \in Accounts : u = Subject(s)
        BY <2>2
      <3>2. /\ accounts[u] = "none" /\ accounts' = [accounts EXCEPT ![u] = "active"]
            /\ Advance(s, "none")
            /\ UNCHANGED <<tables, roleCheck, triggers, rows, stops, exposed>>
        BY <1>9, <2>5, <3>1 DEF CreateAccount
      <3>3. Seeded(u)
        BY <2>3, <3>2 DEF Seeded
      <3>4. QED
        BY <2>1, <3>1, <3>2, <3>3 DEF Writes
    <2>6. QED
      BY <2>4, <2>5
  <1>10. QED
    BY <1>1, <1>2, <1>3, <1>4, <1>5, <1>6, <1>7, <1>8, <1>9 DEF Statement

-----------------------------------------------------------------------------
(* Every step preserves the invariant. *)

\* No process that migrates gets past this statement.
Keeps(stmt, before, after) ==
    \A s \in Migrating :
        \/ Position(after[s]) <= 1
        \/ Position(after[s]) = Position(before[s])
        \/ /\ Position(after[s]) = Position(before[s]) + 1
           /\ Position(before[s]) \in 1 .. Len(Script) /\ Script[Position(before[s])] # stmt

LEMMA KeepsPassed ==
    ASSUME NEW before \in [Servers -> Server], NEW after \in [Servers -> Server], NEW stmt,
           Keeps(stmt, before, after)
    PROVE  /\ Owed(stmt, before) => Owed(stmt, after)
           /\ Passed(stmt, after) => Passed(stmt, before)
  <1>1. \A s \in Migrating :
           /\ Position(before[s]) \in 0 .. Len(Script) + 1
           /\ Position(after[s]) \in 0 .. Len(Script) + 1
    BY StartAssumption, Positions
  <1>2. ASSUME Owed(stmt, before)
        PROVE  Owed(stmt, after)
    <2>1. PICK s \in Migrating, k \in 1 .. Len(Script) :
             Script[k] = stmt /\ Position(before[s]) <= k
      BY <1>2 DEF Owed
    <2>2. Position(before[s]) # k \/ Position(after[s]) # Position(before[s]) + 1
          \/ Position(after[s]) <= 1
      BY <2>1 DEF Keeps
    <2>3. Position(after[s]) <= k
      BY <1>1, <2>1, <2>2 DEF Keeps
    <2>4. QED
      BY <2>1, <2>3 DEF Owed
  <1>3. ASSUME Passed(stmt, after)
        PROVE  Passed(stmt, before)
    <2>1. PICK s \in Migrating, k \in 1 .. Len(Script) :
             Script[k] = stmt /\ k < Position(after[s])
      BY <1>3 DEF Passed
    <2>2. Position(before[s]) # k \/ Position(after[s]) # Position(before[s]) + 1
      BY <1>1, <2>1 DEF Keeps
    <2>3. k < Position(before[s])
      BY <1>1, <2>1, <2>2 DEF Keeps
    <2>4. QED
      BY <2>1, <2>3 DEF Passed
  <1>4. QED
    BY <1>2, <1>3

\* A process that advances gets past its own statement only.
LEMMA AdvanceKeeps ==
    ASSUME TypeOK, NEW s \in Servers, servers[s].phase = "starting",
           NEW found \in Findings, Advance(s, found),
           NEW stmt, Script[servers[s].at] # stmt
    PROVE  Keeps(stmt, servers, servers')
  <1>1. /\ \A o \in Servers \ {s} : servers'[o] = servers[o]
        /\ Position(servers'[s]) = Position(servers[s]) + 1
        /\ servers[s].at \in 1 .. Len(Script) /\ Position(servers[s]) = servers[s].at
    BY Advances
  <1>2. QED
    BY <1>1, StartAssumption DEF Keeps

\* A process that goes down, or starts, is before every statement.
LEMMA RestartKeeps ==
    ASSUME NEW s \in Servers,
           \A o \in Servers \ {s} : servers'[o] = servers[o],
           s \in Migrating => Position(servers'[s]) <= 1,
           NEW stmt
    PROVE  Keeps(stmt, servers, servers')
  BY StartAssumption DEF Keeps

LEMMA SameKeeps ==
    ASSUME UNCHANGED servers, NEW stmt
    PROVE  Keeps(stmt, servers, servers')
  BY DEF Keeps

LEMMA DoneKept ==
    ASSUME TypeOK, TypeOK', Done,
           tables \subseteq tables',
           roleCheck \in {NoCheck, Roles} => roleCheck' \in {NoCheck, Roles},
           \A u \in Accounts : accounts[u] # "none" => accounts'[u] # "none",
           \A t \in Tables \cup {"users"} :
              Keeps(Stmt("create_table", t), servers, servers') \/ t \in tables',
           \/ Keeps(Stmt("drop_check", "users"), servers, servers')
           \/ roleCheck' \in {NoCheck, Roles},
           \A u \in Accounts :
              Keeps(Stmt("create_account", u), servers, servers') \/ accounts'[u] # "none"
    PROVE  Done'
  <1>1. servers \in [Servers -> Server] /\ servers' \in [Servers -> Server]
    BY DEF TypeOK
  <1>2. \A t \in Tables \cup {"users"} : Passed(Stmt("create_table", t), servers') => t \in tables'
    BY <1>1, KeepsPassed DEF Done
  <1>3. Passed(Stmt("drop_check", "users"), servers') => roleCheck' \in {NoCheck, Roles}
    BY <1>1, KeepsPassed DEF Done
  <1>4. \A u \in Accounts :
           Passed(Stmt("create_account", u), servers') => accounts'[u] # "none"
    BY <1>1, KeepsPassed DEF Done
  <1>5. QED
    BY <1>2, <1>3, <1>4 DEF Done

LEMMA PendingKept ==
    ASSUME TypeOK, TypeOK', Pending,
           roleCheck' = NoCheck =>
              \/ roleCheck = NoCheck /\ Keeps(Stmt("add_check", "users"), servers, servers')
              \/ Owed(Stmt("add_check", "users"), servers'),
           \A t \in Tables \ triggers' :
              \/ t \notin triggers /\ Keeps(Stmt("create_trigger", t), servers, servers')
              \/ Owed(Stmt("create_trigger", t), servers'),
           \A t \in Tables : rows'[t] # NoRow /\ rows'[t].geom = 0 =>
              \/ /\ rows[t] # NoRow /\ rows[t].geom = 0
                 /\ Keeps(Stmt("fill_column", t), servers, servers')
              \/ Migrating # {} => Owed(Stmt("fill_column", t), servers')
    PROVE  Pending'
  <1>1. servers \in [Servers -> Server] /\ servers' \in [Servers -> Server]
    BY DEF TypeOK
  <1> SUFFICES ASSUME Migrating # {}
               PROVE  /\ roleCheck' = NoCheck => Owed(Stmt("add_check", "users"), servers')
                      /\ \A t \in Tables \ triggers' : Owed(Stmt("create_trigger", t), servers')
                      /\ \A t \in Tables : rows'[t] # NoRow /\ rows'[t].geom = 0 =>
                            Owed(Stmt("fill_column", t), servers')
    BY DEF Pending
  <1>2. roleCheck' = NoCheck => Owed(Stmt("add_check", "users"), servers')
    BY <1>1, KeepsPassed DEF Pending
  <1>3. \A t \in Tables \ triggers' : Owed(Stmt("create_trigger", t), servers')
    BY <1>1, KeepsPassed DEF Pending
  <1>4. \A t \in Tables :
           rows'[t] # NoRow /\ rows'[t].geom = 0 => Owed(Stmt("fill_column", t), servers')
    BY <1>1, KeepsPassed DEF Pending
  <1>5. QED
    BY <1>2, <1>3, <1>4

LEMMA StartersKept ==
    ASSUME TypeOK, TypeOK', Starters, NEW s \in Servers,
           tables \subseteq tables',
           \A u \in Accounts : accounts[u] # "none" => accounts'[u] # "none",
           \A o \in Servers \ {s} : servers'[o] = servers[o],
           servers'[s].phase = "starting" =>
              /\ s \in Migrating
              /\ servers'[s].found = "all" =>
                    /\ Script[servers'[s].at].op = "create_table" =>
                          Script[servers'[s].at].of \in tables'
                    /\ Script[servers'[s].at].op = "create_account" =>
                          accounts'[Script[servers'[s].at].of] # "none"
    PROVE  Starters'
  <1> SUFFICES ASSUME NEW o \in Servers, servers'[o].phase = "starting"
               PROVE  /\ o \in Migrating
                      /\ servers'[o].found = "all" =>
                            /\ Script[servers'[o].at].op = "create_table" =>
                                  Script[servers'[o].at].of \in tables'
                            /\ Script[servers'[o].at].op = "create_account" =>
                                  accounts'[Script[servers'[o].at].of] # "none"
    BY DEF Starters, At, Subject
  <1>1. CASE o = s
    BY <1>1
  <1>2. CASE o # s
    <2>1. servers'[o] = servers[o]
      BY <1>2
    <2>2. /\ o \in Migrating
          /\ servers[o].found = "all" =>
                /\ Script[servers[o].at].op = "create_table" => Script[servers[o].at].of \in tables
                /\ Script[servers[o].at].op = "create_account" =>
                      accounts[Script[servers[o].at].of] # "none"
      BY <2>1 DEF Starters, At, Subject
    <2>3. Script[servers[o].at].op = "create_account" => Script[servers[o].at].of \in Accounts
      <3>1. servers[o].at \in 1 .. Len(Script)
        BY <2>1, Positions DEF TypeOK
      <3>2. QED
        BY <3>1, ScriptFacts DEF InOrder, Ordered
    <2>4. QED
      BY <2>1, <2>2, <2>3
  <1>3. QED
    BY <1>1, <1>2

\* The program's own data has no value "none" for the roles a constraint admits.
LEMMA RoleChecks == Roles # NoCheck /\ LegacyRoles # NoCheck
  BY StartAssumption DEF Roles, NoCheck

\* A step of one process that leaves the database as it is, and every statement that is
\* not done where it is.
LEMMA QuietStep ==
    ASSUME StartInv, TypeOK', Starters',
           UNCHANGED <<tables, roleCheck, triggers, rows, accounts, exposed>>,
           \A stmt : Keeps(stmt, servers, servers')
    PROVE  StartInv'
  <1>1. TypeOK /\ Starters /\ Done /\ Pending /\ Lagging
    BY DEF StartInv
  <1>2. Done'
    BY <1>1, DoneKept
  <1>3. Pending'
    BY <1>1, PendingKept
  <1>4. Lagging'
    BY <1>1 DEF Lagging
  <1>5. QED
    BY <1>2, <1>3, <1>4 DEF StartInv

LEMMA ExitStep ==
    ASSUME StartInv, NEW s \in Servers, GoDown(s), stops' \in 0 .. MaxStops,
           UNCHANGED <<tables, roleCheck, triggers, rows, accounts, exposed>>
    PROVE  StartInv'
  <1>1. TypeOK /\ Starters
    BY DEF StartInv
  <1>2. /\ servers' \in [Servers -> Server] /\ failed' \in [Servers -> 0 .. Patience]
        /\ \A o \in Servers \ {s} : servers'[o] = servers[o]
        /\ servers'[s] = Down
    BY <1>1, GoesDown
  <1>3. TypeOK'
    BY <1>1, <1>2 DEF TypeOK
  <1>4. Starters'
    BY <1>1, <1>2, <1>3, ServerForms, StartersKept
  <1>5. \A stmt : Keeps(stmt, servers, servers')
    BY <1>2, Positions, RestartKeeps
  <1>6. QED
    BY <1>3, <1>4, <1>5, QuietStep

LEMMA StartStep ==
    ASSUME StartInv, NEW s \in Servers, Start(s)
    PROVE  StartInv'
  <1>1. TypeOK /\ Starters
    BY DEF StartInv
  <1>2. /\ servers' \in [Servers -> Server]
        /\ \A o \in Servers \ {s} : servers'[o] = servers[o]
        /\ \/ s \notin Migrating /\ servers'[s] = Serving
           \/ s \in Migrating /\ servers'[s] = Starting(1, "none")
        /\ UNCHANGED <<tables, roleCheck, triggers, rows, accounts, failed, stops, exposed>>
    BY <1>1, Starts
  <1>3. TypeOK'
    BY <1>1, <1>2 DEF TypeOK
  <1>4. 1 \in 1 .. Len(Script) /\ "none" \in Findings
    BY ScriptFacts DEF Findings
  <1>5. /\ Starting(1, "none").phase = "starting" /\ Starting(1, "none").at = 1
        /\ Starting(1, "none").found = "none" /\ Starting(1, "none") \in Server
    BY <1>4, ServerForms
  <1>6. Starters'
    BY <1>1, <1>2, <1>3, <1>5, ServerForms, StartersKept
  <1>7. s \in Migrating => Position(servers'[s]) <= 1
    BY <1>2, <1>5, Positions
  <1>8. \A stmt : Keeps(stmt, servers, servers')
    BY <1>2, <1>7, RestartKeeps
  <1>9. QED
    BY <1>2, <1>3, <1>6, <1>8, QuietStep

\* A look-up that found everything is remembered by the statement on the same subject only.
LEMMA LookStep ==
    ASSUME StartInv, NEW s \in Servers, NEW found \in Findings, Advance(s, found), Looks(s, found)
    PROVE  StartInv'
  <1>1. TypeOK /\ Starters /\ Done /\ Pending
    BY DEF StartInv
  <1>2. PICK op \in {"find_table", "find_account"} :
           /\ At(s, op)
           /\ op = "find_table" /\ found = "all" => Subject(s) \in tables
           /\ op = "find_account" /\ found = "all" => accounts[Subject(s)] # "none"
    BY DEF Looks
  <1>3. op \in Ops
    BY DEF Ops
  <1>4. /\ servers[s].phase = "starting" /\ servers[s].at \in 1 .. Len(Script)
        /\ Script[servers[s].at] = Stmt(op, Subject(s)) /\ Script[servers[s].at].op = op
    BY <1>1, <1>2, <1>3, Subjects
  <1>5. /\ servers' \in [Servers -> Server] /\ failed' \in [Servers -> 0 .. Patience]
        /\ \A o \in Servers \ {s} : servers'[o] = servers[o]
        /\ servers'[s].phase = "starting" =>
              servers'[s].at = servers[s].at + 1 /\ servers'[s].found = found
    BY <1>1, <1>4, Advances
  <1>6. UNCHANGED <<tables, roleCheck, triggers, rows, accounts, stops, exposed>>
    BY DEF Looks
  <1>7. TypeOK'
    BY <1>1, <1>5, <1>6 DEF TypeOK
  <1>8. Starters'
    <2> SUFFICES ASSUME servers'[s].phase = "starting"
                 PROVE  /\ s \in Migrating
                        /\ servers'[s].found = "all" =>
                              /\ Script[servers'[s].at].op = "create_table" =>
                                    Script[servers'[s].at].of \in tables'
                              /\ Script[servers'[s].at].op = "create_account" =>
                                    accounts'[Script[servers'[s].at].of] # "none"
      BY <1>1, <1>5, <1>6, <1>7, StartersKept
    <2>1. s \in Migrating
      BY <1>1, <1>4 DEF Starters
    <2>2. PICK at \in 1 .. Len(Script) : at = servers'[s].at
      BY <1>5, Positions
    <2>3. at - 1 = servers[s].at /\ servers'[s].found = found
      BY <1>4, <1>5, <2>2
    <2>4. Ordered(Script, at) /\ Script[at - 1] = Stmt(op, Subject(s))
      BY <1>4, <2>3, ScriptFacts DEF InOrder
    <2>5. ASSUME found = "all", Script[at].op = "create_table"
          PROVE  Script[at].of \in tables'
      <3>1. Stmt(op, Subject(s)) = Stmt("find_table", Script[at].of)
        BY <2>4, <2>5 DEF Ordered
      <3>2. op = "find_table" /\ Subject(s) = Script[at].of
        BY <3>1 DEF Stmt
      <3>3. QED
        BY <1>2, <1>6, <2>5, <3>2
    <2>6. ASSUME found = "all", Script[at].op = "create_account"
          PROVE  accounts'[Script[at].of] # "none"
      <3>1. Stmt(op, Subject(s)) = Stmt("find_account", Script[at].of)
        BY <2>4, <2>6 DEF Ordered
      <3>2. op = "find_account" /\ Subject(s) = Script[at].of
        BY <3>1 DEF Stmt
      <3>3. QED
        BY <1>2, <1>6, <2>6, <3>2
    <2>7. QED
      BY <2>1, <2>2, <2>3, <2>5, <2>6
  <1>9. \A other \in Ops \ {"find_table", "find_account"} : \A subject :
           Keeps(Stmt(other, subject), servers, servers')
    <2> SUFFICES ASSUME NEW other \in Ops \ {"find_table", "find_account"}, NEW subject
                 PROVE  Keeps(Stmt(other, subject), servers, servers')
      OBVIOUS
    <2>1. Script[servers[s].at] # Stmt(other, subject)
      BY <1>2, <1>4 DEF Stmt
    <2>2. QED
      BY <1>1, <1>4, <2>1, AdvanceKeeps
  <1>10. {"create_table", "drop_check", "create_account", "add_check", "create_trigger", "fill_column"}
            \subseteq Ops \ {"find_table", "find_account"}
    BY DEF Ops
  <1>11. Done'
    BY <1>1, <1>6, <1>7, <1>9, <1>10, DoneKept
  <1>12. Pending'
    BY <1>1, <1>6, <1>7, <1>9, <1>10, PendingKept
  <1>13. Lagging'
    BY <1>6 DEF StartInv, Lagging
  <1>14. QED
    BY <1>7, <1>8, <1>11, <1>12, <1>13 DEF StartInv

\* A process that advances from a statement other than these.
LEMMA AdvanceElsewhere ==
    ASSUME TypeOK, NEW s \in Servers, NEW op \in Ops, At(s, op),
           NEW found \in Findings, Advance(s, found),
           NEW other \in Ops \ {op}, NEW subject
    PROVE  Keeps(Stmt(other, subject), servers, servers')
  <1>1. /\ servers[s].phase = "starting"
        /\ Script[servers[s].at] = Stmt(op, Subject(s)) /\ Script[servers[s].at].op = op
    BY Subjects
  <1>2. Script[servers[s].at] # Stmt(other, subject)
    BY <1>1 DEF Stmt
  <1>3. QED
    BY <1>1, <1>2, AdvanceKeeps

\* After a DROP, or a trigger's creation, comes what its process still owes.
LEMMA NextOwed ==
    ASSUME TypeOK, NEW s \in Migrating, NEW op \in Ops, At(s, op), Advance(s, "none"),
           NEW stmt, servers[s].at + 1 \in 1 .. Len(Script), Script[servers[s].at + 1] = stmt
    PROVE  Owed(stmt, servers')
  <1>1. s \in Servers /\ "none" \in Findings
    BY StartAssumption DEF Findings
  <1>2. servers[s].phase = "starting"
    BY DEF At
  <1>3. Position(servers'[s]) = servers[s].at + 1
    BY <1>1, <1>2, Advances
  <1>4. Position(servers'[s]) <= servers[s].at + 1
    BY <1>3
  <1>5. QED
    BY <1>4 DEF Owed

LEMMA WriteStep ==
    ASSUME StartInv, NEW s \in Servers, Advance(s, "none"), Writes(s)
    PROVE  StartInv'
  <1>1. TypeOK /\ Starters /\ Done /\ Pending /\ Lagging
    BY DEF StartInv
  <1>2. /\ Ops = {"find_table", "create_table", "drop_check", "add_check", "drop_trigger",
                  "create_trigger", "fill_column", "find_account", "create_account"}
        /\ "none" \in Findings
    BY DEF Ops, Findings
  <1>3. PICK op \in {"create_table", "drop_check", "add_check", "drop_trigger", "create_trigger",
                     "fill_column", "create_account"} : At(s, op)
    BY DEF Writes
  <1>4. op \in Ops
    BY <1>2
  <1>5. /\ servers[s].phase = "starting" /\ servers[s].at \in 1 .. Len(Script)
        /\ Script[servers[s].at] = Stmt(op, Subject(s)) /\ Script[servers[s].at].op = op
        /\ op = "create_table" => Subject(s) \in Tables \cup {"users"}
        /\ op \in {"drop_check", "add_check"} => Subject(s) = "users"
        /\ op \in {"drop_trigger", "create_trigger", "fill_column"} => Subject(s) \in Tables
        /\ op = "create_account" => Subject(s) \in Accounts
    BY <1>1, <1>3, <1>4, Subjects
  <1>6. /\ servers' \in [Servers -> Server] /\ failed' \in [Servers -> 0 .. Patience]
        /\ \A o \in Servers \ {s} : servers'[o] = servers[o]
        /\ servers'[s].phase = "starting" => servers'[s].found = "none"
    BY <1>1, <1>2, <1>5, Advances
  <1>7. \A other \in Ops \ {op} : \A subject : Keeps(Stmt(other, subject), servers, servers')
    BY <1>1, <1>2, <1>3, <1>4, AdvanceElsewhere
  <1>8. s \in Migrating /\ Ordered(Script, servers[s].at)
    BY <1>1, <1>5, ScriptFacts DEF Starters, InOrder
  <1>9. \A stmt : servers[s].at + 1 \in 1 .. Len(Script) /\ Script[servers[s].at + 1] = stmt
                     => Owed(stmt, servers')
    BY <1>1, <1>3, <1>4, <1>8, NextOwed
  <1>10. ASSUME TypeOK', tables \subseteq tables',
                \A u \in Accounts : accounts[u] # "none" => accounts'[u] # "none"
         PROVE  Starters'
    <2>1. "none" # "all"
      OBVIOUS
    <2>2. QED
      BY <1>1, <1>6, <1>8, <1>10, <2>1, StartersKept
  <1>11. ASSUME UNCHANGED <<triggers, rows, exposed>>, TypeOK',
                op \notin {"create_trigger", "fill_column"},
                roleCheck' = NoCheck =>
                   \/ roleCheck = NoCheck /\ Keeps(Stmt("add_check", "users"), servers, servers')
                   \/ Owed(Stmt("add_check", "users"), servers')
         PROVE  Pending' /\ Lagging'
    <2>1. Pending'
      BY <1>1, <1>2, <1>7, <1>11, PendingKept
    <2>2. Lagging'
      BY <1>1, <1>11 DEF Lagging
    <2>3. QED
      BY <2>1, <2>2
  <1>12. ASSUME UNCHANGED <<tables, roleCheck, accounts>>, TypeOK',
                op \in {"drop_trigger", "create_trigger", "fill_column"}
         PROVE  Starters' /\ Done'
    <2>1. Done'
      BY <1>1, <1>2, <1>7, <1>12, DoneKept
    <2>2. QED
      BY <1>10, <1>12, <2>1
  <1>13. CASE op = "create_table"
    <2>1. /\ tables' = tables \cup {Subject(s)} /\ roleCheck' \in {roleCheck, Roles}
          /\ UNCHANGED <<triggers, rows, accounts, stops, exposed>>
      BY <1>5, <1>13 DEF Writes, At
    <2>2. TypeOK'
      BY <1>1, <1>5, <1>6, <1>13, <2>1 DEF TypeOK
    <2>3. \A t \in Tables \cup {"users"} :
             Keeps(Stmt("create_table", t), servers, servers') \/ t \in tables'
      <3> SUFFICES ASSUME NEW t \in Tables \cup {"users"}, t # Subject(s)
                   PROVE  Keeps(Stmt("create_table", t), servers, servers')
        BY <2>1
      <3>1. Script[servers[s].at] # Stmt("create_table", t)
        BY <1>5 DEF Stmt
      <3>2. QED
        BY <1>1, <1>2, <1>5, <3>1, AdvanceKeeps
    <2>4. Done'
      BY <1>1, <1>2, <1>7, <1>13, <2>1, <2>2, <2>3, DoneKept
    <2>5. roleCheck' = NoCheck => roleCheck = NoCheck
      BY <2>1, RoleChecks
    <2>6. Pending' /\ Lagging'
      BY <1>2, <1>7, <1>11, <1>13, <2>1, <2>2, <2>5
    <2>7. QED
      BY <1>10, <2>1, <2>2, <2>4, <2>6 DEF StartInv
  <1>14. CASE op = "drop_check"
    <2>1. roleCheck' = NoCheck /\ UNCHANGED <<tables, triggers, rows, accounts, stops, exposed>>
      BY <1>5, <1>14 DEF Writes, At
    <2>2. TypeOK'
      BY <1>1, <1>6, <2>1 DEF TypeOK
    <2>3. Done'
      BY <1>1, <1>2, <1>7, <1>14, <2>1, <2>2, DoneKept
    <2>4. Owed(Stmt("add_check", "users"), servers')
      BY <1>5, <1>8, <1>9, <1>14 DEF Ordered
    <2>5. Pending' /\ Lagging'
      BY <1>11, <1>14, <2>1, <2>2, <2>4
    <2>6. QED
      BY <1>10, <2>1, <2>2, <2>3, <2>5 DEF StartInv
  <1>15. CASE op = "add_check"
    <2>1. roleCheck' = Roles /\ UNCHANGED <<tables, triggers, rows, accounts, stops, exposed>>
      BY <1>5, <1>15 DEF Writes, At
    <2>2. TypeOK'
      BY <1>1, <1>6, <2>1 DEF TypeOK
    <2>3. Done'
      BY <1>1, <1>2, <1>7, <1>15, <2>1, <2>2, DoneKept
    <2>4. Pending' /\ Lagging'
      BY <1>11, <1>15, <2>1, <2>2, RoleChecks
    <2>5. QED
      BY <1>10, <2>1, <2>2, <2>3, <2>4 DEF StartInv
  <1>16. CASE op = "drop_trigger"
    <2>1. /\ triggers' = triggers \ {Subject(s)}
          /\ UNCHANGED <<tables, roleCheck, rows, accounts, stops, exposed>>
      BY <1>5, <1>16 DEF Writes, At
    <2>2. TypeOK'
      BY <1>1, <1>6, <2>1 DEF TypeOK
    <2>3. Owed(Stmt("create_trigger", Subject(s)), servers')
      <3>1. /\ servers[s].at + 1 \in 1 .. Len(Script)
            /\ Script[servers[s].at + 1] = Stmt("create_trigger", Script[servers[s].at].of)
        BY <1>5, <1>8, <1>16 DEF Ordered
      <3>2. QED
        BY <1>9, <3>1 DEF Subject
    <2>4. \A t \in Tables \ triggers' :
             \/ t \notin triggers /\ Keeps(Stmt("create_trigger", t), servers, servers')
             \/ Owed(Stmt("create_trigger", t), servers')
      BY <1>2, <1>7, <1>16, <2>1, <2>3
    <2>5. Pending'
      BY <1>1, <1>2, <1>7, <1>16, <2>1, <2>2, <2>4, PendingKept
    <2>6. Lagging'
      BY <1>1, <2>1 DEF Lagging
    <2>7. QED
      BY <1>12, <1>16, <2>1, <2>2, <2>5, <2>6 DEF StartInv
  <1>17. CASE op = "create_trigger"
    <2>1. /\ triggers' = triggers \cup {Subject(s)}
          /\ UNCHANGED <<tables, roleCheck, rows, accounts, stops, exposed>>
      BY <1>5, <1>17 DEF Writes, At
    <2>2. TypeOK'
      BY <1>1, <1>5, <1>6, <1>17, <2>1 DEF TypeOK
    <2>3. \A t \in Tables \ triggers' :
             t \notin triggers /\ Keeps(Stmt("create_trigger", t), servers, servers')
      <3> SUFFICES ASSUME NEW t \in Tables, t # Subject(s)
                   PROVE  Keeps(Stmt("create_trigger", t), servers, servers')
        BY <2>1
      <3>1. Script[servers[s].at] # Stmt("create_trigger", t)
        BY <1>5 DEF Stmt
      <3>2. QED
        BY <1>1, <1>2, <1>5, <3>1, AdvanceKeeps
    <2>4. Pending'
      BY <1>1, <1>2, <1>7, <1>17, <2>1, <2>2, <2>3, PendingKept
    <2>5. Lagging'
      BY <1>1, <2>1 DEF Lagging
    <2>6. QED
      BY <1>12, <1>17, <2>1, <2>2, <2>4, <2>5 DEF StartInv
  <1>18. CASE op = "fill_column"
    <2>1. /\ Filled(Subject(s))
          /\ UNCHANGED <<tables, roleCheck, triggers, accounts, stops, exposed>>
      BY <1>5, <1>18 DEF Writes, At
    <2>2. PICK table \in Tables : table = Subject(s)
      BY <1>5, <1>18
    <2>3. /\ rows' \in [Tables -> Row]
          /\ \A o \in Tables \ {table} : rows'[o] = rows[o]
          /\ rows'[table].geojson = rows[table].geojson
          /\ rows'[table].geom = IF rows[table].geom = 0 THEN rows[table].geojson ELSE rows[table].geom
      BY <2>1, <2>2 DEF Filled
    <2>4. TypeOK'
      BY <1>1, <1>6, <2>1, <2>3 DEF TypeOK
    <2>5. ASSUME rows'[table].geom = 0
          PROVE  rows'[table] = NoRow
      <3>1. rows[table].geojson = 0
        BY <2>3, <2>5
      <3>2. rows'[table] \in [geojson : 0 .. MaxVersion, geom : 0 .. MaxVersion]
        BY <2>3 DEF Row
      <3>3. QED
        BY <2>3, <2>5, <3>1, <3>2 DEF NoRow
    <2>6. \A t \in Tables : rows'[t] # NoRow /\ rows'[t].geom = 0 =>
             /\ rows[t] # NoRow /\ rows[t].geom = 0
             /\ Keeps(Stmt("fill_column", t), servers, servers')
      <3> SUFFICES ASSUME NEW t \in Tables, rows'[t] # NoRow /\ rows'[t].geom = 0
                   PROVE  /\ rows[t] # NoRow /\ rows[t].geom = 0
                          /\ Keeps(Stmt("fill_column", t), servers, servers')
        OBVIOUS
      <3>1. t # table /\ rows'[t] = rows[t]
        BY <2>3, <2>5
      <3>2. Script[servers[s].at] # Stmt("fill_column", t)
        BY <1>5, <2>2, <3>1 DEF Stmt
      <3>3. Keeps(Stmt("fill_column", t), servers, servers')
        BY <1>1, <1>2, <1>5, <3>2, AdvanceKeeps
      <3>4. QED
        BY <3>1, <3>3
    <2>7. Pending'
      BY <1>1, <1>2, <1>7, <1>18, <2>1, <2>4, <2>6, PendingKept
    <2>8. Lagging'
      BY <1>1, <2>1, <2>3 DEF Lagging
    <2>9. QED
      BY <1>12, <1>18, <2>1, <2>4, <2>7, <2>8 DEF StartInv
  <1>19. CASE op = "create_account"
    <2>1. /\ Seeded(Subject(s))
          /\ UNCHANGED <<tables, roleCheck, triggers, rows, stops, exposed>>
      BY <1>5, <1>19 DEF Writes, At
    <2>2. /\ accounts' \in [Accounts -> {"none", "active", "inactive"}]
          /\ \A u \in Accounts : accounts[u] # "none" => accounts'[u] # "none"
          /\ accounts'[Subject(s)] # "none"
      BY <2>1 DEF Seeded
    <2>3. TypeOK'
      BY <1>1, <1>6, <2>1, <2>2 DEF TypeOK
    <2>4. \A u \in Accounts :
             Keeps(Stmt("create_account", u), servers, servers') \/ accounts'[u] # "none"
      <3> SUFFICES ASSUME NEW u \in Accounts, u # Subject(s)
                   PROVE  Keeps(Stmt("create_account", u), servers, servers')
        BY <2>2
      <3>1. Script[servers[s].at] # Stmt("create_account", u)
        BY <1>5 DEF Stmt
      <3>2. QED
        BY <1>1, <1>2, <1>5, <3>1, AdvanceKeeps
    <2>5. Done'
      BY <1>1, <1>2, <1>7, <1>19, <2>1, <2>2, <2>3, <2>4, DoneKept
    <2>6. Pending' /\ Lagging'
      BY <1>2, <1>7, <1>11, <1>19, <2>1, <2>3
    <2>7. QED
      BY <1>10, <2>1, <2>2, <2>3, <2>5, <2>6 DEF StartInv
  <1>20. QED
    BY <1>13, <1>14, <1>15, <1>16, <1>17, <1>18, <1>19

\* A handler's write: without a trigger, the row's column is still to be filled.
LEMMA ServingWrite ==
    ASSUME StartInv, NEW s \in Servers, NEW t \in Tables, Write(s, t)
    PROVE  StartInv'
  <1>1. TypeOK /\ Starters /\ Done /\ Pending /\ Lagging
    BY DEF StartInv
  <1>2. UNCHANGED <<tables, roleCheck, triggers, accounts, servers, failed, stops>>
    BY DEF Write
  <1>3. /\ rows \in [Tables -> [geojson : 0 .. MaxVersion, geom : 0 .. MaxVersion]]
        /\ rows[t].geojson < MaxVersion /\ MaxVersion \in Nat
    BY <1>1, StartAssumption DEF TypeOK, Row, Write
  <1>4. PICK written \in [geojson : 0 .. MaxVersion, geom : 0 .. MaxVersion] :
           /\ written.geojson = rows[t].geojson + 1
           /\ written.geom = IF t \in triggers THEN rows[t].geojson + 1 ELSE rows[t].geom
           /\ rows' = [rows EXCEPT ![t] = written]
    <2> DEFINE geojson == rows[t].geojson + 1
               geom == IF t \in triggers THEN geojson ELSE rows[t].geom
               written == [geojson |-> geojson, geom |-> geom]
    <2>1. geojson \in 0 .. MaxVersion /\ geom \in 0 .. MaxVersion
      BY <1>3
    <2>2. [[rows[t] EXCEPT !.geojson = @ + 1] EXCEPT !.geom = geom] = written
      <3>1. PICK row \in [geojson : Nat, geom : Nat] : row = rows[t]
        BY <1>3
      <3>2. [row EXCEPT !.geojson = @ + 1] = [geojson |-> row.geojson + 1, geom |-> row.geom]
        BY <3>1
      <3>3. \A g : [[geojson |-> row.geojson + 1, geom |-> row.geom] EXCEPT !.geom = g]
                      = [geojson |-> row.geojson + 1, geom |-> g]
        OBVIOUS
      <3> HIDE DEF geom
      <3>4. QED
        BY <3>1, <3>2, <3>3
    <2>3. [rows[t] EXCEPT !.geojson = @ + 1].geojson = geojson
          /\ [rows[t] EXCEPT !.geojson = @ + 1].geom = rows[t].geom
      BY <1>3
    <2>4. Synced(t, [rows[t] EXCEPT !.geojson = @ + 1]) = geom
      BY <2>3 DEF Synced
    <2>5. rows' = [rows EXCEPT ![t] = [[rows[t] EXCEPT !.geojson = @ + 1] EXCEPT !.geom = geom]]
      BY <2>4 DEF Write
    <2>6. rows' = [rows EXCEPT ![t] = written]
      BY <2>2, <2>5
    <2>7. QED
      BY <2>1, <2>6
  <1>5. /\ rows' \in [Tables -> [geojson : 0 .. MaxVersion, geom : 0 .. MaxVersion]]
        /\ \A o \in Tables \ {t} : rows'[o] = rows[o]
        /\ rows'[t].geojson = rows[t].geojson + 1
        /\ rows'[t].geom = IF t \in triggers THEN rows[t].geojson + 1 ELSE rows[t].geom
    <2>1. rows'[t] = written /\ \A o \in Tables \ {t} : rows'[o] = rows[o]
      BY <1>3, <1>4
    <2>2. QED
      BY <1>3, <1>4, <2>1
  <1>6. /\ exposed \subseteq exposed' /\ exposed' \subseteq exposed \cup {t}
        /\ rows[t] # NoRow /\ t \notin triggers => t \in exposed'
    BY DEF Write
  <1>7. TypeOK'
    BY <1>1, <1>2, <1>5, <1>6 DEF TypeOK, Row
  <1>8. Starters'
    BY <1>1, <1>2 DEF Starters, At, Subject
  <1>9. Done'
    BY <1>1, <1>2, <1>7, SameKeeps, DoneKept
  <1>10. Pending'
    <2>1. ASSUME Migrating # {}, t \notin triggers
          PROVE  Owed(Stmt("fill_column", t), servers')
      <3>1. Owed(Stmt("create_trigger", t), servers)
        BY <1>1, <2>1 DEF Pending
      <3>2. PICK o \in Migrating, k \in 1 .. Len(Script) :
               Script[k] = Stmt("create_trigger", t) /\ Position(servers[o]) <= k
        BY <3>1 DEF Owed
      <3>3. PICK i \in 1 .. Len(Script) : k < i /\ Script[i] = Stmt("fill_column", t)
        BY <3>2, ScriptFacts
      <3>4. Position(servers[o]) \in 0 .. Len(Script) + 1
        BY <1>1, StartAssumption, Positions DEF TypeOK
      <3>5. Position(servers[o]) <= i
        BY <3>2, <3>3, <3>4
      <3>6. QED
        BY <1>2, <3>3, <3>5 DEF Owed
    <2>2. ASSUME rows'[t].geom = 0
          PROVE  t \notin triggers
      BY <1>3, <1>5, <2>2
    <2>3. \A o \in Tables : rows'[o] # NoRow /\ rows'[o].geom = 0 =>
             \/ /\ rows[o] # NoRow /\ rows[o].geom = 0
                /\ Keeps(Stmt("fill_column", o), servers, servers')
             \/ Migrating # {} => Owed(Stmt("fill_column", o), servers')
      BY <1>2, <1>5, <2>1, <2>2, SameKeeps
    <2>4. QED
      BY <1>1, <1>2, <1>7, <2>3, SameKeeps, PendingKept
  <1>11. Lagging'
    <2> SUFFICES ASSUME NEW o \in Tables
                 PROVE  /\ rows'[o].geojson = 0 => rows'[o].geom = 0
                        /\ rows'[o].geom \notin {0, rows'[o].geojson} => o \in exposed'
      BY DEF Lagging
    <2>1. CASE o # t
      BY <1>1, <1>5, <1>6, <2>1 DEF Lagging
    <2>2. CASE o = t
      <3>1. rows'[t].geojson # 0
        BY <1>3, <1>5
      <3>2. rows'[t].geom \notin {0, rows'[t].geojson} => t \in exposed'
        <4> SUFFICES ASSUME rows'[t].geom \notin {0, rows'[t].geojson}
                     PROVE  t \in exposed'
          OBVIOUS
        <4>1. t \notin triggers /\ rows[t].geom # 0
          BY <1>5
        <4>2. rows[t] # NoRow
          BY <4>1 DEF NoRow
        <4>3. QED
          BY <1>6, <4>1, <4>2
      <3>3. QED
        BY <2>2, <3>1, <3>2
    <2>3. QED
      BY <2>1, <2>2
  <1>12. QED
    BY <1>7, <1>8, <1>9, <1>10, <1>11 DEF StartInv

LEMMA AccountChange ==
    ASSUME StartInv, NEW u \in Accounts, ChangeAccount(u)
    PROVE  StartInv'
  <1>1. TypeOK /\ Starters /\ Done /\ Pending /\ Lagging
    BY DEF StartInv
  <1>2. /\ UNCHANGED <<tables, roleCheck, triggers, rows, servers, failed, stops, exposed>>
        /\ accounts[u] # "none"
        /\ accounts' = [accounts EXCEPT ![u] = IF accounts[u] = "active" THEN "inactive" ELSE "active"]
    BY DEF ChangeAccount
  <1>3. /\ accounts' \in [Accounts -> {"none", "active", "inactive"}]
        /\ \A o \in Accounts : accounts[o] # "none" => accounts'[o] # "none"
    BY <1>1, <1>2 DEF TypeOK
  <1>4. TypeOK'
    BY <1>1, <1>2, <1>3 DEF TypeOK
  <1>5. Done'
    BY <1>1, <1>2, <1>3, <1>4, SameKeeps, DoneKept
  <1>6. Pending'
    BY <1>1, <1>2, <1>4, SameKeeps, PendingKept
  <1>7. Starters'
    <2> SUFFICES ASSUME NEW s \in Servers, servers[s].phase = "starting"
                 PROVE  /\ s \in Migrating
                        /\ servers[s].found = "all" =>
                              /\ At(s, "create_table") => Subject(s) \in tables
                              /\ At(s, "create_account") => accounts'[Subject(s)] # "none"
      BY <1>2 DEF Starters, At, Subject
    <2>1. At(s, "create_account") => Subject(s) \in Accounts
      BY <1>1, Subjects DEF Ops
    <2>2. QED
      BY <1>1, <1>3, <2>1 DEF Starters
  <1>8. Lagging'
    BY <1>1, <1>2 DEF Lagging
  <1>9. QED
    BY <1>4, <1>5, <1>6, <1>7, <1>8 DEF StartInv

LEMMA StartInvInit == Init => StartInv
  <1> SUFFICES ASSUME Init
               PROVE  StartInv
    OBVIOUS
  <1>1. servers = [s \in Servers |-> Down] /\ triggers = {} /\ exposed = {}
    BY DEF Init
  <1>2. \A s \in Servers : servers[s] = Down /\ servers[s].phase = "down" /\ Position(servers[s]) = 0
    BY <1>1, ServerForms, Positions
  <1>3. /\ tables \subseteq Tables \cup {"users"} /\ roleCheck \in {NoCheck, LegacyRoles, Roles}
        /\ accounts \in [Accounts -> {"none", "active", "inactive"}]
    BY DEF Init
  <1>4. /\ rows \in [Tables -> Row]
        /\ \A t \in Tables : rows[t].geom = 0 \/ rows[t].geom = rows[t].geojson
        /\ \A t \in Tables : rows[t].geojson = 0 => rows[t].geom = 0
    <2>1. rows = [t \in Tables |-> [geojson |-> 0, geom |-> 0]]
          \/ rows = [t \in Tables |-> [geojson |-> 1, geom |-> 0]]
      BY DEF Init, NoRow
    <2>2. QED
      BY <2>1, StartAssumption DEF Row
  <1>5. failed \in [Servers -> 0 .. Patience] /\ stops \in 0 .. MaxStops
    BY StartAssumption DEF Init
  <1>6. servers \in [Servers -> Server]
    BY <1>1, ServerForms
  <1>7. TypeOK
    BY <1>1, <1>3, <1>4, <1>5, <1>6 DEF TypeOK
  <1>8. Starters
    BY <1>2 DEF Starters
  <1>9. \A stmt : ~Passed(stmt, servers)
    BY <1>2, StartAssumption DEF Passed
  <1>10. ASSUME Migrating # {}, NEW stmt, Contains(stmt)
         PROVE  Owed(stmt, servers)
    BY <1>2, <1>10, StartAssumption DEF Owed, Contains
  <1>11. Pending
    BY <1>10, ScriptFacts DEF Pending
  <1>12. Done
    BY <1>9 DEF Done
  <1>13. Lagging
    BY <1>4 DEF Lagging
  <1>14. QED
    BY <1>7, <1>8, <1>11, <1>12, <1>13 DEF StartInv

LEMMA StartInvStep == StartInv /\ [Next]_vars => StartInv'
  <1> SUFFICES ASSUME StartInv, [Next]_vars
               PROVE  StartInv'
    OBVIOUS
  <1>1. TypeOK /\ Starters
    BY DEF StartInv
  <1>2. ASSUME NEW s \in Servers, Start(s)
        PROVE  StartInv'
    BY <1>2, StartStep
  <1>3. ASSUME NEW s \in Servers, Statement(s)
        PROVE  StartInv'
    <2>1. CASE Exit(s)
      <3>1. GoDown(s) /\ UNCHANGED <<tables, roleCheck, triggers, rows, accounts, stops, exposed>>
        BY <2>1 DEF Exit, db
      <3>2. stops' \in 0 .. MaxStops
        BY <1>1, <3>1 DEF TypeOK
      <3>3. QED
        BY <3>1, <3>2, ExitStep
    <2>2. CASE \E found \in Findings : Advance(s, found) /\ Looks(s, found)
      BY <2>2, LookStep
    <2>3. CASE Advance(s, "none") /\ Writes(s)
      BY <2>3, WriteStep
    <2>4. QED
      BY <1>1, <1>3, <2>1, <2>2, <2>3, StatementEffects
  <1>4. ASSUME NEW s \in Servers, Stop(s)
        PROVE  StartInv'
    <2>1. /\ GoDown(s) /\ UNCHANGED <<tables, roleCheck, triggers, rows, accounts, exposed>>
          /\ stops < MaxStops /\ stops' = stops + 1
      BY <1>4 DEF Stop, db
    <2>2. stops' \in 0 .. MaxStops
      BY <1>1, <2>1, StartAssumption DEF TypeOK
    <2>3. QED
      BY <2>1, <2>2, ExitStep
  <1>5. ASSUME NEW s \in Servers, NEW t \in Tables, Write(s, t)
        PROVE  StartInv'
    BY <1>5, ServingWrite
  <1>6. ASSUME NEW u \in Accounts, ChangeAccount(u)
        PROVE  StartInv'
    BY <1>6, AccountChange
  <1>7. ASSUME UNCHANGED vars
        PROVE  StartInv'
    <2>1. UNCHANGED <<tables, roleCheck, triggers, rows, accounts, servers, failed, stops, exposed>>
      BY <1>7 DEF vars, db
    <2>2. TypeOK'
      BY <1>1, <2>1 DEF TypeOK
    <2>3. Starters'
      BY <1>1, <2>1 DEF Starters, At, Subject
    <2>4. QED
      BY <2>1, <2>2, <2>3, SameKeeps, QuietStep
  <1>8. QED
    BY <1>2, <1>3, <1>4, <1>5, <1>6, <1>7 DEF Next

LEMMA StartInvHolds == Spec => []StartInv
  <1>1. QED
    BY StartInvInit, StartInvStep, PTL DEF Spec

\* Every variable of the starts keeps to its type; in particular no process runs a
\* statement the script does not have (MigrateAndSeed).
THEOREM TypeCorrect == Spec => []TypeOK
  <1>1. StartInv => TypeOK
    BY DEF StartInv
  <1>2. QED
    BY <1>1, StartInvHolds, PTL

LEMMA Complete == StartInv => SettledIsComplete
  <1> SUFFICES ASSUME StartInv, NEW m \in Migrating, \A s \in Servers : servers[s] = Serving
               PROVE  /\ tables = Tables \cup {"users"}
                      /\ roleCheck = Roles
                      /\ triggers = Tables
                      /\ \A u \in Accounts : accounts[u] # "none"
                      /\ \A t \in Tables : rows[t] # NoRow =>
                            rows[t].geom # 0 /\ (t \notin exposed => rows[t].geom = rows[t].geojson)
    BY DEF SettledIsComplete
  <1>1. TypeOK /\ Done /\ Pending /\ Lagging
    BY DEF StartInv
  <1>2. \A s \in Migrating : Position(servers[s]) = Len(Script) + 1
    BY StartAssumption, Positions
  <1>3. Len(Script) \in Nat
    BY ScriptFacts
  <1>4. \A stmt : Contains(stmt) => Passed(stmt, servers)
    BY <1>2, <1>3 DEF Contains, Passed
  <1>5. \A stmt : ~Owed(stmt, servers)
    BY <1>2, <1>3 DEF Owed
  <1>6. \A t \in Tables \cup {"users"} : t \in tables
    BY <1>1, <1>4, ScriptFacts DEF Done
  <1>7. \A u \in Accounts : accounts[u] # "none"
    BY <1>1, <1>4, ScriptFacts DEF Done
  <1>8. roleCheck = Roles
    BY <1>1, <1>4, <1>5, ScriptFacts DEF Done, Pending
  <1>9. triggers = Tables
    BY <1>1, <1>5 DEF TypeOK, Pending
  <1>10. \A t \in Tables : rows[t] # NoRow => rows[t].geom # 0
    BY <1>1, <1>5 DEF Pending
  <1>11. \A t \in Tables : rows[t].geom # 0 /\ t \notin exposed => rows[t].geom = rows[t].geojson
    BY <1>1 DEF Lagging
  <1>12. tables = Tables \cup {"users"}
    BY <1>1, <1>6 DEF TypeOK
  <1>13. QED
    BY <1>7, <1>8, <1>9, <1>10, <1>11, <1>12

\* Once all servers serve and one of them has migrated, tables, role check, triggers and
\* accounts are there, and every row has its spatial column, of its current GeoJSON unless
\* it was updated while its trigger was dropped: whatever starts have failed or been cut
\* short on the way (MigrateAndSeed, migratePostGIS).
THEOREM SettledStartsAreComplete == Spec => []SettledIsComplete
  <1>1. QED
    BY Complete, StartInvHolds, PTL

LEMMA StartStepKeepsAccounts ==
    StartInv /\ [Next]_vars =>
        [ servers' # servers =>
              \A u \in Accounts : accounts[u] # "none" => accounts'[u] = accounts[u] ]_vars
  <1> SUFFICES ASSUME StartInv, [Next]_vars, servers' # servers
               PROVE  \A u \in Accounts : accounts[u] # "none" => accounts'[u] = accounts[u]
    OBVIOUS
  <1>1. TypeOK /\ Starters
    BY DEF StartInv
  <1>2. ASSUME NEW s \in Servers, Start(s) \/ Stop(s) \/ Exit(s)
        PROVE  accounts' = accounts
    BY <1>2 DEF Start, Stop, Exit, db
  <1>3. ASSUME NEW s \in Servers, Statement(s), ~Exit(s)
        PROVE  \A u \in Accounts : accounts[u] # "none" => accounts'[u] = accounts[u]
    <2>1. (\E found \in Findings : Looks(s, found)) \/ Writes(s)
      BY <1>1, <1>3, StatementEffects
    <2>2. accounts' = accounts \/ Seeded(Subject(s))
      BY <2>1 DEF Looks, Writes
    <2>3. QED
      BY <2>2 DEF Seeded
  <1>4. ~(\E s \in Servers, t \in Tables : Write(s, t)) /\ ~(\E u \in Accounts : ChangeAccount(u))
    BY DEF Write, ChangeAccount
  <1>5. vars' # vars
    BY DEF vars
  <1>6. QED
    BY <1>2, <1>3, <1>4, <1>5 DEF Next

\* No step of a start, its failure or its end changes an account that is there: seeding
\* does not bring back one that an administrator has deactivated (MigrateAndSeed).
THEOREM StartsKeepAccounts == Spec => StartKeepsAccounts
  <1>1. QED
    BY StartInvHolds, StartStepKeepsAccounts, PTL DEF Spec, StartKeepsAccounts
=============================================================================
