----------------------------- MODULE MemoryProofs -----------------------------
(***************************************************************************)
(* The page pool and the stage-2 tables, for every size of the pool, of a  *)
(* table and of a VM's memory, every device window and any number of VMs:  *)
(* no page has two users, the counters are right, the device window traps, *)
(* and the three levels of tables are one flat map per VM.                 *)
(***************************************************************************)
EXTENDS Memory, FiniteSetTheorems, TLAPS

-----------------------------------------------------------------------------
\* Arithmetic: the three indices of a page determine it.

Level == {1, 2, 3}

LEMMA Sizes ==
  /\ PAGE_NR \in Nat /\ PAGE_NR > 0 /\ PTRS \in Nat /\ PTRS > 0 /\ VA_NR \in Nat
  /\ VA_NR <= PTRS * PTRS * PTRS
  /\ WINDOW \in Nat /\ WINDOW >= 1 /\ WINDOW <= WINDOW_END
  /\ WINDOW_END \in Nat /\ WINDOW_END <= VA_NR
  /\ SLOTS \in Nat /\ INITIAL_GUESTS \in Nat /\ INITIAL_GUESTS <= SLOTS
  /\ MAX_IMAGE \in Nat /\ MAX_IMAGE >= 1 /\ MAX_IMAGE < WINDOW
BY MemoryAssumption

LEMMA Entries ==
  /\ None \notin Page /\ Trap \notin Page /\ None # Trap /\ 0 \in Page
  /\ Entry = Page \cup {None, Trap}
BY Sizes DEF Page, None, Trap, Entry

LEMMA Division ==
  ASSUME NEW n \in Nat
  PROVE  /\ n \div PTRS \in Nat /\ n % PTRS \in 0 .. PTRS - 1
         /\ n = PTRS * (n \div PTRS) + (n % PTRS)
BY Sizes

LEMMA QuotientIsUnique ==
  ASSUME NEW d \in Nat, d > 0, NEW q \in Nat, NEW r \in Nat, r < d, NEW n \in Nat,
         n = d * q + r
  PROVE  n \div d = q
OBVIOUS

LEMMA SmallRemainder ==
  ASSUME NEW n \in 0 .. PTRS - 1
  PROVE  n % PTRS = n
BY Sizes

LEMMA TimesMonotone ==
  ASSUME NEW x \in Nat, NEW y \in Nat, x <= y
  PROVE  /\ PTRS * x \in Nat /\ PTRS * y \in Nat
         /\ PTRS * x <= PTRS * y
BY Sizes

LEMMA IndexInTable ==
  ASSUME NEW va \in Va, NEW level \in Level
  PROVE  Index(va, level) \in 0 .. PTRS - 1
<1>1. va \in Nat
  BY DEF Va
<1>2. PTRS * PTRS \in Nat /\ PTRS * PTRS > 0
  BY Sizes
<1>3. va \div (PTRS * PTRS) \in Nat /\ va \div PTRS \in Nat
  BY <1>1, <1>2, Sizes
<1>4. \A n \in Nat : n % PTRS \in 0 .. PTRS - 1
  BY Division
<1> QED
  BY <1>1, <1>3, <1>4 DEF Index, Level

\* The indices are the digits of a page's number.
LEMMA IndexDigits ==
  ASSUME NEW va \in Va
  PROVE  va = PTRS * (PTRS * Index(va, 1) + Index(va, 2)) + Index(va, 3)
<1> DEFINE q == va \div PTRS
           a == q \div PTRS
           b == q % PTRS
           c == va % PTRS
<1>1. va \in Nat /\ va < PTRS * PTRS * PTRS
  BY Sizes DEF Va
<1>2. q \in Nat /\ c \in 0 .. PTRS - 1 /\ va = PTRS * q + c
  BY <1>1, Division
<1>3. a \in Nat /\ b \in 0 .. PTRS - 1 /\ q = PTRS * a + b
  BY <1>2, Division
<1> HIDE DEF a, b, c
<1>4. va \div (PTRS * PTRS) = a
  <2> DEFINE r == PTRS * b + c
  <2>1. PTRS - 1 \in Nat /\ b \in Nat /\ b <= PTRS - 1
    BY <1>3, Sizes
  <2>2. PTRS * b \in Nat /\ PTRS * b <= PTRS * (PTRS - 1)
    BY <2>1, TimesMonotone
  <2>3. PTRS * (PTRS - 1) = PTRS * PTRS - PTRS /\ PTRS * PTRS \in Nat
    BY Sizes
  <2>4. r \in Nat /\ r < PTRS * PTRS
    BY <1>2, <2>2, <2>3, Sizes
  <2>5. va = (PTRS * PTRS) * a + r
    <3>1. PTRS * q = PTRS * (PTRS * a) + PTRS * b
      BY <1>2, <1>3, <2>1, Sizes
    <3>2. PTRS * (PTRS * a) = (PTRS * PTRS) * a
      BY <1>3, Sizes
    <3> HIDE DEF q
    <3> QED
      BY <1>2, <1>3, <3>1, <3>2, <2>2, <2>3, Sizes
  <2>6. PTRS * PTRS > 0
    BY Sizes
  <2> HIDE DEF r
  <2> QED
    BY <1>1, <1>3, <2>3, <2>4, <2>5, <2>6, QuotientIsUnique
<1> HIDE DEF q
<1>5. a < PTRS
  <2>1. SUFFICES ASSUME PTRS <= a
                 PROVE  FALSE
    BY <1>3, Sizes
  <2>2. PTRS * PTRS \in Nat /\ PTRS * PTRS <= PTRS * a /\ PTRS * a \in Nat
    BY <1>3, <2>1, TimesMonotone, Sizes
  <2>3. PTRS * PTRS <= q
    BY <1>2, <1>3, <2>2, Sizes
  <2>4. /\ PTRS * (PTRS * PTRS) \in Nat /\ PTRS * q \in Nat
        /\ PTRS * (PTRS * PTRS) <= PTRS * q
    BY <1>2, <2>2, <2>3, TimesMonotone
  <2>5. PTRS * (PTRS * PTRS) = PTRS * PTRS * PTRS
    BY Sizes
  <2> QED
    BY <1>1, <1>2, <2>4, <2>5, Sizes
<1>6. a % PTRS = a
  BY <1>3, <1>5, SmallRemainder, Sizes
<1>7. Index(va, 1) = a /\ Index(va, 2) = b /\ Index(va, 3) = c
  BY <1>4, <1>6 DEF Index, q, b, c
<1> QED
  BY <1>2, <1>3, <1>7

LEMMA IndexInjective ==
  ASSUME NEW v \in Va, NEW w \in Va,
         \A level \in Level : Index(v, level) = Index(w, level)
  PROVE  v = w
BY IndexDigits DEF Level

-----------------------------------------------------------------------------
\* The uses of a page, one kind at a time.

TableIndex == 0 .. PTRS - 1
TaskUse(t, part) == <<tsk[t][part], "task", <<t, part>> >>
TableUse(q, i) == <<content[q][i], "table", <<q, i>> >>
MemoryUse(t, va) == <<Leaf(t, va), "memory", <<t, va>> >>
OpUse == <<IF At("map") THEN op.page ELSE None, "op", <<op.t, op.va>> >>

UsesSplit ==
  \A u : u \in Uses <=>
          /\ u[1] \in Page
          /\ \/ \E t \in Guest, part \in Part : u = TaskUse(t, part)
             \/ \E q \in Uppers, i \in TableIndex : u = TableUse(q, i)
             \/ \E t \in Guest, va \in Va : <<t, va>> \notin tails /\ u = MemoryUse(t, va)
             \/ u = OpUse

LEMMA UsesAre == UsesSplit
<1> SUFFICES ASSUME NEW u PROVE UsesSplit!(u)
  BY DEF UsesSplit
<1> DEFINE task == {<<tsk[x[1]][x[2]], "task", x>> : x \in Guest \X Part}
           table == {<<content[x[1]][x[2]], "table", x>> : x \in Uppers \X TableIndex}
           memory == {<<Leaf(x[1], x[2]), "memory", x>> : x \in (Guest \X Va) \ tails}
<1>1. u \in task <=> \E t \in Guest, part \in Part : u = TaskUse(t, part)
  <2>1. ASSUME NEW t \in Guest, NEW part \in Part, u = TaskUse(t, part)
        PROVE  u \in task
    <3>1. <<t, part>> \in Guest \X Part
      OBVIOUS
    <3> QED
      BY <2>1, <3>1 DEF TaskUse
  <2>2. ASSUME u \in task
        PROVE  \E t \in Guest, part \in Part : u = TaskUse(t, part)
    <3>1. PICK x \in Guest \X Part : u = <<tsk[x[1]][x[2]], "task", x>>
      BY <2>2
    <3>2. x[1] \in Guest /\ x[2] \in Part /\ x = <<x[1], x[2]>>
      OBVIOUS
    <3> QED
      BY <3>1, <3>2 DEF TaskUse
  <2> QED
    BY <2>1, <2>2
<1>2. u \in table <=> \E q \in Uppers, i \in TableIndex : u = TableUse(q, i)
  <2>1. ASSUME NEW q \in Uppers, NEW i \in TableIndex, u = TableUse(q, i)
        PROVE  u \in table
    <3>1. <<q, i>> \in Uppers \X TableIndex
      OBVIOUS
    <3> QED
      BY <2>1, <3>1 DEF TableUse
  <2>2. ASSUME u \in table
        PROVE  \E q \in Uppers, i \in TableIndex : u = TableUse(q, i)
    <3>1. PICK x \in Uppers \X TableIndex : u = <<content[x[1]][x[2]], "table", x>>
      BY <2>2
    <3>2. x[1] \in Uppers /\ x[2] \in TableIndex /\ x = <<x[1], x[2]>>
      OBVIOUS
    <3> QED
      BY <3>1, <3>2 DEF TableUse
  <2> QED
    BY <2>1, <2>2
<1>3. u \in memory <=>
        \E t \in Guest, va \in Va : <<t, va>> \notin tails /\ u = MemoryUse(t, va)
  <2>1. ASSUME NEW t \in Guest, NEW va \in Va, <<t, va>> \notin tails, u = MemoryUse(t, va)
        PROVE  u \in memory
    <3>1. <<t, va>> \in (Guest \X Va) \ tails
      BY <2>1
    <3> QED
      BY <2>1, <3>1 DEF MemoryUse
  <2>2. ASSUME u \in memory
        PROVE  \E t \in Guest, va \in Va : <<t, va>> \notin tails /\ u = MemoryUse(t, va)
    <3>1. PICK x \in (Guest \X Va) \ tails : u = <<Leaf(x[1], x[2]), "memory", x>>
      BY <2>2
    <3>2. x[1] \in Guest /\ x[2] \in Va /\ x = <<x[1], x[2]>>
      OBVIOUS
    <3> QED
      BY <3>1, <3>2 DEF MemoryUse
  <2> QED
    BY <2>1, <2>2
<1>4. u \in Uses <=> u[1] \in Page /\ (u \in task \/ u \in table \/ u \in memory \/ u = OpUse)
  BY DEF Uses, OpUse, TableIndex
<1> QED
  BY <1>1, <1>2, <1>3, <1>4

-----------------------------------------------------------------------------
Stage ==
  {"idle", "struct", "board", "window", "in_fifo", "out_fifo", "page", "map", "read"}

Operation ==
  [stage : Stage, t : Guest \cup {0}, va : 0 .. VA_NR, page : Page \cup {None}]

\* The state is a pool and tables: what the actions read is in range.
Types ==
  /\ memap \in [Page -> {0, 1}] /\ last_page_id \in Page
  /\ content \in [Page -> [TableIndex -> Entry]]
  /\ tsk \in [Guest -> [Part -> Page \cup {None}]]
  /\ user_pages_count \in [Guest -> Nat] /\ kernel_pages_count \in [Guest -> Nat]
  /\ vm \in [Guest -> {"none", "created", "loaded", "dead"}]
  /\ bl_args \in Image \cup {0}
  /\ wanted \in [Guest -> Image \cup {0}] /\ image \in [Guest -> Image \cup {0}]
  /\ tails \subseteq Guest \X Va
  /\ op \in Operation

\* No page has two uses.
Injective == \A u, v \in Uses : u[1] = v[1] => u = v

\* A page in use is marked.
AllMarked == \A u \in Uses : memap[u[1]] = 1

\* The tables of the first two levels hold tables only.
UppersPoint == \A q \in Uppers : \A i \in TableIndex : content[q][i] \in Page \cup {None}

Owned == Injective /\ AllMarked /\ UppersPoint

\* The table of each level is hooked in where the one above points to it.
Levelled ==
  \A t \in Guest :
    /\ Lv1(t) \in Page \cup {None}
    /\ Lv1(t) # None => Lv1(t) \in Uppers /\ TaskUse(t, "first_table") \in Uses
    /\ \A va \in Va :
         /\ Lv2(t, va) \in Page \cup {None}
         /\ Lv2(t, va) # None => /\ Lv1(t) # None /\ Lv2(t, va) \in Uppers
                                /\ Lv2(t, va) = content[Lv1(t)][Index(va, 1)]
                                /\ TableUse(Lv1(t), Index(va, 1)) \in Uses
         /\ Lv3(t, va) \in Page \cup {None}
         /\ Lv3(t, va) # None => /\ Lv2(t, va) # None
                                /\ Lv3(t, va) = content[Lv2(t, va)][Index(va, 2)]
                                /\ TableUse(Lv2(t, va), Index(va, 2)) \in Uses
         /\ Leaf(t, va) \in Entry
         /\ Leaf(t, va) # None => /\ Lv3(t, va) # None
                                 /\ Leaf(t, va) = content[Lv3(t, va)][Index(va, 3)]

LEMMA LevelledAlways == Types /\ UppersPoint => Levelled
<1> SUFFICES ASSUME Types, UppersPoint, NEW t \in Guest
             PROVE  Levelled!(t)
  BY DEF Levelled
<1>1. Lv1(t) \in Page \cup {None} /\ Lv1(t) = tsk[t]["first_table"] /\ "first_table" \in Part
  BY DEF Types, Lv1, Part
<1>2. Lv1(t) # None => Lv1(t) \in Uppers /\ TaskUse(t, "first_table") \in Uses
  <2> SUFFICES ASSUME Lv1(t) # None
               PROVE  Lv1(t) \in Uppers /\ TaskUse(t, "first_table") \in Uses
    OBVIOUS
  <2>1. Lv1(t) \in Uppers
    BY DEF Uppers
  <2>2. TaskUse(t, "first_table")[1] \in Page
    BY <1>1 DEF TaskUse
  <2> QED
    BY <1>1, <2>1, <2>2, UsesAre DEF UsesSplit
<1>3. ASSUME NEW va \in Va
      PROVE  Levelled!(t)!3!(va)
  <2>0. Index(va, 1) \in TableIndex /\ Index(va, 2) \in TableIndex /\ Index(va, 3) \in TableIndex
    BY IndexInTable DEF Level, TableIndex
  <2>1. Lv2(t, va) \in Page \cup {None}
    BY <1>1, <1>2, <2>0 DEF Lv2, Below, UppersPoint
  <2>2. ASSUME Lv2(t, va) # None
        PROVE  /\ Lv1(t) # None /\ Lv2(t, va) \in Uppers
               /\ Lv2(t, va) = content[Lv1(t)][Index(va, 1)]
               /\ TableUse(Lv1(t), Index(va, 1)) \in Uses
    <3>1. Lv1(t) # None /\ Lv2(t, va) = content[Lv1(t)][Index(va, 1)]
      BY <2>2 DEF Lv2, Below
    <3>2. Lv2(t, va) \in Uppers
      BY <2>2 DEF Uppers
    <3>3. TableUse(Lv1(t), Index(va, 1))[1] \in Page
      BY <2>1, <2>2, <3>1 DEF TableUse
    <3> QED
      BY <1>2, <2>0, <3>1, <3>2, <3>3, UsesAre DEF UsesSplit
  <2>3. Lv3(t, va) \in Page \cup {None}
    BY <2>0, <2>2 DEF Lv3, Below, UppersPoint
  <2>4. ASSUME Lv3(t, va) # None
        PROVE  /\ Lv2(t, va) # None
               /\ Lv3(t, va) = content[Lv2(t, va)][Index(va, 2)]
               /\ TableUse(Lv2(t, va), Index(va, 2)) \in Uses
    <3>1. Lv2(t, va) # None /\ Lv3(t, va) = content[Lv2(t, va)][Index(va, 2)]
      BY <2>4 DEF Lv3, Below
    <3>2. TableUse(Lv2(t, va), Index(va, 2))[1] \in Page
      BY <2>3, <2>4, <3>1 DEF TableUse
    <3> QED
      BY <2>0, <2>2, <3>1, <3>2, UsesAre DEF UsesSplit
  <2>5. Leaf(t, va) \in Entry
    BY <2>0, <2>3 DEF Leaf, Below, Types, Entry
  <2>6. Leaf(t, va) # None => /\ Lv3(t, va) # None
                             /\ Leaf(t, va) = content[Lv3(t, va)][Index(va, 3)]
    BY DEF Leaf, Below
  <2> QED
    BY <2>1, <2>2, <2>3, <2>4, <2>5, <2>6
<1> QED
  BY <1>1, <1>2, <1>3

\* A table of one level of one VM is no other's, and no table of another level.
Separate ==
  \A t, u \in Guest :
    /\ Lv1(t) # None /\ Lv1(t) = Lv1(u) => t = u
    /\ \A v, w \in Va :
         /\ Lv2(t, v) # None /\ Lv2(t, v) = Lv2(u, w) =>
              t = u /\ Index(v, 1) = Index(w, 1)
         /\ Lv3(t, v) # None /\ Lv3(t, v) = Lv3(u, w) =>
              t = u /\ Index(v, 1) = Index(w, 1) /\ Index(v, 2) = Index(w, 2)
         /\ Lv2(t, v) # None => Lv2(t, v) # Lv1(u)
         /\ Lv3(t, v) # None => Lv3(t, v) # Lv1(u) /\ Lv3(t, v) # Lv2(u, w)

LEMMA SeparateAlways == Types /\ UppersPoint /\ Injective => Separate
<1> SUFFICES ASSUME Types, UppersPoint, Injective, NEW t \in Guest, NEW u \in Guest
             PROVE  Separate!(t, u)
  BY DEF Separate
<1>0. Levelled
  BY LevelledAlways
<1>1. ASSUME Lv1(t) # None, Lv1(t) = Lv1(u)
      PROVE  t = u
  <2>1. TaskUse(t, "first_table") \in Uses /\ TaskUse(u, "first_table") \in Uses
    BY <1>0, <1>1 DEF Levelled
  <2>2. TaskUse(t, "first_table") = TaskUse(u, "first_table")
    BY <1>1, <2>1 DEF Injective, TaskUse, Lv1
  <2> QED
    BY <2>2 DEF TaskUse
<1>2. ASSUME NEW v \in Va, NEW w \in Va
      PROVE  Separate!(t, u)!2!(v, w)
  <2>1. ASSUME Lv2(t, v) # None, Lv2(t, v) = Lv2(u, w)
        PROVE  t = u /\ Index(v, 1) = Index(w, 1)
    <3>1. /\ TableUse(Lv1(t), Index(v, 1)) \in Uses /\ TableUse(Lv1(u), Index(w, 1)) \in Uses
          /\ Lv1(t) # None
          /\ TableUse(Lv1(t), Index(v, 1))[1] = TableUse(Lv1(u), Index(w, 1))[1]
      BY <1>0, <2>1 DEF Levelled, TableUse
    <3>2. TableUse(Lv1(t), Index(v, 1)) = TableUse(Lv1(u), Index(w, 1))
      BY <3>1 DEF Injective
    <3>3. Lv1(t) = Lv1(u) /\ Index(v, 1) = Index(w, 1)
      BY <3>2 DEF TableUse
    <3> QED
      BY <1>1, <3>1, <3>3
  <2>2. ASSUME Lv3(t, v) # None, Lv3(t, v) = Lv3(u, w)
        PROVE  t = u /\ Index(v, 1) = Index(w, 1) /\ Index(v, 2) = Index(w, 2)
    <3>1. /\ TableUse(Lv2(t, v), Index(v, 2)) \in Uses
          /\ TableUse(Lv2(u, w), Index(w, 2)) \in Uses
          /\ Lv2(t, v) # None
          /\ TableUse(Lv2(t, v), Index(v, 2))[1] = TableUse(Lv2(u, w), Index(w, 2))[1]
      BY <1>0, <2>2 DEF Levelled, TableUse
    <3>2. TableUse(Lv2(t, v), Index(v, 2)) = TableUse(Lv2(u, w), Index(w, 2))
      BY <3>1 DEF Injective
    <3>3. Lv2(t, v) = Lv2(u, w) /\ Index(v, 2) = Index(w, 2)
      BY <3>2 DEF TableUse
    <3> QED
      BY <2>1, <3>1, <3>3
  <2>3. ASSUME NEW q \in {Lv2(t, v), Lv3(t, v)}, q # None
        PROVE  q # Lv1(u)
    <3>1. PICK r, i : TableUse(r, i) \in Uses /\ TableUse(r, i)[1] = q
      <4>1. CASE q = Lv2(t, v)
        <5>1. /\ TableUse(Lv1(t), Index(v, 1)) \in Uses
              /\ TableUse(Lv1(t), Index(v, 1))[1] = q
          BY <1>0, <2>3, <4>1 DEF Levelled, TableUse
        <5> QED
          BY <5>1
      <4>2. CASE q = Lv3(t, v)
        <5>1. /\ TableUse(Lv2(t, v), Index(v, 2)) \in Uses
              /\ TableUse(Lv2(t, v), Index(v, 2))[1] = q
          BY <1>0, <2>3, <4>2 DEF Levelled, TableUse
        <5> QED
          BY <5>1
      <4> QED
        BY <2>3, <4>1, <4>2
    <3>2. Lv1(u) = q => TaskUse(u, "first_table") \in Uses /\ TaskUse(u, "first_table")[1] = q
      BY <1>0, <2>3 DEF Levelled, TaskUse, Lv1
    <3>3. TaskUse(u, "first_table") # TableUse(r, i)
      BY DEF TaskUse, TableUse
    <3> QED
      BY <3>1, <3>2, <3>3 DEF Injective
  <2>4. ASSUME Lv3(t, v) # None, Lv3(t, v) = Lv2(u, w)
        PROVE  FALSE
    <3>1. /\ TableUse(Lv2(t, v), Index(v, 2)) \in Uses
          /\ TableUse(Lv1(u), Index(w, 1)) \in Uses
          /\ Lv2(t, v) # None
          /\ TableUse(Lv2(t, v), Index(v, 2))[1] = TableUse(Lv1(u), Index(w, 1))[1]
      BY <1>0, <2>4 DEF Levelled, TableUse
    <3>2. TableUse(Lv2(t, v), Index(v, 2)) = TableUse(Lv1(u), Index(w, 1))
      BY <3>1 DEF Injective
    <3>3. Lv2(t, v) = Lv1(u)
      BY <3>2 DEF TableUse
    <3> QED
      BY <2>3, <3>1, <3>3
  <2> QED
    BY <2>1, <2>2, <2>3, <2>4
<1> QED
  BY <1>1, <1>2

\* What is said of t's tables before and after a step that leaves them alone.
SameTables(t) ==
  /\ Lv1(t)' = Lv1(t)
  /\ \A va \in Va : /\ Lv2(t, va)' = Lv2(t, va) /\ Lv3(t, va)' = Lv3(t, va)
                   /\ Leaf(t, va)' = Leaf(t, va)
  /\ Tables(t)' = Tables(t)
  /\ \A q \in Tables(t) : content'[q] = content[q]

\* A step that writes to no table of t leaves t's tables alone.
LEMMA TablesUnwritten ==
  ASSUME Types, UppersPoint, NEW t \in Guest,
         \A q \in Tables(t) : content'[q] = content[q],
         tsk'[t]["first_table"] = tsk[t]["first_table"]
  PROVE  SameTables(t)
<1>1. Levelled
  BY LevelledAlways
<1>2. Lv1(t)' = Lv1(t) /\ (Lv1(t) # None => content'[Lv1(t)] = content[Lv1(t)])
  BY <1>1 DEF Lv1, Tables, Levelled
<1>3. ASSUME NEW va \in Va
      PROVE  /\ Lv2(t, va)' = Lv2(t, va)
             /\ Lv2(t, va) # None => content'[Lv2(t, va)] = content[Lv2(t, va)]
  BY <1>1, <1>2 DEF Lv2, Below, Tables, Levelled
<1>4. ASSUME NEW va \in Va
      PROVE  /\ Lv3(t, va)' = Lv3(t, va)
             /\ Lv3(t, va) # None => content'[Lv3(t, va)] = content[Lv3(t, va)]
  BY <1>1, <1>3 DEF Lv3, Below, Tables, Levelled
<1>5. ASSUME NEW va \in Va
      PROVE  Leaf(t, va)' = Leaf(t, va)
  BY <1>4 DEF Leaf, Below
<1>6. Tables(t)' = Tables(t)
  BY <1>2, <1>3, <1>4 DEF Tables
<1> QED
  BY <1>2, <1>3, <1>4, <1>5, <1>6 DEF SameTables

LEMMA WriteElsewhere ==
  ASSUME Types, UppersPoint, NEW t \in Guest, NEW p \in Page \ Tables(t), NEW c,
         content' = [content EXCEPT ![p] = c],
         tsk'[t]["first_table"] = tsk[t]["first_table"]
  PROVE  SameTables(t)
<1>1. Tables(t) \subseteq Page
  BY LevelledAlways DEF Levelled, Tables
<1>2. \A q \in Tables(t) : content'[q] = content[q]
  BY <1>1 DEF Types
<1> QED
  BY <1>2, TablesUnwritten

\* A table is in use as one: by its task_struct or by the table above it.
LEMMA TablesInUse ==
  ASSUME Types, UppersPoint, NEW t \in Guest, NEW q \in Tables(t)
  PROVE  \E u \in Uses : u[1] = q /\ (u[2] = "table" \/ u = TaskUse(t, "first_table"))
<1>1. Levelled
  BY LevelledAlways
<1>2. CASE q = Lv1(t)
  <2>1. TaskUse(t, "first_table") \in Uses /\ TaskUse(t, "first_table")[1] = q
    BY <1>1, <1>2 DEF Levelled, Tables, TaskUse, Lv1
  <2> QED
    BY <2>1
<1>3. ASSUME NEW va \in Va, q = Lv2(t, va)
      PROVE  \E u \in Uses : u[1] = q /\ u[2] = "table"
  <2>1. /\ TableUse(Lv1(t), Index(va, 1)) \in Uses
        /\ TableUse(Lv1(t), Index(va, 1))[1] = q
        /\ TableUse(Lv1(t), Index(va, 1))[2] = "table"
    BY <1>1, <1>3 DEF Levelled, Tables, TableUse
  <2> QED
    BY <2>1
<1>4. ASSUME NEW va \in Va, q = Lv3(t, va)
      PROVE  \E u \in Uses : u[1] = q /\ u[2] = "table"
  <2>1. /\ TableUse(Lv2(t, va), Index(va, 2)) \in Uses
        /\ TableUse(Lv2(t, va), Index(va, 2))[1] = q
        /\ TableUse(Lv2(t, va), Index(va, 2))[2] = "table"
    BY <1>1, <1>4 DEF Levelled, Tables, TableUse
  <2> QED
    BY <2>1
<1> QED
  BY <1>2, <1>3, <1>4 DEF Tables

LEMMA TablesInPool ==
  ASSUME Types, UppersPoint, NEW t \in Guest
  PROVE  Tables(t) \subseteq Page
BY LevelledAlways DEF Levelled, Tables

LEMMA UppersAreTables ==
  /\ \A q \in Uppers : \E t \in Guest : q \in Tables(t)
  /\ \A q : q \in Uppers <=> q # None /\ \E t \in Guest :
                              q = Lv1(t) \/ \E va \in Va : q = Lv2(t, va)
BY DEF Uppers, Tables

LEMMA FreshIsNoTable ==
  ASSUME Types, UppersPoint, AllMarked, NEW p \in Free, NEW t \in Guest
  PROVE  p \in Page \ Tables(t)
BY TablesInUse DEF AllMarked, Free

LEMMA TablesApart ==
  ASSUME Types, UppersPoint, Injective, NEW t \in Guest, NEW u \in Guest, t # u
  PROVE  Tables(t) \cap Tables(u) = {}
BY SeparateAlways DEF Separate, Tables

\* A step that leaves all tables alone changes only the uses by a task_struct
\* and by the operation.
LEMMA UsesOfSameTables ==
  ASSUME Types, UppersPoint, \A t \in Guest : SameTables(t), tails \subseteq tails'
  PROVE  /\ \A u \in Uses' : \/ u \in Uses /\ u[2] # "task"
                             \/ \E t \in Guest, part \in Part : u = TaskUse(t, part)'
                             \/ u = OpUse'
         /\ \A u \in Uses' : u[1] \in Page
         /\ UppersPoint'
<1>1. Uppers' = Uppers
  <2>1. \A q : q \in Uppers' <=> q # None /\ \E t \in Guest :
                                  q = Lv1(t)' \/ \E va \in Va : q = Lv2(t, va)'
    BY DEF Uppers
  <2>2. \A q : q \in Uppers' <=> q \in Uppers
    BY <2>1, UppersAreTables DEF SameTables
  <2> QED
    BY <2>2
<1>2. \A q \in Uppers : content'[q] = content[q]
  BY UppersAreTables DEF SameTables
<1>3. UppersPoint'
  BY <1>1, <1>2 DEF UppersPoint
<1>4. UsesSplit'
  BY UsesAre, PTL
<1>5. ASSUME NEW u \in Uses', NEW q \in Uppers', NEW i \in TableIndex, u = TableUse(q, i)'
      PROVE  u \in Uses /\ u[2] # "task"
  <2>1. u = TableUse(q, i) /\ q \in Uppers
    BY <1>1, <1>2, <1>5 DEF TableUse
  <2>2. u[1] \in Page
    BY <1>4 DEF UsesSplit
  <2>3. u[2] = "table"
    BY <2>1 DEF TableUse
  <2> QED
    BY <2>1, <2>2, <2>3, UsesAre DEF UsesSplit
<1>6. ASSUME NEW u \in Uses', NEW t \in Guest, NEW va \in Va, <<t, va>> \notin tails',
             u = MemoryUse(t, va)'
      PROVE  u \in Uses /\ u[2] # "task"
  <2>1. u = MemoryUse(t, va) /\ <<t, va>> \notin tails
    BY <1>6 DEF MemoryUse, SameTables
  <2>2. u[1] \in Page
    BY <1>4 DEF UsesSplit
  <2>3. u[2] = "memory"
    BY <2>1 DEF MemoryUse
  <2> QED
    BY <2>1, <2>2, <2>3, UsesAre DEF UsesSplit
<1> QED
  BY <1>3, <1>4, <1>5, <1>6 DEF UsesSplit

-----------------------------------------------------------------------------
\* A page that was free gets its one use.
LEMMA FreshUse ==
  ASSUME Types, Injective, AllMarked, NEW p \in Free, NEW n, n[1] = p,
         memap' = [memap EXCEPT ![p] = 1],
         \A u \in Uses' : u[1] \in Page /\ (u \in Uses \/ u = n)
  PROVE  Injective' /\ AllMarked'
<1>1. \A u \in Uses : u[1] # p
  BY DEF AllMarked, Free
<1>2. Injective'
  BY <1>1 DEF Injective
<1>3. ASSUME NEW u \in Uses'
      PROVE  memap'[u[1]] = 1
  <2>1. u[1] \in Page /\ (u \in Uses \/ u[1] = p)
    OBVIOUS
  <2>2. \A q \in Page : memap'[q] = IF q = p THEN 1 ELSE memap[q]
    BY DEF Types
  <2> QED
    BY <2>1, <2>2 DEF AllMarked
<1> QED
  BY <1>2, <1>3 DEF AllMarked

\* Uses may end.
LEMMA FewerUses ==
  ASSUME Injective, AllMarked, memap' = memap, \A u \in Uses' : u \in Uses
  PROVE  Injective' /\ AllMarked'
BY DEF Injective, AllMarked

LEMMA FreePage ==
  ASSUME Types, NEW p, get_free_page(p)
  PROVE  /\ p \in Free /\ p \in Page
         /\ memap' = [memap EXCEPT ![p] = 1] /\ last_page_id' = p
         /\ memap' \in [Page -> {0, 1}] /\ last_page_id' \in Page
BY DEF get_free_page, Free, Types

LEMMA ClearedPage ==
  ASSUME Types, NEW p \in Page
  PROVE  /\ Cleared(p) \in [Page -> [TableIndex -> Entry]]
         /\ Cleared(p)[p] = Zero /\ \A i \in TableIndex : Zero[i] = None
         /\ \A q \in Page : q # p => Cleared(p)[q] = content[q]
<1>1. Zero \in [TableIndex -> Entry] /\ \A i \in TableIndex : Zero[i] = None
  BY DEF Zero, TableIndex, Entry
<1> QED
  BY <1>1 DEF Cleared, Types

-----------------------------------------------------------------------------
\* A new table.  In each of the three cases the pages of the VM's memory are
\* where they were, and the table has the one use it is hooked in by.
Hooks(t, p) ==
  /\ \A u \in Guest \ {t} : SameTables(u)
  /\ \A v \in Va : Leaf(t, v)' = Leaf(t, v)
  /\ Tables(t)' = Tables(t) \cup {p}
  /\ UppersPoint'
  /\ content' \in [Page -> [TableIndex -> Entry]]
  /\ tsk' \in [Guest -> [Part -> Page \cup {None}]]
  /\ \E n : n[1] = p /\ \A u \in Uses' : u[1] \in Page /\ (u \in Uses \/ u = n)

LEMMA GrowFirst ==
  ASSUME Types, Owned, NEW t \in Guest, NEW p \in Free, Lv1(t) = None,
         tsk' = [tsk EXCEPT ![t].first_table = p], content' = Cleared(p),
         op' = op, tails' = tails
  PROVE  Hooks(t, p)
<1>0. Types /\ UppersPoint /\ Injective /\ AllMarked /\ p \in Page
  BY DEF Owned, Free
<1>1. ASSUME NEW u \in Guest \ {t}
      PROVE  SameTables(u)
  <2>1. tsk'[u]["first_table"] = tsk[u]["first_table"]
    BY DEF Types
  <2>2. p \in Page \ Tables(u)
    BY <1>0, FreshIsNoTable
  <2> QED
    BY <1>0, <2>1, <2>2, WriteElsewhere DEF Cleared
<1>2. /\ content' \in [Page -> [TableIndex -> Entry]]
      /\ content'[p] = Zero /\ \A i \in TableIndex : content'[p][i] = None
      /\ \A q \in Page : q # p => content'[q] = content[q]
  BY <1>0, ClearedPage
<1>3. tsk' \in [Guest -> [Part -> Page \cup {None}]] /\ Lv1(t)' = p
  <2>1. tsk' \in [Guest -> [Part -> Page \cup {None}]] /\ tsk'[t]["first_table"] = p
    <3>1. "first_table" \in Part
      BY DEF Part
    <3> QED
      BY <1>0, <3>1 DEF Types
  <2> QED
    BY <2>1 DEF Lv1
<1>4. p # None
  BY <1>0, Entries
<1>5. ASSUME NEW v \in Va
      PROVE  /\ Lv2(t, v) = None /\ Lv2(t, v)' = None
             /\ Lv3(t, v) = None /\ Lv3(t, v)' = None
             /\ Leaf(t, v) = None /\ Leaf(t, v)' = None
  <2>1. Index(v, 1) \in TableIndex
    BY IndexInTable DEF TableIndex, Level
  <2>2. Lv2(t, v) = None /\ Lv2(t, v)' = None
    BY <1>2, <1>3, <2>1 DEF Lv2, Below
  <2> QED
    BY <2>2 DEF Lv3, Leaf, Below
<1>6. Tables(t) = {} /\ Tables(t)' = {p}
  BY <1>3, <1>4, <1>5 DEF Tables
<1>7. \A q \in Uppers' : q = p \/ (q \in Uppers /\ q \in Page /\ q # p)
  <2>1. ASSUME NEW q, NEW u \in Guest, q # None, q = Lv1(u)' \/ \E va \in Va : q = Lv2(u, va)'
        PROVE  q = p \/ (q \in Uppers /\ q \in Page /\ q # p)
    <3>1. CASE u = t
      BY <1>3, <1>5, <2>1, <3>1
    <3>2. CASE u # t
      <4>1. q \in Tables(u) /\ q \in Uppers
        BY <1>1, <2>1, <3>2, UppersAreTables DEF SameTables, Tables
      <4> QED
        BY <1>0, <4>1, TablesInPool, FreshIsNoTable
    <3> QED
      BY <3>1, <3>2
  <2> QED
    BY <2>1 DEF Uppers
<1>8. UppersPoint'
  BY <1>2, <1>7 DEF UppersPoint, Owned
<1>9. \A u \in Uses' : u[1] \in Page /\ (u \in Uses \/ u = TaskUse(t, "first_table")')
  <2>1. UsesSplit'
    BY UsesAre, PTL
  <2> SUFFICES ASSUME NEW u \in Uses', u[1] \in Page
               PROVE  u \in Uses \/ u = TaskUse(t, "first_table")'
    BY <2>1 DEF UsesSplit
  <2>2. ASSUME NEW s \in Guest, NEW part \in Part, u = TaskUse(s, part)'
        PROVE  u \in Uses \/ u = TaskUse(t, "first_table")'
    <3>1. CASE s = t /\ part = "first_table"
      BY <2>2, <3>1
    <3>2. CASE ~(s = t /\ part = "first_table")
      <4>1. tsk'[s][part] = tsk[s][part]
        BY <3>2 DEF Types
      <4>2. u = TaskUse(s, part)
        BY <2>2, <4>1 DEF TaskUse
      <4> QED
        BY <4>2, UsesAre DEF UsesSplit
    <3> QED
      BY <3>1, <3>2
  <2>3. ASSUME NEW q \in Uppers', NEW i \in TableIndex, u = TableUse(q, i)'
        PROVE  u \in Uses
    <3>1. q # p
      BY <1>2, <2>3, Entries DEF TableUse
    <3>2. u = TableUse(q, i) /\ q \in Uppers
      BY <1>2, <1>7, <2>3, <3>1 DEF TableUse
    <3> QED
      BY <3>2, UsesAre DEF UsesSplit
  <2>4. ASSUME NEW s \in Guest, NEW va \in Va, <<s, va>> \notin tails', u = MemoryUse(s, va)'
        PROVE  u \in Uses
    <3>1. u = MemoryUse(s, va)
      BY <1>1, <1>5, <2>4 DEF MemoryUse, SameTables
    <3> QED
      BY <2>4, <3>1, UsesAre DEF UsesSplit
  <2>5. ASSUME u = OpUse'
        PROVE  u \in Uses
    <3>1. u = OpUse
      BY <2>5 DEF OpUse, At
    <3> QED
      BY <3>1, UsesAre DEF UsesSplit
  <2> QED
    BY <2>1, <2>2, <2>3, <2>4, <2>5 DEF UsesSplit
<1>10. TaskUse(t, "first_table")'[1] = p
  BY <1>3 DEF TaskUse, Lv1
<1> QED
  BY <1>1, <1>2, <1>3, <1>5, <1>6, <1>8, <1>9, <1>10 DEF Hooks

\* Hooked in below the table w.
Hooked(w, i, p) ==
  /\ w \in Uppers /\ i \in TableIndex /\ content[w][i] = None
  /\ content' = [Cleared(p) EXCEPT ![w][i] = p]
  /\ tsk' = tsk /\ op' = op /\ tails' = tails

LEMMA HookedContent ==
  ASSUME Types, Owned, NEW p \in Free, NEW w, NEW i, Hooked(w, i, p)
  PROVE  /\ Types /\ UppersPoint /\ Injective /\ AllMarked
         /\ p \in Page /\ p # None /\ w \in Page /\ p # w
         /\ content' \in [Page -> [TableIndex -> Entry]]
         /\ \A j \in TableIndex : content'[p][j] = None
         /\ \A j \in TableIndex : content'[w][j] = IF j = i THEN p ELSE content[w][j]
         /\ \A q \in Page : q # p /\ q # w => content'[q] = content[q]
<1>1. Types /\ UppersPoint /\ Injective /\ AllMarked /\ p \in Page /\ p # None
  BY Entries DEF Owned, Free
<1>2. PICK u \in Guest : w \in Tables(u)
  BY UppersAreTables DEF Hooked
<1>3. w \in Page /\ p # w
  BY <1>1, <1>2, TablesInPool, FreshIsNoTable
<1>4. /\ Cleared(p) \in [Page -> [TableIndex -> Entry]]
      /\ \A j \in TableIndex : Cleared(p)[p][j] = None
      /\ \A q \in Page : q # p => Cleared(p)[q] = content[q]
  BY <1>1, ClearedPage
<1>5. p \in Entry /\ i \in TableIndex /\ content' = [Cleared(p) EXCEPT ![w][i] = p]
  BY <1>1, Entries DEF Hooked
<1> HIDE DEF Cleared
<1> QED
  BY <1>1, <1>3, <1>4, <1>5

LEMMA HookedElsewhere ==
  ASSUME Types, Owned, NEW p \in Free, NEW w, NEW i, Hooked(w, i, p),
         NEW t \in Guest, w \in Tables(t), NEW u \in Guest, u # t
  PROVE  SameTables(u)
<1>1. w \notin Tables(u)
  BY TablesApart DEF Owned
<1>2. p \notin Tables(u)
  BY FreshIsNoTable DEF Owned
<1>3. \A q \in Tables(u) : content'[q] = content[q]
  BY <1>1, <1>2, HookedContent, TablesInPool
<1>4. tsk'[u]["first_table"] = tsk[u]["first_table"]
  BY DEF Hooked
<1> QED
  BY <1>3, <1>4, TablesUnwritten DEF Owned

LEMMA HookedUses ==
  ASSUME Types, Owned, NEW p \in Free, NEW w, NEW i, Hooked(w, i, p),
         \A q \in Uppers' : q = p \/ q \in Uppers,
         \A s \in Guest, va \in Va : Leaf(s, va)' = Leaf(s, va)
  PROVE  /\ UppersPoint'
         /\ \E n : n[1] = p /\ \A u \in Uses' : u[1] \in Page /\ (u \in Uses \/ u = n)
<1>1. /\ p \in Page /\ w \in Page /\ w # p
      /\ \A j \in TableIndex : content'[p][j] = None
      /\ \A j \in TableIndex : content'[w][j] = IF j = i THEN p ELSE content[w][j]
      /\ \A q \in Page : q # p /\ q # w => content'[q] = content[q]
  BY HookedContent
<1>2. \A q \in Uppers : q \in Page
  BY UppersAreTables, TablesInPool DEF Owned
<1>3. UppersPoint'
  BY <1>1, <1>2 DEF UppersPoint, Owned
<1>4. UsesSplit'
  BY UsesAre, PTL
<1>5. ASSUME NEW u \in Uses', u[1] \in Page
      PROVE  u \in Uses \/ u = <<p, "table", <<w, i>> >>
  <2>1. ASSUME NEW s \in Guest, NEW part \in Part, u = TaskUse(s, part)'
        PROVE  u \in Uses
    <3>1. u = TaskUse(s, part)
      BY <2>1 DEF TaskUse, Hooked
    <3> QED
      BY <1>5, <3>1, UsesAre DEF UsesSplit
  <2>2. ASSUME NEW q \in Uppers', NEW j \in TableIndex, u = TableUse(q, j)'
        PROVE  u \in Uses \/ u = <<p, "table", <<w, i>> >>
    <3>1. q # p
      BY <1>1, <1>5, <2>2, Entries DEF TableUse
    <3>2. CASE q = w /\ j = i
      BY <1>1, <2>2, <3>2 DEF TableUse
    <3>3. CASE ~(q = w /\ j = i)
      <4>1. q \in Uppers /\ u = TableUse(q, j)
        BY <1>1, <1>2, <2>2, <3>1, <3>3 DEF TableUse
      <4> QED
        BY <1>5, <4>1, UsesAre DEF UsesSplit
    <3> QED
      BY <3>2, <3>3
  <2>3. ASSUME NEW s \in Guest, NEW va \in Va, <<s, va>> \notin tails', u = MemoryUse(s, va)'
        PROVE  u \in Uses
    <3>1. u = MemoryUse(s, va) /\ <<s, va>> \notin tails
      BY <2>3 DEF MemoryUse, Hooked
    <3> QED
      BY <1>5, <3>1, UsesAre DEF UsesSplit
  <2>4. ASSUME u = OpUse'
        PROVE  u \in Uses
    <3>1. u = OpUse
      BY <2>4 DEF OpUse, At, Hooked
    <3> QED
      BY <1>5, <3>1, UsesAre DEF UsesSplit
  <2> QED
    BY <1>4, <2>1, <2>2, <2>3, <2>4 DEF UsesSplit
<1>6. \A u \in Uses' : u[1] \in Page
  BY <1>4 DEF UsesSplit
<1>7. <<p, "table", <<w, i>> >>[1] = p
  OBVIOUS
<1> QED
  BY <1>3, <1>5, <1>6, <1>7

LEMMA GrowSecond ==
  ASSUME Types, Owned, NEW t \in Guest, NEW va \in Va, NEW p \in Free,
         Lv1(t) # None, Lv2(t, va) = None, Hooked(Lv1(t), Index(va, 1), p)
  PROVE  Hooks(t, p)
<1> DEFINE w == Lv1(t)
           i == Index(va, 1)
<1>1. /\ p \in Page /\ p # None /\ w \in Page /\ p # w
      /\ content' \in [Page -> [TableIndex -> Entry]]
      /\ \A j \in TableIndex : content'[p][j] = None
      /\ \A j \in TableIndex : content'[w][j] = IF j = i THEN p ELSE content[w][j]
      /\ \A q \in Page : q # p /\ q # w => content'[q] = content[q]
  BY HookedContent
<1>2. Levelled /\ Separate /\ p \notin Tables(t) /\ Tables(t) \subseteq Page
  BY LevelledAlways, SeparateAlways, FreshIsNoTable, TablesInPool DEF Owned
<1>3. Lv1(t)' = w /\ w \in Tables(t)
  BY <1>1 DEF Lv1, Hooked, Tables
<1>4. ASSUME NEW u \in Guest, u # t
      PROVE  SameTables(u)
  BY <1>3, <1>4, HookedElsewhere
<1>5. ASSUME NEW v \in Va
      PROVE  /\ Lv2(t, v)' = IF Index(v, 1) = i THEN p ELSE Lv2(t, v)
             /\ Index(v, 1) = i => Lv2(t, v) = None
             /\ Lv3(t, v)' = Lv3(t, v) /\ Leaf(t, v)' = Leaf(t, v)
  <2>1. Index(v, 1) \in TableIndex /\ Index(v, 2) \in TableIndex /\ Index(v, 3) \in TableIndex
    BY IndexInTable DEF TableIndex, Level
  <2>2. Lv2(t, v)' = IF Index(v, 1) = i THEN p ELSE Lv2(t, v)
    BY <1>1, <1>3, <2>1 DEF Lv2, Below
  <2>3. Index(v, 1) = i => Lv2(t, v) = None
    BY <1>1 DEF Lv2, Below
  <2>4. Lv3(t, v)' = Lv3(t, v)
    <3>1. CASE Index(v, 1) = i
      BY <1>1, <2>1, <2>2, <2>3, <3>1 DEF Lv3, Below
    <3>2. CASE Index(v, 1) # i
      <4>1. Lv2(t, v) # None => Lv2(t, v) \in Page /\ Lv2(t, v) # w /\ Lv2(t, v) # p
        BY <1>2 DEF Separate, Levelled, Tables
      <4> QED
        BY <1>1, <2>2, <3>2, <4>1 DEF Lv3, Below
    <3> QED
      BY <3>1, <3>2
  <2>5. Lv3(t, v) # None => Lv3(t, v) \in Page /\ Lv3(t, v) # w /\ Lv3(t, v) # p
    BY <1>2 DEF Separate, Levelled, Tables
  <2>6. Leaf(t, v)' = Leaf(t, v)
    BY <1>1, <2>4, <2>5 DEF Leaf, Below
  <2> QED
    BY <2>2, <2>3, <2>4, <2>6
<1>6. Tables(t)' = Tables(t) \cup {p}
  <2>1. ASSUME NEW q
        PROVE  q \in Tables(t)' <=> q \in Tables(t) \cup {p}
    <3>1. q \in Tables(t)' <=>
            q # None /\ (q = Lv1(t)' \/ \E v \in Va : q = Lv2(t, v)' \/ q = Lv3(t, v)')
      BY DEF Tables
    <3>2. q \in Tables(t) <=>
            q # None /\ (q = Lv1(t) \/ \E v \in Va : q = Lv2(t, v) \/ q = Lv3(t, v))
      BY DEF Tables
    <3> QED
      BY <1>1, <1>3, <1>5, <3>1, <3>2
  <2> QED
    BY <2>1
<1>7. \A q \in Uppers' : q = p \/ q \in Uppers
  <2>1. ASSUME NEW q, NEW u \in Guest, q # None, q = Lv1(u)' \/ \E v \in Va : q = Lv2(u, v)'
        PROVE  q = p \/ q \in Uppers
    <3>1. CASE u = t
      BY <1>3, <1>5, <2>1, <3>1, UppersAreTables
    <3>2. CASE u # t
      BY <1>4, <2>1, <3>2, UppersAreTables DEF SameTables
    <3> QED
      BY <3>1, <3>2
  <2> QED
    BY <2>1 DEF Uppers
<1>8. \A s \in Guest, v \in Va : Leaf(s, v)' = Leaf(s, v)
  BY <1>4, <1>5 DEF SameTables
<1>9. /\ UppersPoint'
      /\ \E n : n[1] = p /\ \A u \in Uses' : u[1] \in Page /\ (u \in Uses \/ u = n)
  BY <1>7, <1>8, HookedUses
<1>10. tsk' \in [Guest -> [Part -> Page \cup {None}]]
  BY DEF Hooked, Types
<1> QED
  BY <1>1, <1>4, <1>6, <1>8, <1>9, <1>10 DEF Hooks

LEMMA GrowThird ==
  ASSUME Types, Owned, NEW t \in Guest, NEW va \in Va, NEW p \in Free,
         Lv2(t, va) # None, Lv3(t, va) = None, Hooked(Lv2(t, va), Index(va, 2), p)
  PROVE  Hooks(t, p)
<1> DEFINE w == Lv2(t, va)
           i == Index(va, 2)
<1>1. /\ p \in Page /\ p # None /\ w \in Page /\ p # w
      /\ content' \in [Page -> [TableIndex -> Entry]]
      /\ \A j \in TableIndex : content'[p][j] = None
      /\ \A j \in TableIndex : content'[w][j] = IF j = i THEN p ELSE content[w][j]
      /\ \A q \in Page : q # p /\ q # w => content'[q] = content[q]
  BY HookedContent
<1>0. content[w][i] = None
  BY DEF Hooked
<1>2. Levelled /\ Separate /\ p \notin Tables(t) /\ Tables(t) \subseteq Page
  BY LevelledAlways, SeparateAlways, FreshIsNoTable, TablesInPool DEF Owned
<1>3. w \in Tables(t)
  BY DEF Tables
<1>4. ASSUME NEW u \in Guest, u # t
      PROVE  SameTables(u)
  BY <1>3, <1>4, HookedElsewhere
<1>5. Lv1(t)' = Lv1(t)
  BY DEF Lv1, Hooked
<1>6. ASSUME NEW v \in Va
      PROVE  /\ Lv2(t, v)' = Lv2(t, v)
             /\ Lv3(t, v)' = IF Lv2(t, v) = w /\ Index(v, 2) = i THEN p ELSE Lv3(t, v)
             /\ Lv2(t, v) = w /\ Index(v, 2) = i => Lv3(t, v) = None
             /\ Leaf(t, v)' = Leaf(t, v)
  <2>1. Index(v, 1) \in TableIndex /\ Index(v, 2) \in TableIndex /\ Index(v, 3) \in TableIndex
    BY IndexInTable DEF TableIndex, Level
  <2>2. Lv1(t) # None => Lv1(t) \in Page /\ Lv1(t) # w /\ Lv1(t) # p
    BY <1>2 DEF Separate, Levelled, Tables
  <2>3. Lv2(t, v)' = Lv2(t, v)
    BY <1>1, <1>5, <2>2 DEF Lv2, Below
  <2>4. Lv2(t, v) # None => Lv2(t, v) \in Page /\ Lv2(t, v) # p
    BY <1>2 DEF Levelled, Tables
  <2>5. Lv3(t, v)' = IF Lv2(t, v) = w /\ Index(v, 2) = i THEN p ELSE Lv3(t, v)
    BY <1>1, <2>1, <2>3, <2>4 DEF Lv3, Below
  <2>6. Lv2(t, v) = w /\ Index(v, 2) = i => Lv3(t, v) = None
    BY <1>0 DEF Lv3, Below
  <2>7. Lv3(t, v) # None => Lv3(t, v) \in Page /\ Lv3(t, v) # w /\ Lv3(t, v) # p
    BY <1>2 DEF Separate, Levelled, Tables
  <2>8. Leaf(t, v)' = Leaf(t, v)
    <3>1. CASE Lv2(t, v) = w /\ Index(v, 2) = i
      BY <1>1, <2>1, <2>5, <2>6, <3>1 DEF Leaf, Below
    <3>2. CASE ~(Lv2(t, v) = w /\ Index(v, 2) = i)
      BY <1>1, <2>5, <2>7, <3>2 DEF Leaf, Below
    <3> QED
      BY <3>1, <3>2
  <2> QED
    BY <2>3, <2>5, <2>6, <2>8
<1>7. Tables(t)' = Tables(t) \cup {p}
  <2>1. ASSUME NEW q
        PROVE  q \in Tables(t)' <=> q \in Tables(t) \cup {p}
    <3>1. q \in Tables(t)' <=>
            q # None /\ (q = Lv1(t)' \/ \E v \in Va : q = Lv2(t, v)' \/ q = Lv3(t, v)')
      BY DEF Tables
    <3>2. q \in Tables(t) <=>
            q # None /\ (q = Lv1(t) \/ \E v \in Va : q = Lv2(t, v) \/ q = Lv3(t, v))
      BY DEF Tables
    <3> QED
      BY <1>1, <1>5, <1>6, <3>1, <3>2
  <2> QED
    BY <2>1
<1>8. \A q \in Uppers' : q = p \/ q \in Uppers
  <2>1. ASSUME NEW q, NEW u \in Guest, q # None, q = Lv1(u)' \/ \E v \in Va : q = Lv2(u, v)'
        PROVE  q = p \/ q \in Uppers
    <3>1. CASE u = t
      BY <1>5, <1>6, <2>1, <3>1, UppersAreTables
    <3>2. CASE u # t
      BY <1>4, <2>1, <3>2, UppersAreTables DEF SameTables
    <3> QED
      BY <3>1, <3>2
  <2> QED
    BY <2>1 DEF Uppers
<1>9. \A s \in Guest, v \in Va : Leaf(s, v)' = Leaf(s, v)
  BY <1>4, <1>6 DEF SameTables
<1>10. /\ UppersPoint'
       /\ \E n : n[1] = p /\ \A u \in Uses' : u[1] \in Page /\ (u \in Uses \/ u = n)
  BY <1>8, <1>9, HookedUses
<1>11. tsk' \in [Guest -> [Part -> Page \cup {None}]]
  BY DEF Hooked, Types
<1> QED
  BY <1>1, <1>4, <1>7, <1>9, <1>10, <1>11 DEF Hooks

\* Whatever level is missing, Grow() adds one table and moves nothing.
LEMMA GrowHooks ==
  ASSUME Types, Owned, NEW t \in Guest, NEW va \in Va, Grow(t, va), op' = op, tails' = tails
  PROVE  /\ \E p \in Free : Hooks(t, p) /\ memap' = [memap EXCEPT ![p] = 1]
         /\ memap' \in [Page -> {0, 1}] /\ last_page_id' \in Page
         /\ kernel_pages_count' = [kernel_pages_count EXCEPT ![t] = @ + 1]
<1>1. PICK p \in Page :
        /\ get_free_page(p)
        /\ \/ /\ Lv1(t) = None
              /\ tsk' = [tsk EXCEPT ![t].first_table = p] /\ content' = Cleared(p)
           \/ /\ Lv1(t) # None /\ Lv2(t, va) = None
              /\ content' = [Cleared(p) EXCEPT ![Lv1(t)][Index(va, 1)] = p]
              /\ UNCHANGED tsk
           \/ /\ Lv2(t, va) # None /\ Lv3(t, va) = None
              /\ content' = [Cleared(p) EXCEPT ![Lv2(t, va)][Index(va, 2)] = p]
              /\ UNCHANGED tsk
        /\ kernel_pages_count' = [kernel_pages_count EXCEPT ![t] = @ + 1]
  BY DEF Grow
<1>2. /\ p \in Free /\ memap' = [memap EXCEPT ![p] = 1]
      /\ memap' \in [Page -> {0, 1}] /\ last_page_id' \in Page
  BY <1>1, FreePage
<1>3. Levelled
  BY LevelledAlways DEF Owned
<1>4. Index(va, 1) \in TableIndex /\ Index(va, 2) \in TableIndex
  BY IndexInTable DEF TableIndex, Level
<1>5. ASSUME Lv1(t) = None
      PROVE  Hooks(t, p)
  <2>1. tsk' = [tsk EXCEPT ![t].first_table = p] /\ content' = Cleared(p)
    BY <1>1, <1>3, <1>5 DEF Levelled
  <2> QED
    BY <1>2, <1>5, <2>1, GrowFirst
<1>6. ASSUME Lv1(t) # None, Lv2(t, va) = None
      PROVE  Hooks(t, p)
  <2>1. content' = [Cleared(p) EXCEPT ![Lv1(t)][Index(va, 1)] = p] /\ tsk' = tsk
    BY <1>1, <1>6
  <2>2. Lv1(t) \in Uppers /\ content[Lv1(t)][Index(va, 1)] = None
    BY <1>6, <1>3 DEF Levelled, Lv2, Below
  <2>3. Hooked(Lv1(t), Index(va, 1), p)
    BY <1>4, <2>1, <2>2 DEF Hooked
  <2> QED
    BY <1>2, <1>6, <2>3, GrowSecond
<1>7. ASSUME Lv2(t, va) # None
      PROVE  Hooks(t, p)
  <2>1. /\ Lv3(t, va) = None
        /\ content' = [Cleared(p) EXCEPT ![Lv2(t, va)][Index(va, 2)] = p] /\ tsk' = tsk
    BY <1>1, <1>3, <1>7 DEF Levelled
  <2>2. Lv2(t, va) \in Uppers /\ content[Lv2(t, va)][Index(va, 2)] = None
    BY <1>7, <1>3, <2>1 DEF Levelled, Lv3, Below
  <2>3. Hooked(Lv2(t, va), Index(va, 2), p)
    BY <1>4, <2>1, <2>2 DEF Hooked
  <2> QED
    BY <1>2, <1>7, <2>1, <2>3, GrowThird
<1>8. Hooks(t, p)
  BY <1>5, <1>6, <1>7
<1> QED
  BY <1>1, <1>2, <1>8

-----------------------------------------------------------------------------
\* An entry of the last level: exactly one page of one VM is mapped.
EntryWritten(t, va, e) ==
  /\ Lv3(t, va) # None
  /\ content' = [content EXCEPT ![Lv3(t, va)][Index(va, 3)] = e] /\ tsk' = tsk

LEMMA EntrySet ==
  ASSUME Types, Owned, NEW t \in Guest, NEW va \in Va, NEW e \in Entry,
         EntryWritten(t, va, e)
  PROVE  /\ content' \in [Page -> [TableIndex -> Entry]]
         /\ \A u \in Guest : /\ Lv1(u)' = Lv1(u) /\ Tables(u)' = Tables(u)
                             /\ \A v \in Va : /\ Lv2(u, v)' = Lv2(u, v)
                                              /\ Lv3(u, v)' = Lv3(u, v)
         /\ \A u \in Guest, v \in Va :
              Leaf(u, v)' = IF u = t /\ v = va THEN e ELSE Leaf(u, v)
         /\ Uppers' = Uppers /\ \A q \in Uppers : content'[q] = content[q]
         /\ UppersPoint'
<1> DEFINE w == Lv3(t, va)
           i == Index(va, 3)
<1>1. Levelled /\ Separate /\ UppersPoint
  BY LevelledAlways, SeparateAlways DEF Owned
<1>2. w \in Page /\ i \in TableIndex /\ w # None
  BY <1>1, IndexInTable DEF Levelled, TableIndex, Level, EntryWritten
<1>3. /\ content' \in [Page -> [TableIndex -> Entry]]
      /\ \A j \in TableIndex : content'[w][j] = IF j = i THEN e ELSE content[w][j]
      /\ \A q \in Page : q # w => content'[q] = content[q]
  <2> HIDE DEF w, i
  <2>1. content' = [content EXCEPT ![w][i] = e]
    BY DEF w, i, EntryWritten
  <2>2. content \in [Page -> [TableIndex -> Entry]] /\ e \in Entry
    BY DEF Types
  <2> DEFINE row == [content[w] EXCEPT ![i] = e]
  <2>3. content' = [content EXCEPT ![w] = row]
    BY <2>1
  <2>4. row \in [TableIndex -> Entry] /\ \A j \in TableIndex : row[j] = IF j = i THEN e ELSE content[w][j]
    BY <1>2, <2>2
  <2> HIDE DEF row
  <2> QED
    BY <1>2, <2>2, <2>3, <2>4
<1>4. ASSUME NEW u \in Guest
      PROVE  /\ Lv1(u)' = Lv1(u)
             /\ Lv1(u) # None => content'[Lv1(u)] = content[Lv1(u)]
  <2>1. Lv1(u) # None => Lv1(u) \in Page /\ Lv1(u) # w
    BY <1>1 DEF Levelled, Separate
  <2> QED
    BY <1>3, <2>1 DEF Lv1, EntryWritten
<1>5. ASSUME NEW u \in Guest, NEW v \in Va
      PROVE  /\ Lv2(u, v)' = Lv2(u, v) /\ Lv3(u, v)' = Lv3(u, v)
             /\ Lv2(u, v) # None => content'[Lv2(u, v)] = content[Lv2(u, v)]
  <2>1. Lv2(u, v)' = Lv2(u, v)
    BY <1>4 DEF Lv2, Below
  <2>2. Lv2(u, v) # None => Lv2(u, v) \in Page /\ Lv2(u, v) # w
    BY <1>1 DEF Levelled, Separate
  <2> QED
    BY <1>3, <2>1, <2>2 DEF Lv3, Below
<1>6. ASSUME NEW u \in Guest, NEW v \in Va
      PROVE  Leaf(u, v)' = IF u = t /\ v = va THEN e ELSE Leaf(u, v)
  <2>1. Index(v, 3) \in TableIndex
    BY IndexInTable DEF TableIndex, Level
  <2>2. Lv3(u, v) # None => Lv3(u, v) \in Page
    BY <1>1 DEF Levelled
  <2>3. CASE u = t /\ v = va
    BY <1>2, <1>3, <1>5, <2>3 DEF Leaf, Below
  <2>4. CASE Lv3(u, v) = None
    BY <1>2, <1>5, <2>4 DEF Leaf, Below
  <2>5. CASE Lv3(u, v) # None /\ ~(u = t /\ v = va)
    <3>1. ~(Lv3(u, v) = w /\ Index(v, 3) = i)
      BY <1>1, <2>5, IndexInjective DEF Separate, Level
    <3> QED
      BY <1>3, <1>5, <2>1, <2>2, <2>5, <3>1 DEF Leaf, Below
  <2> QED
    BY <2>3, <2>4, <2>5
<1>7. \A u \in Guest : Tables(u)' = Tables(u)
  BY <1>4, <1>5 DEF Tables
<1>8. Uppers' = Uppers
  <2>1. \A q : q \in Uppers' <=> q # None /\ \E u \in Guest :
                                  q = Lv1(u)' \/ \E v \in Va : q = Lv2(u, v)'
    BY DEF Uppers
  <2>2. \A q : q \in Uppers' <=> q \in Uppers
    BY <1>4, <1>5, <2>1, UppersAreTables
  <2> QED
    BY <2>2
<1>9. \A q \in Uppers : content'[q] = content[q]
  BY <1>4, <1>5, UppersAreTables
<1>10. UppersPoint'
  BY <1>1, <1>8, <1>9 DEF UppersPoint
<1> QED
  BY <1>3, <1>4, <1>5, <1>6, <1>7, <1>8, <1>9, <1>10

-----------------------------------------------------------------------------
\* Which steps keep every page with its one use.
AllSame == \A t \in Guest : SameTables(t)

LEMMA NothingWritten ==
  ASSUME Types, UppersPoint, content' = content, tsk' = tsk
  PROVE  AllSame
BY TablesUnwritten DEF AllSame

LEMMA OwnedStill ==
  ASSUME Types, Owned, AllSame, tails' = tails, memap' = memap, tsk' = tsk,
         op'.stage # "map"
  PROVE  Owned'
<1>1. \A u \in Uses' : u \in Uses
  <2>1. ASSUME NEW u \in Uses'
        PROVE  u \in Uses
    <3>1. /\ u[1] \in Page
          /\ \/ u \in Uses
             \/ \E t \in Guest, part \in Part : u = TaskUse(t, part)'
             \/ u = OpUse'
      BY UsesOfSameTables DEF Owned, AllSame
    <3>2. u # OpUse'
      BY <3>1, Entries DEF OpUse, At
    <3>3. ASSUME NEW t \in Guest, NEW part \in Part, u = TaskUse(t, part)'
          PROVE  u \in Uses
      <4>1. u = TaskUse(t, part)
        BY <3>3 DEF TaskUse
      <4> QED
        BY <3>1, <4>1, UsesAre DEF UsesSplit
    <3> QED
      BY <3>1, <3>2, <3>3
  <2> QED
    BY <2>1
<1>2. UppersPoint'
  BY UsesOfSameTables DEF Owned, AllSame
<1> QED
  BY <1>1, <1>2, FewerUses DEF Owned

\* A free page is taken for a task_struct or for the operation.
LEMMA OwnedFresh ==
  ASSUME Types, Owned, AllSame, tails' = tails,
         NEW p \in Free, memap' = [memap EXCEPT ![p] = 1],
         NEW n, n[1] = p,
         \A t \in Guest, part \in Part :
           TaskUse(t, part)' = n \/ TaskUse(t, part)' = TaskUse(t, part),
         OpUse' = n \/ OpUse'[1] = None
  PROVE  Owned'
<1>1. ASSUME NEW u \in Uses'
      PROVE  u[1] \in Page /\ (u \in Uses \/ u = n)
  <2>1. /\ u[1] \in Page
        /\ \/ u \in Uses
           \/ \E t \in Guest, part \in Part : u = TaskUse(t, part)'
           \/ u = OpUse'
    BY UsesOfSameTables DEF Owned, AllSame
  <2>2. u = OpUse' => u = n
    BY <2>1, Entries
  <2>3. ASSUME NEW t \in Guest, NEW part \in Part, u = TaskUse(t, part)'
        PROVE  u \in Uses \/ u = n
    <3>1. u = n \/ u = TaskUse(t, part)
      BY <2>3
    <3> QED
      BY <2>1, <3>1, UsesAre DEF UsesSplit
  <2> QED
    BY <2>1, <2>2, <2>3
<1>2. UppersPoint'
  BY UsesOfSameTables DEF Owned, AllSame
<1> QED
  BY <1>1, <1>2, FreshUse DEF Owned

-----------------------------------------------------------------------------
\* The inductive invariant.  What an operation has done so far:
PageOp == op.stage \in {"page", "map", "read"}
Loading(t) == PageOp /\ op.t = t

OpInv ==
  /\ At("idle") => op = Idle
  /\ ~At("idle") => op.t \in Guest
  /\ op.stage \in {"struct", "board", "window"} => vm[op.t] = "none"
  /\ At("board") => \A v \in Va : Leaf(op.t, v) = None
  /\ At("window") =>
       /\ op.va \in WINDOW .. WINDOW_END
       /\ \A v \in Va : Leaf(op.t, v) = IF v \in WINDOW .. op.va - 1 THEN Trap ELSE None
  /\ PageOp => op.va \in Va /\ vm[op.t] \in {"created", "loaded"}
  /\ At("page") \/ At("map") => Leaf(op.t, op.va) = None
  /\ At("map") \/ At("read") => op.page \in Page
  /\ At("read") => /\ vm[op.t] = "created" /\ Leaf(op.t, op.va) = op.page
                   /\ <<op.t, op.va>> \notin tails
  /\ PageOp /\ vm[op.t] = "created" =>
       /\ op.va <= image[op.t]
       /\ \A v \in Va \ Window : v > op.va => Leaf(op.t, v) = None

\* A VM has no page before it is created and no memory before it is loaded.
VmInv ==
  \A t \in Guest :
    /\ vm[t] = "none" => \A v \in Va : Leaf(t, v) \notin Page
    /\ vm[t] = "created" /\ ~Loading(t) => \A v \in Va \ Window : Leaf(t, v) = None
    /\ vm[t] # "none" => \A v \in Window : Leaf(t, v) = Trap

\* What the loader gave back it had mapped.
TailInv ==
  \A t \in Guest, va \in Va :
    <<t, va>> \in tails => vm[t] \in {"loaded", "dead"} /\ Leaf(t, va) \in Page

IInv == Types /\ Owned /\ OpInv /\ VmInv /\ TailInv

\* Where the pages of a VM's memory are, and how many tables there are.
LeafsSame == \A t \in Guest, va \in Va : Leaf(t, va)' = Leaf(t, va)
TablesSame == \A t \in Guest : Tables(t)' = Tables(t)
Quiet == LeafsSame /\ TablesSame

LEMMA AllSameQuiet ==
  ASSUME AllSame
  PROVE  Quiet
BY DEF AllSame, SameTables, Quiet, LeafsSame, TablesSame

-----------------------------------------------------------------------------
\* Steps that touch neither the pool nor a table.
LEMMA StillStep ==
  ASSUME IInv, UNCHANGED <<pool, content, tsk, tails>>, op'.stage # "map"
  PROVE  /\ Owned' /\ Quiet
         /\ memap' \in [Page -> {0, 1}] /\ last_page_id' \in Page
         /\ content' \in [Page -> [TableIndex -> Entry]]
         /\ tsk' \in [Guest -> [Part -> Page \cup {None}]] /\ tails' \subseteq Guest \X Va
<1>1. AllSame
  BY NothingWritten DEF IInv, Owned
<1>2. Owned'
  BY <1>1, OwnedStill DEF IInv, pool
<1> QED
  BY <1>1, <1>2, AllSameQuiet DEF IInv, Types, pool

\* A step that moves no page keeps what is said of the VMs whose loading it
\* does not end.
LEMMA VmInvStep ==
  ASSUME VmInv, LeafsSame,
         \A t \in Guest :
           /\ vm'[t] = "none" <=> vm[t] = "none"
           /\ vm'[t] = "created" => vm[t] = "created"
           /\ Loading(t) => Loading(t)' \/ vm'[t] # "created"
  PROVE  VmInv'
<1> SUFFICES ASSUME NEW t \in Guest
             PROVE  VmInv!(t)'
  BY DEF VmInv
<1>1. \A v \in Va : Leaf(t, v)' = Leaf(t, v)
  BY DEF LeafsSame
<1>2. \A v \in Window : v \in Va
  BY Sizes DEF Window, Va
<1> QED
  BY <1>1, <1>2 DEF VmInv

LEMMA CreateStep ==
  ASSUME IInv, NEW t \in Guest, NEW img \in Image, Create(t, img)
  PROVE  IInv' /\ Quiet
<1>1. /\ op' = [stage |-> "struct", t |-> t, va |-> 0, page |-> None]
      /\ UNCHANGED <<pool, content, tsk, tails, counts, vm, image>>
      /\ vm[t] = "none" /\ op = Idle
  BY DEF Create, Slot, Idle
<1>2. /\ Owned' /\ Quiet
      /\ memap' \in [Page -> {0, 1}] /\ last_page_id' \in Page
      /\ content' \in [Page -> [TableIndex -> Entry]]
      /\ tsk' \in [Guest -> [Part -> Page \cup {None}]] /\ tails' \subseteq Guest \X Va
  BY <1>1, StillStep
<1>3. Types'
  <2>1. wanted' \in [Guest -> Image \cup {0}] /\ bl_args' \in Image \cup {0}
    BY DEF Create, IInv, Types
  <2>2. op' \in Operation
    BY <1>1, Sizes DEF Stage, Operation
  <2> QED
    BY <1>1, <1>2, <2>1, <2>2 DEF IInv, Types, counts
<1>4. OpInv'
  BY <1>1 DEF OpInv, At, PageOp
<1>5. VmInv'
  <2>1. \A u \in Guest : ~Loading(u)
    BY <1>1 DEF Loading, PageOp, Idle
  <2> QED
    BY <1>1, <1>2, <2>1, VmInvStep DEF IInv, Quiet
<1>6. TailInv'
  BY <1>1, <1>2 DEF IInv, TailInv, Quiet, LeafsSame
<1> QED
  BY <1>2, <1>3, <1>4, <1>5, <1>6 DEF IInv

LEMMA EnterTableStep ==
  ASSUME IInv, EnterTable
  PROVE  IInv' /\ Quiet
<1>1. /\ op' = [op EXCEPT !.stage = "in_fifo"] /\ op.stage = "window" /\ op.va = WINDOW_END
      /\ UNCHANGED <<pool, content, tsk, tails, counts, args>>
      /\ vm' = [vm EXCEPT ![op.t] = "created"]
  BY DEF EnterTable, At, DeviceEnd
<1>2. op.t \in Guest /\ vm[op.t] = "none"
  BY <1>1 DEF IInv, OpInv, At
<1>3. op' \in Operation
      /\ op'.stage = "in_fifo" /\ op'.t = op.t
  BY <1>1 DEF IInv, Types, Stage, Operation
<1>4. /\ Owned' /\ Quiet
      /\ memap' \in [Page -> {0, 1}] /\ last_page_id' \in Page
      /\ content' \in [Page -> [TableIndex -> Entry]]
      /\ tsk' \in [Guest -> [Part -> Page \cup {None}]] /\ tails' \subseteq Guest \X Va
  BY <1>1, <1>3, StillStep
<1>5. Types'
  BY <1>1, <1>2, <1>3, <1>4 DEF IInv, Types, counts, args
<1>6. OpInv'
  BY <1>2, <1>3 DEF OpInv, At, PageOp
<1>7. /\ \A t \in Guest : vm'[t] = IF t = op.t THEN "created" ELSE vm[t]
      /\ \A t \in Guest : ~Loading(t) /\ ~Loading(t)'
  BY <1>1, <1>2, <1>3 DEF IInv, Types, Loading, PageOp
<1>8. \A t \in Guest, v \in Va : t = op.t => Leaf(t, v)' = IF v \in Window THEN Trap ELSE None
  BY <1>1, <1>2, <1>4, Sizes DEF IInv, OpInv, At, Quiet, LeafsSame, Window
<1>9. VmInv'
  <2> SUFFICES ASSUME NEW t \in Guest
               PROVE  VmInv!(t)'
    BY DEF VmInv
  <2>1. \A v \in Window : v \in Va
    BY Sizes DEF Window, Va
  <2>2. CASE t = op.t
    BY <1>7, <1>8, <2>1, <2>2
  <2>3. CASE t # op.t
    <3>1. \A v \in Va : Leaf(t, v)' = Leaf(t, v)
      BY <1>4 DEF Quiet, LeafsSame
    <3> QED
      BY <1>7, <2>1, <2>3, <3>1 DEF IInv, VmInv
  <2> QED
    BY <2>2, <2>3
<1>10. TailInv'
  BY <1>1, <1>2, <1>4, <1>7 DEF IInv, TailInv, Quiet, LeafsSame
<1> QED
  BY <1>4, <1>5, <1>6, <1>9, <1>10 DEF IInv

LEMMA FirstPage == 0 \in Va /\ 0 \notin Window
BY Sizes DEF Va, Window

LEMMA LoadStep ==
  ASSUME IInv, NEW t \in Guest, Load(t)
  PROVE  IInv' /\ Quiet
<1>1. /\ op' = [stage |-> "page", t |-> t, va |-> 0, page |-> None]
      /\ UNCHANGED <<pool, content, tsk, tails, counts, vm, bl_args, wanted>>
      /\ vm[t] = "created" /\ op = Idle
  BY DEF Load, StartPage, Idle
<1>2. /\ Owned' /\ Quiet
      /\ memap' \in [Page -> {0, 1}] /\ last_page_id' \in Page
      /\ content' \in [Page -> [TableIndex -> Entry]]
      /\ tsk' \in [Guest -> [Part -> Page \cup {None}]] /\ tails' \subseteq Guest \X Va
  BY <1>1, StillStep
<1>3. image' \in [Guest -> Image \cup {0}]
  BY DEF Load, IInv, Types
<1>4. Types'
  <2>1. op' \in Operation
    BY <1>1, Sizes DEF Stage, Operation
  <2> QED
    BY <1>1, <1>2, <1>3, <2>1 DEF IInv, Types, counts
<1>5. \A v \in Va \ Window : Leaf(t, v)' = None
  BY <1>1, <1>2 DEF IInv, VmInv, Loading, PageOp, Idle, Quiet, LeafsSame
<1>6. 0 <= image'[t]
  BY <1>3, Sizes DEF Image
<1>7. OpInv'
  BY <1>1, <1>5, <1>6, FirstPage DEF OpInv, At, PageOp
<1>8. VmInv'
  <2>1. \A u \in Guest : ~Loading(u)
    BY <1>1 DEF Loading, PageOp, Idle
  <2> QED
    BY <1>1, <1>2, <2>1, VmInvStep DEF IInv, Quiet
<1>9. TailInv'
  BY <1>1, <1>2 DEF IInv, TailInv, Quiet, LeafsSame
<1> QED
  BY <1>2, <1>4, <1>7, <1>8, <1>9 DEF IInv

LEMMA FaultStep ==
  ASSUME IInv, NEW t \in Guest, NEW va \in Va, Fault(t, va)
  PROVE  IInv' /\ Quiet
<1>1. /\ op' = [stage |-> "page", t |-> t, va |-> va, page |-> None]
      /\ UNCHANGED <<pool, content, tsk, tails, counts, vm, args>>
      /\ vm[t] = "loaded" /\ op = Idle /\ Leaf(t, va) = None
  BY DEF Fault, StartPage, Idle
<1>2. /\ Owned' /\ Quiet
      /\ memap' \in [Page -> {0, 1}] /\ last_page_id' \in Page
      /\ content' \in [Page -> [TableIndex -> Entry]]
      /\ tsk' \in [Guest -> [Part -> Page \cup {None}]] /\ tails' \subseteq Guest \X Va
  BY <1>1, StillStep
<1>3. Types'
  <2>1. op' \in Operation
    BY <1>1, Sizes DEF Stage, Operation, Va
  <2> QED
    BY <1>1, <1>2, <2>1 DEF IInv, Types, counts, args
<1>4. OpInv'
  BY <1>1, <1>2 DEF OpInv, At, PageOp, Quiet, LeafsSame
<1>5. VmInv'
  <2>1. \A u \in Guest : ~Loading(u)
    BY <1>1 DEF Loading, PageOp, Idle
  <2> QED
    BY <1>1, <1>2, <2>1, VmInvStep DEF IInv, Quiet
<1>6. TailInv'
  BY <1>1, <1>2 DEF IInv, TailInv, Quiet, LeafsSame
<1> QED
  BY <1>2, <1>3, <1>4, <1>5, <1>6 DEF IInv

LEMMA NoSuchFileStep ==
  ASSUME IInv, NEW t \in Guest, NoSuchFile(t)
  PROVE  IInv' /\ Quiet
<1>1. /\ op' = Idle /\ op = Idle /\ vm[t] = "created" /\ vm' = [vm EXCEPT ![t] = "dead"]
      /\ UNCHANGED <<pool, content, tsk, tails, counts, args>>
  BY DEF NoSuchFile
<1>2. /\ Owned' /\ Quiet
      /\ memap' \in [Page -> {0, 1}] /\ last_page_id' \in Page
      /\ content' \in [Page -> [TableIndex -> Entry]]
      /\ tsk' \in [Guest -> [Part -> Page \cup {None}]] /\ tails' \subseteq Guest \X Va
  BY <1>1, StillStep DEF Idle
<1>3. Types'
  BY <1>1, <1>2 DEF IInv, Types, counts, args
<1>4. OpInv'
  BY <1>1 DEF OpInv, At, PageOp, Idle
<1>5. \A u \in Guest : vm'[u] = IF u = t THEN "dead" ELSE vm[u]
  BY <1>1 DEF IInv, Types
<1>6. VmInv'
  <2>1. \A u \in Guest : ~Loading(u)
    BY <1>1 DEF Loading, PageOp, Idle
  <2> QED
    BY <1>1, <1>2, <1>5, <2>1, VmInvStep DEF IInv, Quiet
<1>7. TailInv'
  BY <1>1, <1>2, <1>5 DEF IInv, TailInv, Quiet, LeafsSame
<1> QED
  BY <1>2, <1>3, <1>4, <1>6, <1>7 DEF IInv

LEMMA NoFreePagesStep ==
  ASSUME IInv, NoFreePages
  PROVE  IInv' /\ Quiet
<1>1. op' = Idle /\ UNCHANGED <<pool, content, tsk, tails, counts, args>>
  BY DEF NoFreePages
<1>2. /\ Owned' /\ Quiet
      /\ memap' \in [Page -> {0, 1}] /\ last_page_id' \in Page
      /\ content' \in [Page -> [TableIndex -> Entry]]
      /\ tsk' \in [Guest -> [Part -> Page \cup {None}]] /\ tails' \subseteq Guest \X Va
  BY <1>1, StillStep DEF Idle
<1>3. /\ vm' \in [Guest -> {"none", "created", "loaded", "dead"}]
      /\ \A u \in Guest : \/ vm'[u] = vm[u] /\ ~Loading(u)
                          \/ vm'[u] = "dead" /\ vm[u] \in {"created", "loaded"}
  <2>1. vm \in [Guest -> {"none", "created", "loaded", "dead"}]
    BY DEF IInv, Types
  <2>2. CASE CreateNeedsPage /\ UNCHANGED vm
    BY <2>1, <2>2 DEF CreateNeedsPage, Loading, PageOp, At
  <2>3. CASE /\ CreateNeedsPage
             /\ \E v \in Guest : vm[v] = "loaded" /\ vm' = [vm EXCEPT ![v] = "dead"]
    BY <2>1, <2>3 DEF CreateNeedsPage, Loading, PageOp, At
  <2>4. CASE VmNeedsPage /\ vm' = [vm EXCEPT ![op.t] = "dead"]
    <3>1. PageOp /\ ~At("idle")
      BY <2>4 DEF VmNeedsPage, PageOp, At
    <3>2. op.t \in Guest /\ vm[op.t] \in {"created", "loaded"}
      BY <3>1 DEF IInv, OpInv
    <3>3. \A u \in Guest : u # op.t => ~Loading(u)
      BY DEF Loading
    <3> QED
      BY <2>1, <2>4, <3>2, <3>3
  <2> QED
    BY <2>2, <2>3, <2>4 DEF NoFreePages
<1>4. Types'
  <2>1. op' \in Operation
    BY <1>1, Sizes DEF Idle, Stage, Operation
  <2> QED
    BY <1>1, <1>2, <1>3, <2>1 DEF IInv, Types, counts, args
<1>5. OpInv'
  BY <1>1 DEF OpInv, At, PageOp, Idle
<1>6. VmInv'
  BY <1>2, <1>3, VmInvStep DEF IInv, Quiet
<1>7. TailInv'
  BY <1>1, <1>2, <1>3 DEF IInv, TailInv, Quiet, LeafsSame
<1> QED
  BY <1>2, <1>4, <1>5, <1>6, <1>7 DEF IInv

-----------------------------------------------------------------------------
\* Steps that take a page, and what they do with it.
LEMMA PartTaken ==
  ASSUME IInv, NEW t \in Guest, NEW part \in Part \ {"first_table"},
         NEW p, get_free_page(p), content' = Cleared(p),
         tsk' = [tsk EXCEPT ![t][part] = p], tails' = tails, op'.stage # "map"
  PROVE  /\ Owned' /\ Quiet
         /\ memap' \in [Page -> {0, 1}] /\ last_page_id' \in Page
         /\ content' \in [Page -> [TableIndex -> Entry]]
         /\ tsk' \in [Guest -> [Part -> Page \cup {None}]]
<1>1. /\ p \in Free /\ p \in Page /\ memap' = [memap EXCEPT ![p] = 1]
      /\ memap' \in [Page -> {0, 1}] /\ last_page_id' \in Page
  BY FreePage DEF IInv
<1>2. content' \in [Page -> [TableIndex -> Entry]]
  BY <1>1, ClearedPage DEF IInv
<1>3. /\ tsk' \in [Guest -> [Part -> Page \cup {None}]]
      /\ \A u \in Guest, q \in Part : tsk'[u][q] = IF u = t /\ q = part THEN p ELSE tsk[u][q]
  BY <1>1 DEF IInv, Types
<1>4. AllSame
  <2> SUFFICES ASSUME NEW u \in Guest
               PROVE  SameTables(u)
    BY DEF AllSame
  <2>1. p \in Page \ Tables(u)
    BY <1>1, FreshIsNoTable DEF IInv, Owned
  <2>2. tsk'[u]["first_table"] = tsk[u]["first_table"]
    BY <1>3 DEF Part
  <2> QED
    BY <2>1, <2>2, WriteElsewhere DEF Cleared, IInv, Owned
<1>5. Owned'
  <2> DEFINE n == <<p, "task", <<t, part>> >>
  <2>1. n[1] = p
    OBVIOUS
  <2>2. \A u \in Guest, q \in Part : TaskUse(u, q)' = n \/ TaskUse(u, q)' = TaskUse(u, q)
    BY <1>3 DEF TaskUse
  <2>3. OpUse'[1] = None
    BY DEF OpUse, At
  <2> HIDE DEF n
  <2> QED
    BY <1>1, <1>4, <2>1, <2>2, <2>3, OwnedFresh DEF IInv
<1> QED
  BY <1>1, <1>2, <1>3, <1>4, <1>5, AllSameQuiet

LEMMA TakeBoardStep ==
  ASSUME IInv, TakeBoard
  PROVE  IInv' /\ Quiet
<1>1. /\ op.stage = "board" /\ op' = [op EXCEPT !.stage = "window", !.va = WINDOW]
      /\ UNCHANGED <<counts, vm, args, tails>>
  BY DEF TakeBoard, TakePart, At
<1>2. op.t \in Guest /\ vm[op.t] = "none" /\ \A v \in Va : Leaf(op.t, v) = None
  BY <1>1 DEF IInv, OpInv, At
<1>3. /\ op' \in Operation
      /\ op'.stage = "window" /\ op'.t = op.t /\ op'.va = WINDOW
  <2>1. WINDOW \in 0 .. VA_NR /\ "window" \in Stage
    BY Sizes DEF Stage, Operation
  <2>2. op \in Operation
    BY DEF IInv, Types
  <2> QED
    BY <1>1, <2>1, <2>2 DEF Operation
<1>4. PICK p : /\ get_free_page(p) /\ content' = Cleared(p)
               /\ tsk' = [tsk EXCEPT ![op.t]["board"] = p]
  BY DEF TakeBoard, TakePart
<1>5. /\ Owned' /\ Quiet
      /\ memap' \in [Page -> {0, 1}] /\ last_page_id' \in Page
      /\ content' \in [Page -> [TableIndex -> Entry]]
      /\ tsk' \in [Guest -> [Part -> Page \cup {None}]]
  <2>1. "board" \in Part \ {"first_table"}
    BY DEF Part
  <2> QED
    BY <1>1, <1>2, <1>3, <1>4, <2>1, PartTaken
<1>6. Types'
  BY <1>1, <1>3, <1>5 DEF IInv, Types, counts, args
<1>7. OpInv'
  <2>1. \A t \in Guest, v \in Va : t = op.t => Leaf(t, v)' = None
    BY <1>2, <1>5 DEF Quiet, LeafsSame
  <2>2. /\ WINDOW \in WINDOW .. WINDOW_END
        /\ \A v \in Va : v \notin WINDOW .. WINDOW - 1
    BY Sizes DEF Va
  <2>3. \A v \in Va : Leaf(op.t, v)' = None
    BY <1>2, <1>3, <2>1
  <2> QED
    BY <1>1, <1>2, <1>3, <2>2, <2>3 DEF OpInv, At, PageOp
<1>8. VmInv'
  <2>1. \A u \in Guest : ~Loading(u)
    BY <1>1 DEF Loading, PageOp
  <2> QED
    BY <1>1, <1>5, <2>1, VmInvStep DEF IInv, Quiet
<1>9. TailInv'
  BY <1>1, <1>5 DEF IInv, TailInv, Quiet, LeafsSame
<1> QED
  BY <1>5, <1>6, <1>7, <1>8, <1>9 DEF IInv

LEMMA TakeFifoStep ==
  ASSUME IInv, TakeInFifo \/ TakeOutFifo
  PROVE  IInv' /\ Quiet
<1>1. PICK part \in {"in_fifo", "out_fifo"} :
        /\ op.stage = part
        /\ \E p \in Page : /\ get_free_page(p) /\ content' = Cleared(p)
                           /\ tsk' = [tsk EXCEPT ![op.t][part] = p]
        /\ op' \in {Idle, [op EXCEPT !.stage = "out_fifo"]}
        /\ UNCHANGED <<counts, vm, args, tails>>
  BY DEF TakeInFifo, TakeOutFifo, TakePart, At
<1>2. op.t \in Guest
  BY <1>1 DEF IInv, OpInv, At
<1>3. /\ op' \in Operation
      /\ op' = Idle \/ (op'.stage = "out_fifo" /\ op'.t = op.t)
  <2>1. op \in Operation /\ "out_fifo" \in Stage
    BY DEF IInv, Types, Stage
  <2>2. Idle \in Operation
    BY Sizes DEF Idle, Stage, Operation
  <2>3. CASE op' = Idle
    BY <2>2, <2>3
  <2>4. CASE op' = [op EXCEPT !.stage = "out_fifo"]
    BY <2>1, <2>4 DEF Operation
  <2> QED
    BY <1>1, <2>3, <2>4
<1>4. /\ Owned' /\ Quiet
      /\ memap' \in [Page -> {0, 1}] /\ last_page_id' \in Page
      /\ content' \in [Page -> [TableIndex -> Entry]]
      /\ tsk' \in [Guest -> [Part -> Page \cup {None}]]
  <2>1. part \in Part \ {"first_table"}
    BY DEF Part
  <2>2. op'.stage # "map"
    BY <1>3 DEF Idle
  <2>3. PICK p : /\ get_free_page(p) /\ content' = Cleared(p)
                 /\ tsk' = [tsk EXCEPT ![op.t][part] = p]
    BY <1>1
  <2> QED
    BY <1>1, <1>2, <2>1, <2>2, <2>3, PartTaken
<1>5. Types'
  BY <1>1, <1>3, <1>4 DEF IInv, Types, counts, args
<1>6. OpInv'
  BY <1>2, <1>3 DEF OpInv, At, PageOp, Idle
<1>7. VmInv'
  <2>1. \A u \in Guest : ~Loading(u)
    BY <1>1 DEF Loading, PageOp
  <2> QED
    BY <1>1, <1>4, <2>1, VmInvStep DEF IInv, Quiet
<1>8. TailInv'
  BY <1>1, <1>4 DEF IInv, TailInv, Quiet, LeafsSame
<1> QED
  BY <1>4, <1>5, <1>6, <1>7, <1>8 DEF IInv

LEMMA TakePageStep ==
  ASSUME IInv, TakePage
  PROVE  IInv' /\ Quiet
<1>1. PICK p \in Page : /\ get_free_page(p) /\ content' = Cleared(p)
                        /\ op' = [op EXCEPT !.stage = "map", !.page = p]
  BY DEF TakePage
<1>2. op.stage = "page" /\ UNCHANGED <<tsk, counts, vm, args, tails>>
  BY DEF TakePage, At
<1>3. /\ p \in Free /\ memap' = [memap EXCEPT ![p] = 1]
      /\ memap' \in [Page -> {0, 1}] /\ last_page_id' \in Page
      /\ content' \in [Page -> [TableIndex -> Entry]]
  BY <1>1, FreePage, ClearedPage DEF IInv
<1>4. /\ op' \in Operation
      /\ op'.stage = "map" /\ op'.t = op.t /\ op'.va = op.va /\ op'.page = p
  <2>1. op \in Operation
    BY DEF IInv, Types
  <2>2. "map" \in Stage
    BY DEF Stage, Operation
  <2> QED
    BY <1>1, <2>1, <2>2 DEF Operation
<1>5. AllSame
  <2> SUFFICES ASSUME NEW u \in Guest
               PROVE  SameTables(u)
    BY DEF AllSame
  <2>1. p \in Page \ Tables(u)
    BY <1>3, FreshIsNoTable DEF IInv, Owned
  <2> QED
    BY <1>1, <1>2, <2>1, WriteElsewhere DEF Cleared, IInv, Owned
<1>6. Quiet
  BY <1>5, AllSameQuiet
<1>7. Owned'
  <2> DEFINE n == <<p, "op", <<op.t, op.va>> >>
  <2>1. n[1] = p
    OBVIOUS
  <2>2. \A u \in Guest, q \in Part : TaskUse(u, q)' = TaskUse(u, q)
    BY <1>2 DEF TaskUse
  <2>3. OpUse' = n
    BY <1>4 DEF OpUse, At
  <2> HIDE DEF n
  <2> QED
    BY <1>2, <1>3, <1>5, <2>1, <2>2, <2>3, OwnedFresh DEF IInv
<1>8. Types'
  BY <1>2, <1>3, <1>4 DEF IInv, Types, counts, args
<1>9. \A u \in Guest : Loading(u) => Loading(u)'
  BY <1>2, <1>4 DEF Loading, PageOp
<1>10. OpInv'
  <2>1. /\ op.t \in Guest /\ op.va \in Va /\ vm[op.t] \in {"created", "loaded"}
        /\ Leaf(op.t, op.va) = None
        /\ vm[op.t] = "created" =>
             op.va <= image[op.t] /\ \A v \in Va \ Window : v > op.va => Leaf(op.t, v) = None
    BY <1>2 DEF IInv, OpInv, At, PageOp
  <2>2. \A t \in Guest, v \in Va : t = op.t => Leaf(t, v)' = Leaf(op.t, v)
    BY <1>6 DEF Quiet, LeafsSame
  <2> QED
    BY <1>2, <1>3, <1>4, <2>1, <2>2 DEF OpInv, At, PageOp, args
<1>11. VmInv'
  BY <1>2, <1>6, <1>9, VmInvStep DEF IInv, Quiet
<1>12. TailInv'
  BY <1>2, <1>6 DEF IInv, TailInv, Quiet, LeafsSame
<1> QED
  BY <1>6, <1>7, <1>8, <1>10, <1>11, <1>12 DEF IInv

-----------------------------------------------------------------------------
\* Steps that write to a VM's memory, or give a page of it back.
LEMMA MemoryInUse ==
  ASSUME NEW t \in Guest, NEW va \in Va, <<t, va>> \notin tails, Leaf(t, va) \in Page
  PROVE  MemoryUse(t, va) \in Uses
<1>1. MemoryUse(t, va)[1] \in Page
  BY DEF MemoryUse
<1> QED
  BY <1>1, UsesAre DEF UsesSplit

LEMMA MemoryWritten ==
  ASSUME IInv, NEW p \in Page,
         \A u \in Uses : u[1] = p => u[2] = "memory",
         content' = [content EXCEPT ![p] = Garbage], UNCHANGED <<pool, tsk, tails>>,
         op'.stage # "map"
  PROVE  Owned' /\ Quiet /\ content' \in [Page -> [TableIndex -> Entry]]
<1>1. AllSame
  <2> SUFFICES ASSUME NEW t \in Guest
               PROVE  SameTables(t)
    BY DEF AllSame
  <2>1. p \in Page \ Tables(t)
    <3>1. SUFFICES ASSUME p \in Tables(t)
                   PROVE  FALSE
      OBVIOUS
    <3>2. PICK u \in Uses : u[1] = p /\ (u[2] = "table" \/ u = TaskUse(t, "first_table"))
      BY <3>1, TablesInUse DEF IInv, Owned
    <3>3. TaskUse(t, "first_table")[2] = "task"
      BY DEF TaskUse
    <3> QED
      BY <3>2, <3>3
  <2> QED
    BY <2>1, WriteElsewhere DEF IInv, Owned
<1>2. Garbage \in [TableIndex -> Entry]
  BY Entries DEF Garbage, TableIndex
<1> QED
  BY <1>1, <1>2, AllSameQuiet, OwnedStill DEF IInv, Types, pool

LEMMA ReadPageStep ==
  ASSUME IInv, ReadPage
  PROVE  IInv' /\ Quiet
<1>1. /\ op.stage = "read" /\ op.va < image[op.t]
      /\ content' = [content EXCEPT ![op.page] = Garbage]
      /\ op' = [stage |-> "page", t |-> op.t, va |-> op.va + 1, page |-> None]
      /\ UNCHANGED <<pool, tsk, counts, vm, args, tails>>
  BY DEF ReadPage, At, StartPage, Idle
<1>2. /\ op.t \in Guest /\ op.va \in Va /\ vm[op.t] = "created" /\ op.page \in Page
      /\ Leaf(op.t, op.va) = op.page /\ <<op.t, op.va>> \notin tails
      /\ \A v \in Va \ Window : v > op.va => Leaf(op.t, v) = None
  BY <1>1 DEF IInv, OpInv, At, PageOp
<1>3. /\ op.va \in Nat /\ image[op.t] \in Nat /\ image[op.t] < WINDOW
      /\ op.va + 1 \in Va /\ op.va + 1 \notin Window /\ op.va + 1 <= image[op.t]
      /\ op.va + 1 \in 0 .. VA_NR
  <2>1. image[op.t] \in Image \cup {0}
    BY <1>2 DEF IInv, Types
  <2>2. image[op.t] \in Nat /\ image[op.t] < WINDOW
    BY <2>1, Sizes DEF Image
  <2> QED
    BY <1>1, <1>2, <2>2, Sizes DEF Va, Window
<1>4. Owned' /\ Quiet /\ content' \in [Page -> [TableIndex -> Entry]]
  <2>1. MemoryUse(op.t, op.va) \in Uses
    BY <1>2, MemoryInUse
  <2>2. /\ MemoryUse(op.t, op.va)[1] = op.page
        /\ MemoryUse(op.t, op.va)[2] = "memory"
    BY <1>2 DEF MemoryUse
  <2>3. \A u \in Uses : u[1] = op.page => u[2] = "memory"
    BY <2>1, <2>2 DEF IInv, Owned, Injective
  <2> QED
    BY <1>1, <1>2, <2>3, MemoryWritten
<1>5. Types'
  <2>1. op' \in Operation
    BY <1>1, <1>2, <1>3 DEF Stage, Operation
  <2> QED
    BY <1>1, <1>4, <2>1 DEF IInv, Types, counts, args, pool
<1>6. OpInv'
  <2>1. \A t \in Guest, v \in Va : t = op.t => Leaf(t, v)' = Leaf(op.t, v)
    BY <1>4 DEF Quiet, LeafsSame
  <2>2. op'.t = op.t /\ op'.va = op.va + 1 /\ op'.stage = "page"
    BY <1>1
  <2>3. \A v \in Va \ Window : v >= op.va + 1 => Leaf(op.t, v)' = None
    <3>1. \A v \in Va \ Window : v >= op.va + 1 => v > op.va
      BY <1>3, Sizes DEF Va
    <3> QED
      BY <1>2, <2>1, <2>2, <3>1
  <2>4. Leaf(op.t, op.va)' = None
    BY <1>2, <1>3, <2>1, <2>2, <2>3
  <2>5. \A v \in Va \ Window : v > op.va + 1 => v >= op.va + 1
    BY <1>3, Sizes DEF Va
  <2> QED
    BY <1>1, <1>2, <1>3, <2>2, <2>3, <2>4, <2>5 DEF OpInv, At, PageOp, args
<1>7. VmInv'
  <2>1. \A u \in Guest : Loading(u) => Loading(u)'
    BY <1>1 DEF Loading, PageOp
  <2> QED
    BY <1>1, <1>4, <2>1, VmInvStep DEF IInv, Quiet
<1>8. TailInv'
  BY <1>1, <1>4 DEF IInv, TailInv, Quiet, LeafsSame
<1> QED
  BY <1>4, <1>5, <1>6, <1>7, <1>8 DEF IInv

\* A write that does not stray hits a page that is memory, and no task_struct.
LEMMA GuestWriteStep ==
  ASSUME IInv, GuestWrite, ~stray'
  PROVE  IInv' /\ Quiet
<1>1. PICK p \in Page : /\ \A u \in Uses : u[1] = p => u[2] = "memory"
                        /\ content' = [content EXCEPT ![p] = Garbage]
                        /\ tsk' = Scribbled(p)
  BY DEF GuestWrite, Strays
<1>2. op = Idle /\ op' = Idle /\ UNCHANGED <<pool, tsk, counts, vm, args, tails>>
  <2>1. ASSUME NEW t \in Guest
        PROVE  tsk[t].struct # p
    <3>1. SUFFICES ASSUME tsk[t].struct = p
                   PROVE  FALSE
      OBVIOUS
    <3>2. "struct" \in Part
      BY DEF Part
    <3>3. TaskUse(t, "struct")[1] = p /\ TaskUse(t, "struct")[2] = "task"
      BY <3>1 DEF TaskUse
    <3>4. TaskUse(t, "struct") \in Uses
      BY <3>2, <3>3, UsesAre DEF UsesSplit
    <3> QED
      BY <1>1, <3>3, <3>4
  <2>2. tsk' = tsk
    BY <1>1, <2>1 DEF Scribbled, IInv, Types
  <2> QED
    BY <2>2 DEF GuestWrite
<1>3. Owned' /\ Quiet /\ content' \in [Page -> [TableIndex -> Entry]]
  BY <1>1, <1>2, MemoryWritten DEF Idle
<1>4. Types'
  BY <1>2, <1>3 DEF IInv, Types, counts, args, pool
<1>5. OpInv'
  BY <1>2 DEF OpInv, At, PageOp, Idle
<1>6. VmInv'
  <2>1. \A u \in Guest : ~Loading(u)
    BY <1>2 DEF Loading, PageOp, Idle
  <2> QED
    BY <1>2, <1>3, <2>1, VmInvStep DEF IInv, Quiet
<1>7. TailInv'
  BY <1>2, <1>3 DEF IInv, TailInv, Quiet, LeafsSame
<1> QED
  BY <1>3, <1>4, <1>5, <1>6, <1>7 DEF IInv

LEMMA EndOfFileStep ==
  ASSUME IInv, EndOfFile
  PROVE  IInv' /\ Quiet
<1>1. /\ op.stage = "read" /\ memap' = [memap EXCEPT ![op.page] = 0]
      /\ tails' = tails \cup {<<op.t, op.va>>} /\ op' = Idle
      /\ UNCHANGED <<last_page_id, content, tsk, counts, args>>
  BY DEF EndOfFile, At, free_page
<1>2. /\ op.t \in Guest /\ op.va \in Va /\ vm[op.t] = "created" /\ op.page \in Page
      /\ Leaf(op.t, op.va) = op.page /\ <<op.t, op.va>> \notin tails
  BY <1>1 DEF IInv, OpInv, At, PageOp
<1>3. AllSame /\ Quiet
  BY <1>1, NothingWritten, AllSameQuiet DEF IInv, Owned
<1>4. \A u \in Uses' : u \in Uses /\ u[1] \in Page /\ u # MemoryUse(op.t, op.va)
  <2>1. UsesSplit'
    BY UsesAre, PTL
  <2>2. ASSUME NEW u \in Uses'
        PROVE  u[1] \in Page /\ u \in Uses
    <3>1. /\ u[1] \in Page
          /\ \/ u \in Uses
             \/ \E t \in Guest, part \in Part : u = TaskUse(t, part)'
             \/ u = OpUse'
      BY <1>1, <1>3, UsesOfSameTables DEF IInv, Owned, AllSame
    <3>2. u # OpUse'
      BY <1>1, <3>1, Entries DEF OpUse, At, Idle
    <3>3. ASSUME NEW t \in Guest, NEW part \in Part, u = TaskUse(t, part)'
          PROVE  u \in Uses
      <4>1. u = TaskUse(t, part)
        BY <1>1, <3>3 DEF TaskUse
      <4> QED
        BY <3>1, <4>1, UsesAre DEF UsesSplit
    <3> QED
      BY <3>1, <3>2, <3>3
  <2>3. ASSUME NEW u \in Uses', u[2] = "memory"
        PROVE  u[3] \notin tails'
    <3>0. /\ \A t \in Guest, part \in Part : u # TaskUse(t, part)'
          /\ \A q \in Uppers', i \in TableIndex : u # TableUse(q, i)'
          /\ u # OpUse'
      BY <2>3 DEF TaskUse, TableUse, OpUse
    <3>1. PICK t \in Guest, va \in Va : <<t, va>> \notin tails' /\ u = MemoryUse(t, va)'
      BY <2>1, <2>3, <3>0 DEF UsesSplit
    <3> QED
      BY <3>1 DEF MemoryUse
  <2>4. /\ MemoryUse(op.t, op.va)[2] = "memory"
        /\ MemoryUse(op.t, op.va)[3] = <<op.t, op.va>>
    BY DEF MemoryUse
  <2> QED
    BY <1>1, <2>2, <2>3, <2>4
<1>5. \A u \in Uses' : u[1] # op.page
  <2>1. MemoryUse(op.t, op.va) \in Uses /\ MemoryUse(op.t, op.va)[1] = op.page
    BY <1>2, MemoryInUse DEF MemoryUse
  <2> QED
    BY <1>4, <2>1 DEF IInv, Owned, Injective
<1>6. Owned'
  <2>1. Injective'
    BY <1>4 DEF IInv, Owned, Injective
  <2>2. \A q \in Page : q # op.page => memap'[q] = memap[q]
    BY <1>1 DEF IInv, Types
  <2>3. AllMarked'
    BY <1>4, <1>5, <2>2 DEF IInv, Owned, AllMarked
  <2>4. UppersPoint'
    BY <1>1, <1>3, UsesOfSameTables DEF IInv, Owned, AllSame
  <2> QED
    BY <2>1, <2>3, <2>4 DEF Owned
<1>7. /\ vm' \in [Guest -> {"none", "created", "loaded", "dead"}]
      /\ vm'[op.t] \in {"loaded", "dead"}
      /\ \A u \in Guest : u # op.t => vm'[u] = vm[u]
  BY <1>2 DEF IInv, Types, EndOfFile
<1>8. Types'
  <2>1. op' \in Operation
    BY <1>1, Sizes DEF Idle, Stage, Operation
  <2>2. memap' \in [Page -> {0, 1}]
    BY <1>1 DEF IInv, Types
  <2>3. tails' \subseteq Guest \X Va
    BY <1>1, <1>2 DEF IInv, Types
  <2> QED
    BY <1>1, <1>7, <2>1, <2>2, <2>3 DEF IInv, Types, counts, args
<1>9. OpInv'
  BY <1>1 DEF OpInv, At, PageOp, Idle
<1>10. VmInv'
  <2>1. \A u \in Guest : Loading(u) => vm'[u] # "created"
    BY <1>7 DEF Loading
  <2> QED
    BY <1>2, <1>3, <1>7, <2>1, VmInvStep DEF IInv, Quiet
<1>11. TailInv'
  BY <1>1, <1>2, <1>3, <1>7 DEF IInv, TailInv, Quiet, LeafsSame
<1> QED
  BY <1>3, <1>6, <1>8, <1>9, <1>10, <1>11 DEF IInv

-----------------------------------------------------------------------------
\* The task_struct of a VM: whatever an earlier attempt left is forgotten.
Restarted(t) ==
  /\ \A u \in Guest : u # t => SameTables(u)
  /\ \A v \in Va : Leaf(t, v)' = None
  /\ Tables(t)' = {}

LEMMA TakeStructStep ==
  ASSUME IInv, TakeStruct
  PROVE  IInv' /\ op.t \in Guest /\ vm[op.t] = "none" /\ \E t \in Guest : t = op.t /\ Restarted(t)
<1>1. PICK p \in Page :
        /\ get_free_page(p) /\ content' = Cleared(p)
        /\ tsk' = [tsk EXCEPT ![op.t] =
                     [part \in Part |-> IF part = "struct" THEN p ELSE None]]
  BY DEF TakeStruct
<1>2. /\ op.stage = "struct" /\ op' = [op EXCEPT !.stage = "board"]
      /\ user_pages_count' = [user_pages_count EXCEPT ![op.t] = 0]
      /\ kernel_pages_count' = [kernel_pages_count EXCEPT ![op.t] = 0]
      /\ UNCHANGED <<vm, args, tails>>
  BY DEF TakeStruct, At
<1>3. PICK t \in Guest : t = op.t /\ vm[t] = "none"
  BY <1>2 DEF IInv, OpInv, At
<1>4. /\ p \in Free /\ memap' = [memap EXCEPT ![p] = 1] /\ p # None
      /\ memap' \in [Page -> {0, 1}] /\ last_page_id' \in Page
  BY <1>1, FreePage, Entries DEF IInv
<1>5. /\ content' \in [Page -> [TableIndex -> Entry]]
      /\ \A q \in Page : q # p => content'[q] = content[q]
  BY <1>1, ClearedPage DEF IInv
<1>6. /\ tsk' \in [Guest -> [Part -> Page \cup {None}]]
      /\ \A u \in Guest : u # t => tsk'[u] = tsk[u]
      /\ \A part \in Part : tsk'[t][part] = IF part = "struct" THEN p ELSE None
  BY <1>1, <1>3 DEF IInv, Types
<1>7. ASSUME NEW u \in Guest, u # t
      PROVE  SameTables(u)
  <2>1. p \in Page \ Tables(u)
    BY <1>4, FreshIsNoTable DEF IInv, Owned
  <2> QED
    BY <1>1, <1>6, <1>7, <2>1, WriteElsewhere DEF Cleared, IInv, Owned
<1>8. /\ Lv1(t)' = None
      /\ \A v \in Va : Lv2(t, v)' = None /\ Lv3(t, v)' = None /\ Leaf(t, v)' = None
  <2>1. Lv1(t)' = None
    BY <1>6 DEF Lv1, Part
  <2> QED
    BY <2>1 DEF Lv2, Lv3, Leaf, Below
<1>9. Tables(t)' = {}
  BY <1>8 DEF Tables
<1>10. \A q \in Uppers' : q \in Uppers /\ q \in Page /\ q # p
  <2>1. ASSUME NEW q, NEW u \in Guest, q # None, q = Lv1(u)' \/ \E va \in Va : q = Lv2(u, va)'
        PROVE  q \in Uppers /\ q \in Page /\ q # p
    <3>1. u # t
      BY <1>8, <2>1
    <3>2. q \in Tables(u) /\ q \in Uppers
      BY <1>7, <2>1, <3>1, UppersAreTables DEF SameTables, Tables
    <3> QED
      BY <1>4, <3>2, TablesInPool, FreshIsNoTable DEF IInv, Owned
  <2> QED
    BY <2>1 DEF Uppers
<1>11. Owned'
  <2> DEFINE n == <<p, "task", <<t, "struct">> >>
  <2>1. n[1] = p
    OBVIOUS
  <2>2. UsesSplit'
    BY UsesAre, PTL
  <2>3. ASSUME NEW u \in Uses', u[1] \in Page
        PROVE  u \in Uses \/ u = n
    <3>1. ASSUME NEW s \in Guest, NEW part \in Part, u = TaskUse(s, part)'
          PROVE  u \in Uses \/ u = n
      <4>1. CASE s = t
        BY <1>6, <2>3, <3>1, <4>1, Entries DEF TaskUse
      <4>2. CASE s # t
        <5>1. u = TaskUse(s, part)
          BY <1>6, <3>1, <4>2 DEF TaskUse
        <5> QED
          BY <2>3, <5>1, UsesAre DEF UsesSplit
      <4> QED
        BY <4>1, <4>2
    <3>2. ASSUME NEW q \in Uppers', NEW i \in TableIndex, u = TableUse(q, i)'
          PROVE  u \in Uses
      <4>1. u = TableUse(q, i) /\ q \in Uppers
        BY <1>5, <1>10, <3>2 DEF TableUse
      <4> QED
        BY <2>3, <4>1, UsesAre DEF UsesSplit
    <3>3. ASSUME NEW s \in Guest, NEW va \in Va, <<s, va>> \notin tails', u = MemoryUse(s, va)'
          PROVE  u \in Uses
      <4>1. s # t
        BY <1>8, <2>3, <3>3, Entries DEF MemoryUse
      <4>2. u = MemoryUse(s, va) /\ <<s, va>> \notin tails
        BY <1>2, <1>7, <3>3, <4>1 DEF MemoryUse, SameTables
      <4> QED
        BY <2>3, <4>2, UsesAre DEF UsesSplit
    <3>4. u # OpUse'
      BY <1>2, <2>3, Entries DEF OpUse, At
    <3> QED
      BY <2>2, <3>1, <3>2, <3>3, <3>4 DEF UsesSplit
  <2>4. \A u \in Uses' : u[1] \in Page
    BY <2>2 DEF UsesSplit
  <2>5. UppersPoint'
    BY <1>5, <1>10 DEF UppersPoint, IInv, Owned
  <2> HIDE DEF n
  <2> QED
    BY <1>4, <2>1, <2>3, <2>4, <2>5, FreshUse DEF IInv, Owned
<1>12. /\ op' \in Operation
       /\ op'.stage = "board" /\ op'.t = t
  BY <1>2, <1>3 DEF IInv, Types, Stage, Operation
<1>13. Types'
  BY <1>2, <1>3, <1>4, <1>5, <1>6, <1>12 DEF IInv, Types, args
<1>14. OpInv'
  BY <1>2, <1>3, <1>8, <1>12 DEF OpInv, At, PageOp
<1>15. VmInv'
  <2> SUFFICES ASSUME NEW u \in Guest
               PROVE  VmInv!(u)'
    BY DEF VmInv
  <2>1. CASE u = t
    BY <1>2, <1>3, <1>8, <2>1, Entries
  <2>2. CASE u # t
    <3>1. \A v \in Va : Leaf(u, v)' = Leaf(u, v)
      BY <1>7, <2>2 DEF SameTables
    <3>2. \A v \in Window : v \in Va
      BY Sizes DEF Window, Va
    <3>3. ~Loading(u)
      BY <1>2 DEF Loading, PageOp
    <3> QED
      BY <1>2, <3>1, <3>2, <3>3 DEF IInv, VmInv
  <2> QED
    BY <2>1, <2>2
<1>16. TailInv'
  <2> SUFFICES ASSUME NEW u \in Guest, NEW va \in Va, <<u, va>> \in tails'
               PROVE  vm'[u] \in {"loaded", "dead"} /\ Leaf(u, va)' \in Page
    BY DEF TailInv
  <2>1. vm[u] \in {"loaded", "dead"} /\ Leaf(u, va) \in Page
    BY <1>2 DEF IInv, TailInv
  <2>2. u # t
    BY <1>3, <2>1
  <2> QED
    BY <1>2, <1>7, <2>1, <2>2 DEF SameTables
<1>17. \E u \in Guest : u = op.t /\ Restarted(u)
  BY <1>3, <1>7, <1>8, <1>9 DEF Restarted
<1> QED
  BY <1>3, <1>11, <1>13, <1>14, <1>15, <1>16, <1>17 DEF IInv

-----------------------------------------------------------------------------
\* A table is added on the way to a page of t.
Grown(t) ==
  /\ LeafsSame
  /\ \A u \in Guest : u # t => Tables(u)' = Tables(u)
  /\ \E p \in Page : p \notin Tables(t) /\ Tables(t)' = Tables(t) \cup {p}
  /\ kernel_pages_count' = [kernel_pages_count EXCEPT ![t] = @ + 1]
  /\ user_pages_count' = user_pages_count

LEMMA GrowStep ==
  ASSUME IInv, NEW t \in Guest, NEW va \in Va, Grow(t, va),
         op' = op, tails' = tails, user_pages_count' = user_pages_count
  PROVE  /\ Owned' /\ Grown(t)
         /\ memap' \in [Page -> {0, 1}] /\ last_page_id' \in Page
         /\ content' \in [Page -> [TableIndex -> Entry]]
         /\ tsk' \in [Guest -> [Part -> Page \cup {None}]]
         /\ kernel_pages_count' \in [Guest -> Nat]
<1>1. /\ \E p \in Free : Hooks(t, p) /\ memap' = [memap EXCEPT ![p] = 1]
      /\ memap' \in [Page -> {0, 1}] /\ last_page_id' \in Page
      /\ kernel_pages_count' = [kernel_pages_count EXCEPT ![t] = @ + 1]
  BY GrowHooks DEF IInv
<1>2. PICK p \in Free : Hooks(t, p) /\ memap' = [memap EXCEPT ![p] = 1]
  BY <1>1
<1>3. \A u \in Guest : u # t => SameTables(u)
  BY <1>2 DEF Hooks
<1>4. LeafsSame
  BY <1>2, <1>3 DEF Hooks, SameTables, LeafsSame
<1>5. p \in Page \ Tables(t)
  BY FreshIsNoTable DEF IInv, Owned
<1>6. Grown(t)
  BY <1>1, <1>2, <1>3, <1>4, <1>5 DEF Grown, SameTables, Hooks
<1>7. Owned'
  <2>1. PICK n : n[1] = p /\ \A u \in Uses' : u[1] \in Page /\ (u \in Uses \/ u = n)
    BY <1>2 DEF Hooks
  <2> QED
    BY <1>2, <2>1, FreshUse DEF IInv, Owned, Hooks
<1>8. kernel_pages_count' \in [Guest -> Nat]
  BY <1>1 DEF IInv, Types
<1> QED
  BY <1>1, <1>2, <1>6, <1>7, <1>8 DEF Hooks

LEMMA MapWindowGrows ==
  ASSUME IInv, MapWindow, Grow(op.t, op.va), UNCHANGED <<op, user_pages_count>>
  PROVE  IInv' /\ \E t \in Guest : Grown(t)
<1>1. op.stage = "window" /\ op.va < WINDOW_END /\ UNCHANGED <<vm, args, tails>>
  BY DEF MapWindow, At, DeviceEnd
<1>2. PICK t \in Guest, va \in Va : t = op.t /\ va = op.va
  BY <1>1, Sizes DEF IInv, OpInv, At, Va
<1>3. /\ Owned' /\ Grown(t)
      /\ memap' \in [Page -> {0, 1}] /\ last_page_id' \in Page
      /\ content' \in [Page -> [TableIndex -> Entry]]
      /\ tsk' \in [Guest -> [Part -> Page \cup {None}]]
      /\ kernel_pages_count' \in [Guest -> Nat]
  BY <1>1, <1>2, GrowStep
<1>4. LeafsSame
  BY <1>3 DEF Grown
<1>5. Types'
  BY <1>1, <1>3 DEF IInv, Types, args
<1>6. OpInv'
  <2>1. \A v \in Va : Leaf(op.t, v)' = Leaf(op.t, v)
    BY <1>2, <1>4 DEF LeafsSame
  <2> QED
    BY <1>1, <2>1 DEF IInv, OpInv, At, PageOp
<1>7. VmInv'
  <2>1. \A u \in Guest : ~Loading(u)
    BY <1>1 DEF Loading, PageOp
  <2> QED
    BY <1>1, <1>4, <2>1, VmInvStep DEF IInv
<1>8. TailInv'
  BY <1>1, <1>4 DEF IInv, TailInv, LeafsSame
<1>9. \E u \in Guest : Grown(u)
  BY <1>3
<1> QED
  BY <1>3, <1>5, <1>6, <1>7, <1>8, <1>9 DEF IInv

LEMMA MapPageGrows ==
  ASSUME IInv, MapPage, Grow(op.t, op.va), UNCHANGED <<op, user_pages_count>>
  PROVE  IInv' /\ \E t \in Guest : Grown(t)
<1>1. op.stage = "map" /\ UNCHANGED <<vm, args, tails>>
  BY DEF MapPage, At
<1>2. PICK t \in Guest, va \in Va : t = op.t /\ va = op.va
  BY <1>1 DEF IInv, OpInv, At, PageOp
<1>3. /\ Owned' /\ Grown(t)
      /\ memap' \in [Page -> {0, 1}] /\ last_page_id' \in Page
      /\ content' \in [Page -> [TableIndex -> Entry]]
      /\ tsk' \in [Guest -> [Part -> Page \cup {None}]]
      /\ kernel_pages_count' \in [Guest -> Nat]
  BY <1>1, <1>2, GrowStep
<1>4. LeafsSame
  BY <1>3 DEF Grown
<1>5. Types'
  BY <1>1, <1>3 DEF IInv, Types, args
<1>6. OpInv'
  <2>1. \A v \in Va : Leaf(op.t, v)' = Leaf(op.t, v)
    BY <1>2, <1>4 DEF LeafsSame
  <2> QED
    BY <1>1, <1>2, <2>1 DEF IInv, OpInv, At, PageOp, args
<1>7. VmInv'
  <2>1. \A u \in Guest : Loading(u) => Loading(u)'
    BY DEF Loading, PageOp
  <2> QED
    BY <1>1, <1>4, <2>1, VmInvStep DEF IInv
<1>8. TailInv'
  BY <1>1, <1>4 DEF IInv, TailInv, LeafsSame
<1>9. \E u \in Guest : Grown(u)
  BY <1>3
<1> QED
  BY <1>3, <1>5, <1>6, <1>7, <1>8, <1>9 DEF IInv

LEMMA MailboxUnmappedStep ==
  ASSUME IInv, NEW t \in Guest, NEW va \in Va, MailboxUnmapped(t, va)
  PROVE  IInv' /\ (Grown(t) \/ (Quiet /\ UNCHANGED counts))
<1>1. /\ op = Idle /\ vm[t] = "loaded" /\ vm' = [vm EXCEPT ![t] = "dead"]
      /\ UNCHANGED <<user_pages_count, op, args, tails>>
  BY DEF MailboxUnmapped
<1>2. /\ Owned'
      /\ memap' \in [Page -> {0, 1}] /\ last_page_id' \in Page
      /\ content' \in [Page -> [TableIndex -> Entry]]
      /\ tsk' \in [Guest -> [Part -> Page \cup {None}]]
      /\ kernel_pages_count' \in [Guest -> Nat]
      /\ Grown(t) \/ (Quiet /\ UNCHANGED counts)
  <2>1. CASE Grow(t, va)
    BY <1>1, <2>1, GrowStep
  <2>2. CASE UNCHANGED <<pool, content, tsk, kernel_pages_count>>
    BY <1>1, <2>2, StillStep DEF IInv, Types, counts, Idle
  <2> QED
    BY <2>1, <2>2 DEF MailboxUnmapped
<1>3. LeafsSame
  BY <1>2 DEF Grown, Quiet
<1>4. /\ vm' \in [Guest -> {"none", "created", "loaded", "dead"}]
      /\ \A u \in Guest : vm'[u] = IF u = t THEN "dead" ELSE vm[u]
  BY <1>1 DEF IInv, Types
<1>5. Types'
  BY <1>1, <1>2, <1>4 DEF IInv, Types, args
<1>6. OpInv'
  BY <1>1 DEF OpInv, At, PageOp, Idle
<1>7. VmInv'
  <2>1. \A u \in Guest : ~Loading(u)
    BY <1>1 DEF Loading, PageOp, Idle
  <2> QED
    BY <1>1, <1>3, <1>4, <2>1, VmInvStep DEF IInv
<1>8. TailInv'
  BY <1>1, <1>3, <1>4 DEF IInv, TailInv, LeafsSame
<1> QED
  BY <1>2, <1>5, <1>6, <1>7, <1>8 DEF IInv

-----------------------------------------------------------------------------
\* A page of t's memory is entered into the last table.
Entered(t, va, e) ==
  /\ \A u \in Guest, v \in Va : Leaf(u, v)' = IF u = t /\ v = va THEN e ELSE Leaf(u, v)
  /\ TablesSame
  /\ Leaf(t, va) = None /\ e # None
  /\ user_pages_count' = [user_pages_count EXCEPT ![t] = @ + 1]
  /\ kernel_pages_count' = kernel_pages_count

LEMMA EntryStep ==
  ASSUME IInv, NEW t \in Guest, NEW va \in Va, NEW e \in Entry, e # None,
         Leaf(t, va) = None, SetEntry(t, va, e),
         UNCHANGED <<pool, tsk, kernel_pages_count, tails>>,
         op'.stage # "map", e = Trap \/ (At("map") /\ e = op.page)
  PROVE  /\ Owned' /\ Entered(t, va, e)
         /\ content' \in [Page -> [TableIndex -> Entry]]
         /\ user_pages_count' \in [Guest -> Nat]
<1>1. /\ Lv3(t, va) # None
      /\ content' = [content EXCEPT ![Lv3(t, va)][Index(va, 3)] = e]
      /\ user_pages_count' = [user_pages_count EXCEPT ![t] = @ + 1]
      /\ tsk' = tsk /\ tails' = tails /\ EntryWritten(t, va, e)
  BY DEF SetEntry, EntryWritten
<1>2. /\ content' \in [Page -> [TableIndex -> Entry]]
      /\ \A u \in Guest : Tables(u)' = Tables(u)
      /\ \A u \in Guest, v \in Va :
           Leaf(u, v)' = IF u = t /\ v = va THEN e ELSE Leaf(u, v)
      /\ Uppers' = Uppers /\ \A q \in Uppers : content'[q] = content[q]
      /\ UppersPoint'
  <2>1. Types /\ Owned
    BY DEF IInv
  <2> QED
    BY <1>1, <2>1, EntrySet
<1>3. Entered(t, va, e)
  BY <1>1, <1>2 DEF Entered, TablesSame
<1>4. UsesSplit'
  BY UsesAre, PTL
<1>5. ASSUME NEW u \in Uses'
      PROVE  /\ u[1] \in Page
             /\ \/ u \in Uses /\ u[2] # "op"
                \/ u = <<e, "memory", <<t, va>> >>
  <2>1. u[1] \in Page
    BY <1>4 DEF UsesSplit
  <2>2. ASSUME NEW s \in Guest, NEW part \in Part, u = TaskUse(s, part)'
        PROVE  u \in Uses /\ u[2] # "op"
    <3>1. u = TaskUse(s, part)
      BY <2>2 DEF TaskUse
    <3> QED
      BY <2>1, <3>1, UsesAre DEF UsesSplit, TaskUse
  <2>3. ASSUME NEW q \in Uppers', NEW i \in TableIndex, u = TableUse(q, i)'
        PROVE  u \in Uses /\ u[2] # "op"
    <3>1. u = TableUse(q, i) /\ q \in Uppers
      BY <1>2, <2>3 DEF TableUse
    <3> QED
      BY <2>1, <3>1, UsesAre DEF UsesSplit, TableUse
  <2>4. ASSUME NEW s \in Guest, NEW v \in Va, <<s, v>> \notin tails', u = MemoryUse(s, v)'
        PROVE  (u \in Uses /\ u[2] # "op") \/ u = <<e, "memory", <<t, va>> >>
    <3>1. CASE s = t /\ v = va
      BY <1>2, <2>4, <3>1 DEF MemoryUse
    <3>2. CASE ~(s = t /\ v = va)
      <4>1. u = MemoryUse(s, v) /\ <<s, v>> \notin tails
        BY <1>2, <2>4, <3>2 DEF MemoryUse
      <4> QED
        BY <2>1, <4>1, UsesAre DEF UsesSplit, MemoryUse
    <3> QED
      BY <3>1, <3>2
  <2>5. u # OpUse'
    BY <2>1, Entries DEF OpUse, At
  <2> QED
    BY <1>4, <2>1, <2>2, <2>3, <2>4, <2>5 DEF UsesSplit
<1>6. Owned'
  <2>1. CASE e = Trap
    <3>1. \A u \in Uses' : u \in Uses
      BY <1>5, <2>1, Entries
    <3> QED
      BY <1>2, <3>1, FewerUses DEF IInv, Owned, pool
  <2>2. CASE At("map") /\ e = op.page
    <3>1. e \in Page
      BY <2>2 DEF IInv, OpInv
    <3>2. OpUse \in Uses /\ OpUse[1] = e /\ OpUse[2] = "op"
      BY <2>2, <3>1, UsesAre DEF UsesSplit, OpUse
    <3>3. memap[e] = 1
      BY <3>2 DEF IInv, Owned, AllMarked
    <3>4. \A u \in Uses' : u[1] # e \/ u = <<e, "memory", <<t, va>> >>
      BY <1>5, <3>2 DEF IInv, Owned, Injective
    <3>5. \A u \in Uses' : u[1] # e => u \in Uses
      BY <1>5
    <3>6. Injective'
      BY <3>4, <3>5 DEF IInv, Owned, Injective
    <3>7. AllMarked'
      BY <3>3, <3>5 DEF IInv, Owned, AllMarked, pool
    <3> QED
      BY <1>2, <3>6, <3>7 DEF Owned
  <2> QED
    BY <2>1, <2>2
<1>7. user_pages_count' \in [Guest -> Nat]
  BY <1>1 DEF IInv, Types
<1> QED
  BY <1>2, <1>3, <1>6, <1>7

LEMMA MapWindowEnters ==
  ASSUME IInv, MapWindow, SetEntry(op.t, op.va, Trap), op' = [op EXCEPT !.va = @ + 1],
         UNCHANGED <<pool, tsk, kernel_pages_count>>
  PROVE  /\ IInv'
         /\ \E t \in Guest, va \in Window : vm[t] = "none" /\ Entered(t, va, Trap)
<1>1. op.stage = "window" /\ op.va < WINDOW_END /\ UNCHANGED <<vm, args, tails>>
  BY DEF MapWindow, At, DeviceEnd
<1>2. PICK t \in Guest, va \in Window : t = op.t /\ va = op.va /\ vm[t] = "none"
  BY <1>1, Sizes DEF IInv, OpInv, At, Window
<1>3. va \in Va /\ va + 1 \in WINDOW .. WINDOW_END /\ va + 1 \in 0 .. VA_NR
  BY Sizes DEF Window, Va
<1>4. \A v \in Va : Leaf(t, v) = IF v \in WINDOW .. va - 1 THEN Trap ELSE None
  BY <1>1, <1>2 DEF IInv, OpInv, At
<1>5. Leaf(t, va) = None
  BY <1>3, <1>4, Sizes DEF Window
<1>6. /\ op' \in Operation
      /\ op'.stage = "window" /\ op'.t = t /\ op'.va = va + 1
  BY <1>1, <1>2, <1>3 DEF IInv, Types, Operation
<1>7. /\ Owned' /\ Entered(t, va, Trap)
      /\ content' \in [Page -> [TableIndex -> Entry]]
      /\ user_pages_count' \in [Guest -> Nat]
  <2>1. Trap \in Entry /\ Trap # None
    BY Entries
  <2> QED
    BY <1>1, <1>2, <1>3, <1>5, <1>6, <2>1, EntryStep
<1>8. \A u \in Guest, v \in Va : Leaf(u, v)' = IF u = t /\ v = va THEN Trap ELSE Leaf(u, v)
  BY <1>7 DEF Entered
<1>9. Types'
  BY <1>1, <1>6, <1>7 DEF IInv, Types, args, pool
<1>10. OpInv'
  <2>1. \A v \in Va : Leaf(t, v)' = IF v \in WINDOW .. va THEN Trap ELSE None
    BY <1>3, <1>4, <1>8, Sizes DEF Window, Va
  <2>2. va = (va + 1) - 1
    BY <1>3 DEF Va
  <2>3. \A v \in Va : Leaf(op.t, v)' = IF v \in WINDOW .. (va + 1) - 1 THEN Trap ELSE None
    BY <1>6, <2>1, <2>2
  <2> QED
    BY <1>1, <1>2, <1>3, <1>6, <2>3 DEF OpInv, At, PageOp
<1>11. VmInv'
  <2> SUFFICES ASSUME NEW u \in Guest
               PROVE  VmInv!(u)'
    BY DEF VmInv
  <2>1. \A v \in Window : v \in Va
    BY Sizes DEF Window, Va
  <2>2. ~Loading(u)
    BY <1>1 DEF Loading, PageOp
  <2>3. CASE u = t
    BY <1>1, <1>2, <1>8, <2>3, Entries DEF IInv, VmInv
  <2>4. CASE u # t
    <3>1. \A v \in Va : Leaf(u, v)' = Leaf(u, v)
      BY <1>8, <2>4
    <3> QED
      BY <1>1, <2>1, <2>2, <3>1 DEF IInv, VmInv
  <2> QED
    BY <2>3, <2>4
<1>12. TailInv'
  <2> SUFFICES ASSUME NEW u \in Guest, NEW v \in Va, <<u, v>> \in tails'
               PROVE  vm'[u] \in {"loaded", "dead"} /\ Leaf(u, v)' \in Page
    BY DEF TailInv
  <2>1. vm[u] \in {"loaded", "dead"} /\ Leaf(u, v) \in Page
    BY <1>1 DEF IInv, TailInv
  <2> QED
    BY <1>1, <1>2, <1>8, <2>1
<1> QED
  BY <1>2, <1>7, <1>9, <1>10, <1>11, <1>12 DEF IInv

LEMMA MapPageEnters ==
  ASSUME IInv, MapPage, SetEntry(op.t, op.va, op.page),
         op' = IF vm[op.t] = "loaded" THEN Idle ELSE [op EXCEPT !.stage = "read"],
         UNCHANGED <<pool, tsk, kernel_pages_count>>
  PROVE  /\ IInv'
         /\ \E t \in Guest, va \in Va \ Window, e \in Page : Entered(t, va, e)
<1>1. op.stage = "map" /\ UNCHANGED <<vm, args, tails>>
  BY DEF MapPage, At
<1>2. PICK t \in Guest, va \in Va, e \in Page :
        /\ t = op.t /\ va = op.va /\ e = op.page
        /\ vm[t] \in {"created", "loaded"} /\ Leaf(t, va) = None
        /\ vm[t] = "created" =>
             va <= image[t] /\ \A v \in Va \ Window : v > va => Leaf(t, v) = None
  BY <1>1 DEF IInv, OpInv, At, PageOp
<1>3. va \notin Window
  BY <1>2, Entries DEF IInv, VmInv
<1>4. <<t, va>> \notin tails
  BY <1>2, Entries DEF IInv, TailInv
<1>5. /\ op' \in Operation
      /\ \/ vm[t] = "loaded" /\ op' = Idle
         \/ /\ vm[t] = "created" /\ op'.stage = "read" /\ op'.t = t /\ op'.va = va
            /\ op'.page = e
  <2>1. op \in Operation
    BY DEF IInv, Types
  <2>2. CASE vm[t] = "loaded"
    BY <1>2, <2>2, Sizes DEF Idle, Stage, Operation
  <2>3. CASE vm[t] = "created"
    BY <1>2, <2>1, <2>3 DEF Stage, Operation
  <2> QED
    BY <1>2, <2>2, <2>3
<1>6. /\ Owned' /\ Entered(t, va, e)
      /\ content' \in [Page -> [TableIndex -> Entry]]
      /\ user_pages_count' \in [Guest -> Nat]
  <2>1. e \in Entry /\ e # None /\ op'.stage # "map"
    BY <1>5, Entries DEF Idle
  <2>2. At("map") /\ e = op.page /\ SetEntry(t, va, e)
    BY <1>1, <1>2 DEF At
  <2> QED
    BY <1>1, <1>2, <2>1, <2>2, EntryStep
<1>7. \A u \in Guest, v \in Va : Leaf(u, v)' = IF u = t /\ v = va THEN e ELSE Leaf(u, v)
  BY <1>6 DEF Entered
<1>8. Types'
  BY <1>1, <1>5, <1>6 DEF IInv, Types, args, pool
<1>9. OpInv'
  <2>1. CASE op' = Idle
    BY <2>1 DEF OpInv, At, PageOp, Idle
  <2>2. CASE /\ vm[t] = "created" /\ op'.stage = "read" /\ op'.t = t /\ op'.va = va
             /\ op'.page = e
    <3>1. Leaf(op.t, op.va)' = e
      BY <1>7, <2>2
    <3>2. \A v \in Va \ Window : v > va => Leaf(op.t, v)' = None
      <4>1. \A v \in Va : v > va => v # va
        BY DEF Va
      <4> QED
        BY <1>2, <1>7, <2>2, <4>1
    <3> QED
      BY <1>1, <1>2, <1>4, <2>2, <3>1, <3>2 DEF OpInv, At, PageOp, args
  <2> QED
    BY <1>5, <2>1, <2>2
<1>10. VmInv'
  <2> SUFFICES ASSUME NEW u \in Guest
               PROVE  VmInv!(u)'
    BY DEF VmInv
  <2>1. \A v \in Window : v \in Va
    BY Sizes DEF Window, Va
  <2>2. CASE u = t
    <3>1. \A v \in Window : Leaf(u, v)' = Leaf(u, v)
      BY <1>3, <1>7, <2>1
    <3>2. vm'[u] = "created" => Loading(u)'
      BY <1>1, <1>5, <2>2 DEF Loading, PageOp
    <3> QED
      BY <1>1, <1>2, <2>2, <3>1, <3>2 DEF IInv, VmInv
  <2>3. CASE u # t
    <3>1. \A v \in Va : Leaf(u, v)' = Leaf(u, v)
      BY <1>7, <2>3
    <3>2. ~Loading(u)
      BY <1>2, <2>3 DEF Loading
    <3> QED
      BY <1>1, <2>1, <3>1, <3>2 DEF IInv, VmInv
  <2> QED
    BY <2>2, <2>3
<1>11. TailInv'
  <2> SUFFICES ASSUME NEW u \in Guest, NEW v \in Va, <<u, v>> \in tails'
               PROVE  vm'[u] \in {"loaded", "dead"} /\ Leaf(u, v)' \in Page
    BY DEF TailInv
  <2>1. vm[u] \in {"loaded", "dead"} /\ Leaf(u, v) \in Page
    BY <1>1 DEF IInv, TailInv
  <2> QED
    BY <1>1, <1>7, <2>1
<1> QED
  BY <1>3, <1>6, <1>8, <1>9, <1>10, <1>11 DEF IInv

-----------------------------------------------------------------------------
\* What any step does to the tables, and to the counters of them.
Counted ==
  \/ Quiet /\ UNCHANGED counts
  \/ \E t \in Guest : Grown(t)
  \/ \E t \in Guest, va \in Window : vm[t] = "none" /\ Entered(t, va, Trap)
  \/ \E t \in Guest, va \in Va \ Window, e \in Page : Entered(t, va, e)
  \/ \E t \in Guest :
       /\ vm[t] = "none" /\ Restarted(t)
       /\ user_pages_count' = [user_pages_count EXCEPT ![t] = 0]
       /\ kernel_pages_count' = [kernel_pages_count EXCEPT ![t] = 0]

LEMMA StutterStep ==
  ASSUME IInv, UNCHANGED memoryVars
  PROVE  IInv' /\ Quiet /\ UNCHANGED counts
<1>1. UNCHANGED <<memap, last_page_id, content, tsk, user_pages_count, kernel_pages_count,
                  vm, op, bl_args, wanted, image, tails>>
  BY DEF memoryVars, pool, counts, args
<1>2. AllSame
  BY <1>1, NothingWritten DEF IInv, Owned
<1>3. Quiet
  BY <1>2, AllSameQuiet
<1>4. \A u \in Uses' : u \in Uses
  <2>1. ASSUME NEW u \in Uses'
        PROVE  u \in Uses
    <3>1. /\ u[1] \in Page
          /\ \/ u \in Uses
             \/ \E t \in Guest, part \in Part : u = TaskUse(t, part)'
             \/ u = OpUse'
      BY <1>1, <1>2, UsesOfSameTables DEF IInv, Owned, AllSame
    <3>2. OpUse' = OpUse /\ \A t \in Guest, part \in Part : TaskUse(t, part)' = TaskUse(t, part)
      BY <1>1 DEF OpUse, At, TaskUse
    <3> QED
      BY <3>1, <3>2, UsesAre DEF UsesSplit
  <2> QED
    BY <2>1
<1>5. UppersPoint'
  BY <1>1, <1>2, UsesOfSameTables DEF IInv, Owned, AllSame
<1>6. Owned'
  BY <1>1, <1>4, <1>5, FewerUses DEF IInv, Owned
<1>7. Types'
  BY <1>1 DEF IInv, Types
<1>8. OpInv'
  BY <1>1, <1>3 DEF IInv, OpInv, At, PageOp, Idle, Quiet, LeafsSame
<1>9. VmInv'
  <2>1. \A u \in Guest : Loading(u)' <=> Loading(u)
    BY <1>1 DEF Loading, PageOp
  <2> QED
    BY <1>1, <1>3, <2>1, VmInvStep DEF IInv, Quiet
<1>10. TailInv'
  BY <1>1, <1>3 DEF IInv, TailInv, Quiet, LeafsSame
<1> QED
  BY <1>1, <1>3, <1>6, <1>7, <1>8, <1>9, <1>10 DEF IInv, counts

\* The step of a program whose tables nobody has overwritten.
Sound == HvStep \/ (GuestWrite /\ ~stray') \/ UNCHANGED memoryVars

LEMMA SoundStep ==
  ASSUME IInv, Sound
  PROVE  IInv' /\ Counted
<1>1. CASE TakeStruct
  <2>1. PICK t \in Guest : t = op.t /\ Restarted(t) /\ vm[t] = "none"
    BY <1>1, TakeStructStep
  <2>2. /\ user_pages_count' = [user_pages_count EXCEPT ![t] = 0]
        /\ kernel_pages_count' = [kernel_pages_count EXCEPT ![t] = 0]
    BY <1>1, <2>1 DEF TakeStruct
  <2> QED
    BY <1>1, <2>1, <2>2, TakeStructStep DEF Counted
<1>2. CASE TakeBoard
  BY <1>2, TakeBoardStep DEF Counted, TakeBoard, TakePart
<1>3. CASE TakeInFifo \/ TakeOutFifo
  BY <1>3, TakeFifoStep DEF Counted, TakeInFifo, TakeOutFifo, TakePart
<1>4. CASE MapWindow
  BY <1>4, MapWindowGrows, MapWindowEnters DEF Counted, MapWindow
<1>5. CASE EnterTable
  BY <1>5, EnterTableStep DEF Counted, EnterTable
<1>6. CASE TakePage
  BY <1>6, TakePageStep DEF Counted, TakePage
<1>7. CASE MapPage
  BY <1>7, MapPageGrows, MapPageEnters DEF Counted, MapPage
<1>8. CASE ReadPage
  BY <1>8, ReadPageStep DEF Counted, ReadPage
<1>9. CASE EndOfFile
  BY <1>9, EndOfFileStep DEF Counted, EndOfFile
<1>10. CASE NoFreePages
  BY <1>10, NoFreePagesStep DEF Counted, NoFreePages
<1>11. CASE GuestWrite /\ ~stray'
  BY <1>11, GuestWriteStep DEF Counted, GuestWrite
<1>12. ASSUME NEW t \in Guest, NEW img \in Image, Create(t, img)
       PROVE  IInv' /\ Counted
  BY <1>12, CreateStep DEF Counted, Create
<1>13. ASSUME NEW t \in Guest, Load(t)
       PROVE  IInv' /\ Counted
  BY <1>13, LoadStep DEF Counted, Load
<1>14. ASSUME NEW t \in Guest, NoSuchFile(t)
       PROVE  IInv' /\ Counted
  BY <1>14, NoSuchFileStep DEF Counted, NoSuchFile
<1>15. ASSUME NEW t \in Guest, NEW va \in Va, Fault(t, va)
       PROVE  IInv' /\ Counted
  BY <1>15, FaultStep DEF Counted, Fault
<1>16. ASSUME NEW t \in Guest, NEW va \in Va, MailboxUnmapped(t, va)
       PROVE  IInv' /\ Counted
  BY <1>16, MailboxUnmappedStep DEF Counted
<1>17. CASE UNCHANGED memoryVars
  BY <1>17, StutterStep DEF Counted
<1> QED
  BY <1>1, <1>2, <1>3, <1>4, <1>5, <1>6, <1>7, <1>8, <1>9, <1>10, <1>11, <1>12, <1>13,
     <1>14, <1>15, <1>16, <1>17 DEF Sound, HvStep, CreateSteps, PageSteps

-----------------------------------------------------------------------------
\* What the invariant says of the properties that are checked.
LEMMA InitInv == MemoryInit => IInv
<1> SUFFICES ASSUME MemoryInit
             PROVE  IInv
  OBVIOUS
<1>1. /\ tsk = [t \in Guest |-> [part \in Part |-> None]]
      /\ memap = [p \in Page |-> 0] /\ content = [p \in Page |-> Zero]
      /\ vm = [t \in Guest |-> "none"] /\ op = Idle /\ tails = {}
  BY DEF MemoryInit
<1>2. Types
  <2>1. Zero \in [TableIndex -> Entry]
    BY DEF Zero, TableIndex, Entry
  <2>2. op \in Operation
    BY <1>1, Sizes DEF Idle, Stage, Operation
  <2>3. 0 \in Page
    BY Entries
  <2> QED
    BY <2>1, <2>2, <2>3 DEF MemoryInit, Types
<1>3. \A t \in Guest : /\ Lv1(t) = None
                       /\ \A va \in Va : /\ Lv2(t, va) = None /\ Lv3(t, va) = None
                                         /\ Leaf(t, va) = None
  BY <1>1 DEF Leaf, Lv3, Lv2, Lv1, Below, Part
<1>4. Uppers = {}
  BY <1>3 DEF Uppers
<1>5. Uses = {}
  <2>1. ASSUME NEW u \in Uses
        PROVE  FALSE
    <3>1. u[1] \in Page
      BY UsesAre DEF UsesSplit
    <3>2. \A t \in Guest, part \in Part : u # TaskUse(t, part)
      BY <1>1, <3>1, Entries DEF TaskUse
    <3>3. \A t \in Guest, va \in Va : u # MemoryUse(t, va)
      BY <1>3, <3>1, Entries DEF MemoryUse
    <3>4. u # OpUse
      BY <1>1, <3>1, Entries DEF OpUse, At, Idle
    <3> QED
      BY <1>4, <3>2, <3>3, <3>4, UsesAre DEF UsesSplit
  <2> QED
    BY <2>1
<1>6. Owned
  BY <1>4, <1>5 DEF Owned, Injective, AllMarked, UppersPoint
<1>7. OpInv
  BY <1>1 DEF OpInv, At, PageOp, Idle
<1>8. VmInv
  BY <1>1, <1>3, Entries DEF VmInv
<1>9. TailInv
  BY <1>1 DEF TailInv
<1> QED
  BY <1>2, <1>6, <1>7, <1>8, <1>9 DEF IInv

\* No page has two uses: there are as many uses as pages in use.
LEMMA OneOwnerOf == IInv => OneOwner
<1> SUFFICES ASSUME IInv
             PROVE  OneOwner
  OBVIOUS
<1> DEFINE used == {u[1] : u \in Uses}
           f == [u \in Uses |-> u[1]]
<1>1. used \subseteq Page
  BY UsesAre DEF UsesSplit
<1>2. IsFiniteSet(used)
  <2>1. IsFiniteSet(Page)
    BY FS_Interval, Sizes DEF Page
  <2> HIDE DEF used
  <2> QED
    BY <1>1, <2>1, FS_Subset
<1>3. f \in Injection(Uses, used) /\ f \in Surjection(Uses, used)
  BY DEF Injection, IsInjective, Surjection, IInv, Owned, Injective
<1>4. Cardinality(Uses) = Cardinality(used)
  BY <1>2, <1>3, FS_Injection
<1>5. \A p \in used : memap[p] = 1
  BY DEF IInv, Owned, AllMarked
<1> QED
  BY <1>4, <1>5 DEF OneOwner

Mapped(t) == {va \in Va : Leaf(t, va) # None}

LEMMA CountsFinite ==
  ASSUME IInv, NEW t \in Guest
  PROVE  /\ IsFiniteSet(Mapped(t)) /\ Cardinality(Mapped(t)) \in 0 .. VA_NR
         /\ IsFiniteSet(Tables(t)) /\ Cardinality(Tables(t)) \in 0 .. PAGE_NR
<1>1. IsFiniteSet(Va) /\ Cardinality(Va) = VA_NR
  BY FS_Interval, Sizes DEF Va
<1>2. IsFiniteSet(Page) /\ Cardinality(Page) = PAGE_NR
  BY FS_Interval, Sizes DEF Page
<1>3. IsFiniteSet(Mapped(t)) /\ Cardinality(Mapped(t)) <= VA_NR
  BY <1>1, FS_Subset DEF Mapped
<1>4. IsFiniteSet(Tables(t)) /\ Cardinality(Tables(t)) <= PAGE_NR
  BY <1>2, FS_Subset, TablesInPool DEF IInv, Owned
<1> QED
  BY <1>3, <1>4, FS_CardinalityType, Sizes

\* PagesCounted without its hypothesis.
Exact ==
  \A t \in Guest : /\ user_pages_count[t] = Cardinality(Mapped(t))
                   /\ kernel_pages_count[t] = Cardinality(Tables(t))

LEMMA CountedInit == MemoryInit => Exact
<1> SUFFICES ASSUME MemoryInit, NEW t \in Guest
             PROVE  /\ user_pages_count[t] = Cardinality(Mapped(t))
                    /\ kernel_pages_count[t] = Cardinality(Tables(t))
  BY DEF Exact
<1>1. /\ Lv1(t) = None
      /\ \A va \in Va : /\ Lv2(t, va) = None /\ Lv3(t, va) = None /\ Leaf(t, va) = None
  BY DEF MemoryInit, Leaf, Lv3, Lv2, Lv1, Below, Part
<1>2. Mapped(t) = {} /\ Tables(t) = {}
  BY <1>1 DEF Mapped, Tables
<1> QED
  BY <1>2, FS_EmptySet DEF MemoryInit

LEMMA CountedStep ==
  ASSUME IInv, Exact, Counted
  PROVE  Exact'
<1> SUFFICES ASSUME NEW u \in Guest
             PROVE  /\ user_pages_count'[u] = Cardinality(Mapped(u)')
                    /\ kernel_pages_count'[u] = Cardinality(Tables(u)')
  BY DEF Exact
<1>1. /\ user_pages_count[u] = Cardinality(Mapped(u))
      /\ kernel_pages_count[u] = Cardinality(Tables(u))
      /\ IsFiniteSet(Mapped(u)) /\ IsFiniteSet(Tables(u))
  BY CountsFinite DEF Exact
<1>2. user_pages_count \in [Guest -> Nat] /\ kernel_pages_count \in [Guest -> Nat]
  BY DEF IInv, Types
<1>3. (\A va \in Va : Leaf(u, va)' = Leaf(u, va)) => Mapped(u)' = Mapped(u)
  BY DEF Mapped
<1>4. CASE Quiet /\ UNCHANGED counts
  BY <1>1, <1>3, <1>4 DEF Quiet, LeafsSame, TablesSame, counts
<1>5. ASSUME NEW t \in Guest, Grown(t)
      PROVE  /\ user_pages_count'[u] = Cardinality(Mapped(u)')
             /\ kernel_pages_count'[u] = Cardinality(Tables(u)')
  <2>1. Mapped(u)' = Mapped(u) /\ user_pages_count'[u] = user_pages_count[u]
    BY <1>3, <1>5 DEF Grown, LeafsSame
  <2>2. CASE u # t
    BY <1>1, <1>2, <1>5, <2>1, <2>2 DEF Grown
  <2>3. CASE u = t
    <3>1. PICK p : p \notin Tables(u) /\ Tables(u)' = Tables(u) \cup {p}
      BY <1>5, <2>3 DEF Grown
    <3>2. Cardinality(Tables(u) \cup {p}) = Cardinality(Tables(u)) + 1
      BY <1>1, <3>1, FS_AddElement
    <3>3. kernel_pages_count'[u] = kernel_pages_count[u] + 1
      BY <1>2, <1>5, <2>3 DEF Grown
    <3> QED
      BY <1>1, <2>1, <3>1, <3>2, <3>3
  <2> QED
    BY <2>2, <2>3
<1>6. ASSUME NEW t \in Guest, NEW va \in Va, NEW e, Entered(t, va, e)
      PROVE  /\ user_pages_count'[u] = Cardinality(Mapped(u)')
             /\ kernel_pages_count'[u] = Cardinality(Tables(u)')
  <2>1. Tables(u)' = Tables(u) /\ kernel_pages_count'[u] = kernel_pages_count[u]
    BY <1>6 DEF Entered, TablesSame
  <2>2. CASE u # t
    <3>1. Mapped(u)' = Mapped(u)
      BY <1>3, <1>6, <2>2 DEF Entered
    <3>2. user_pages_count'[u] = user_pages_count[u]
      BY <1>2, <1>6, <2>2 DEF Entered
    <3> QED
      BY <1>1, <2>1, <3>1, <3>2
  <2>3. CASE u = t
    <3>1. Mapped(u)' = Mapped(u) \cup {va} /\ va \notin Mapped(u)
      BY <1>6, <2>3 DEF Entered, Mapped
    <3>2. Cardinality(Mapped(u) \cup {va}) = Cardinality(Mapped(u)) + 1
      BY <1>1, <3>1, FS_AddElement
    <3>3. user_pages_count'[u] = user_pages_count[u] + 1
      BY <1>2, <1>6, <2>3 DEF Entered
    <3> QED
      BY <1>1, <2>1, <3>1, <3>2, <3>3
  <2> QED
    BY <2>2, <2>3
<1>7. ASSUME NEW t \in Guest, Restarted(t),
             user_pages_count' = [user_pages_count EXCEPT ![t] = 0],
             kernel_pages_count' = [kernel_pages_count EXCEPT ![t] = 0]
      PROVE  /\ user_pages_count'[u] = Cardinality(Mapped(u)')
             /\ kernel_pages_count'[u] = Cardinality(Tables(u)')
  <2>1. CASE u # t
    <3>1. Mapped(u)' = Mapped(u) /\ Tables(u)' = Tables(u)
      BY <1>3, <1>7, <2>1 DEF Restarted, SameTables
    <3> QED
      BY <1>1, <1>2, <1>7, <2>1, <3>1
  <2>2. CASE u = t
    <3>1. Mapped(u)' = {} /\ Tables(u)' = {}
      BY <1>7, <2>2 DEF Restarted, Mapped
    <3> QED
      BY <1>2, <1>7, <2>2, <3>1, FS_EmptySet
  <2> QED
    BY <2>1, <2>2
<1>8. \A va \in Window : va \in Va
  BY Sizes DEF Window, Va
<1> QED
  BY <1>4, <1>5, <1>6, <1>7, <1>8 DEF Counted

\* In a program whose tables nobody has overwritten the counters are in range.
LEMMA TypesOf == IInv /\ Exact /\ stray \in BOOLEAN => MemoryTypeOK
<1> SUFFICES ASSUME IInv, Exact, stray \in BOOLEAN
             PROVE  MemoryTypeOK
  OBVIOUS
<1>1. ASSUME NEW t \in Guest
      PROVE  user_pages_count[t] \in 0 .. VA_NR /\ kernel_pages_count[t] \in 0 .. PAGE_NR
  BY CountsFinite DEF Exact
<1>2. /\ user_pages_count \in [Guest -> 0 .. VA_NR]
      /\ kernel_pages_count \in [Guest -> 0 .. PAGE_NR]
  BY <1>1 DEF IInv, Types
<1> QED
  BY <1>2 DEF MemoryTypeOK, IInv, Types, TableIndex

\* The inductive invariant: everything above up to the write that strays, and
\* the types, which that write keeps.
Inv == MemoryTypeOK /\ (~stray => IInv /\ Exact)

LEMMA InitSound == MemoryInit => Inv
BY InitInv, CountedInit, TypesOf DEF MemoryInit, Inv

LEMMA StrayTypes ==
  ASSUME MemoryTypeOK, GuestWrite
  PROVE  MemoryTypeOK'
<1>1. PICK p \in Page : /\ content' = [content EXCEPT ![p] = Garbage]
                        /\ tsk' = Scribbled(p)
  BY DEF GuestWrite
<1>2. stray' \in BOOLEAN
  BY DEF GuestWrite, Strays
<1>3. Garbage \in [0 .. PTRS - 1 -> Entry] /\ 0 \in Page
  BY Entries DEF Garbage, TableIndex
<1>4. content' \in [Page -> [0 .. PTRS - 1 -> Entry]]
  BY <1>1, <1>3 DEF MemoryTypeOK
<1>5. tsk' \in [Guest -> [Part -> Page \cup {None}]]
  BY <1>1, <1>3 DEF MemoryTypeOK, Scribbled
<1> QED
  BY <1>2, <1>4, <1>5 DEF MemoryTypeOK, GuestWrite, pool, counts, args

\* A step is one of a sound program, or the write that strays.
LEMMA Kinds ==
  ASSUME [MemoryNext]_memoryVars, stray \in BOOLEAN
  PROVE  \/ ~stray /\ Sound /\ UNCHANGED stray
         \/ ~stray /\ GuestWrite /\ stray'
         \/ UNCHANGED memoryVars
<1>1. CASE GuestWrite /\ ~stray
  <2>1. stray' \in BOOLEAN
    BY <1>1 DEF GuestWrite, Strays
  <2>2. ~stray' => UNCHANGED stray
    BY <1>1, <2>1
  <2> QED
    BY <1>1, <2>2 DEF Sound
<1> QED
  BY <1>1 DEF MemoryNext, Sound

LEMMA NextTypesOf == IInv' /\ Exact' /\ (stray \in BOOLEAN)' => MemoryTypeOK'
BY TypesOf, PTL

LEMMA NextSound == Inv /\ [MemoryNext]_memoryVars => Inv'
<1> SUFFICES ASSUME Inv, [MemoryNext]_memoryVars
             PROVE  Inv'
  OBVIOUS
<1>1. CASE UNCHANGED memoryVars
  <2>1. UNCHANGED <<memap, last_page_id, content, tsk, user_pages_count, kernel_pages_count,
                    vm, op, bl_args, wanted, image, tails, stray>>
    BY <1>1 DEF memoryVars, pool, counts, args
  <2>2. MemoryTypeOK'
    BY <2>1 DEF Inv, MemoryTypeOK
  <2>3. ~stray => IInv' /\ Exact'
    BY <1>1, SoundStep, CountedStep DEF Inv, Sound
  <2> QED
    BY <2>1, <2>2, <2>3 DEF Inv
<1>2. CASE ~stray /\ Sound /\ UNCHANGED stray
  <2>1. IInv' /\ Exact'
    BY <1>2, SoundStep, CountedStep DEF Inv
  <2>2. stray' \in BOOLEAN
    BY <1>2 DEF Inv, MemoryTypeOK
  <2> QED
    BY <2>1, <2>2, NextTypesOf DEF Inv
<1>3. CASE ~stray /\ GuestWrite /\ stray'
  BY <1>3, StrayTypes DEF Inv
<1> QED
  BY <1>1, <1>2, <1>3, Kinds DEF Inv, MemoryTypeOK

LEMMA InvAlways == MemorySpec => []Inv
BY InitSound, NextSound, PTL DEF MemorySpec

-----------------------------------------------------------------------------
\* As long as no guest has written through the mapping that the loader left on a
\* page it gave back, vml's counters are right at every moment, also after an
\* operation that was given up half way (mm.c:141-169).
THEOREM PagesAreCounted == MemorySpec => []PagesCounted
<1>1. Inv => PagesCounted
  BY DEF Inv, Exact, Mapped, PagesCounted
<1> QED
  BY <1>1, InvAlways, PTL

\* Up to that write the pool hands out no page that is in use, and forgets none
\* that is: a page has one user, a table, a VM's memory, a task or the operation
\* under way, beside the mapping that the loader left (mm.c:54-78, 90-169,
\* loader.c:35-43).
THEOREM PagesWellFormed == MemorySpec => []WellFormed
<1>1. Inv => WellFormed
  <2>1. ~stray /\ IInv => OneOwner
    BY OneOwnerOf
  <2> QED
    BY <2>1 DEF Inv, WellFormed, OneOwner
<1> QED
  BY <1>1, InvAlways, PTL

\* Up to that write, once a VM is in the task table, every page of its device
\* window traps (bcm2837.c:97-111, mm.c:49-52).
THEOREM DeviceWindowTraps == MemorySpec => []DeviceTraps
<1>1. Inv => DeviceTraps
  BY DEF Inv, IInv, VmInv, DeviceTraps, WindowTraps
<1> QED
  BY <1>1, InvAlways, PTL

\* The flat map of AddressSpace, in the tables.
space == [t \in Guest |-> [va \in Va |-> Leaf(t, va)]]

LEMMA SpaceInit == MemoryInit => Space!Init
<1> SUFFICES ASSUME MemoryInit
             PROVE  space = [t \in Guest |-> Space!Empty]
  BY DEF MemoryInit, Space!Init, space
<1>1. \A t \in Guest, va \in Va : Leaf(t, va) = None
  BY DEF MemoryInit, Leaf, Lv3, Lv2, Lv1, Below, Part
<1> QED
  BY <1>1 DEF space, Space!Empty

LEMMA SpaceStep == IInv /\ Counted => Space!Mapped \/ space' = space
<1> SUFFICES ASSUME IInv, Counted
             PROVE  Space!Mapped \/ space' = space
  OBVIOUS
<1>0. \A va \in Window : va \in Va
  BY Sizes DEF Window, Va
<1>1. space' = [t \in Guest |-> [va \in Va |-> Leaf(t, va)']]
  BY DEF space
<1>2. ASSUME LeafsSame
      PROVE  space' = space
  BY <1>1, <1>2 DEF LeafsSame, space
<1>3. ASSUME NEW t \in Guest, NEW va \in Va, NEW e, Entered(t, va, e),
             e \in (IF va \in Window THEN {Trap} ELSE Page)
      PROVE  Space!Mapped
  <2>1. \A u \in Guest, v \in Va : Leaf(u, v)' = IF u = t /\ v = va THEN e ELSE Leaf(u, v)
    BY <1>3 DEF Entered
  <2>2. space[t][va] = None /\ space'[t][va] = e
    BY <1>1, <1>3, <2>1 DEF Entered, space
  <2>3. space' = [space EXCEPT ![t][va] = e]
    BY <1>1, <2>1 DEF space
  <2>4. Space!Fill(t, va)
    BY <1>3, <2>2, <2>3 DEF Space!Fill, space
  <2> QED
    BY <2>4 DEF Space!Mapped
<1>4. ASSUME NEW t \in Guest, vm[t] = "none", Restarted(t)
      PROVE  Space!Mapped
  <2>1. \A va \in Va : space[t][va] \notin Page
    BY <1>4 DEF IInv, VmInv, space
  <2>2. space' = [space EXCEPT ![t] = Space!Empty]
    BY <1>1, <1>4 DEF Restarted, SameTables, space, Space!Empty
  <2>3. Space!Reset(t)
    BY <2>1, <2>2 DEF Space!Reset, space
  <2> QED
    BY <2>3 DEF Space!Mapped
<1> QED
  BY <1>0, <1>2, <1>3, <1>4 DEF Counted, Quiet, Grown

\* The walks of mm.c over three levels of tables implement one flat map per VM:
\* a page is entered once, in its own VM, and stays, until a guest has written
\* to a page its loader gave back (mm.c:90-169, loader.c:39).
THEOREM TablesAreAddressSpace == MemorySpec => IsAddressSpace
<1>1. MemoryInit => Space!Init
  BY SpaceInit
<1>2. Inv /\ [MemoryNext]_memoryVars => [Space!Next]_<<space, stray>>
  <2> SUFFICES ASSUME Inv, [MemoryNext]_memoryVars
               PROVE  Space!Next \/ UNCHANGED <<space, stray>>
    OBVIOUS
  <2>1. CASE ~stray /\ Sound /\ UNCHANGED stray
    <3>1. Space!Mapped \/ space' = space
      BY <2>1, SoundStep, SpaceStep DEF Inv
    <3> QED
      BY <2>1, <3>1 DEF Space!Next
  <2>2. CASE ~stray /\ GuestWrite /\ stray'
    BY <2>2 DEF Space!Next, Space!Overwritten, GuestWrite, Strays
  <2>3. CASE UNCHANGED memoryVars
    BY <2>3, Zenon DEF memoryVars, space, Leaf, Lv3, Lv2, Lv1, Below
  <2> QED
    BY <2>1, <2>2, <2>3, Kinds DEF Inv, MemoryTypeOK
<1> QED
  BY <1>1, <1>2, InvAlways, PTL DEF MemorySpec, IsAddressSpace, Space!Spec, space
===============================================================================
