-------------------------------- MODULE Memory --------------------------------
(***************************************************************************)
(* The page pool, the stage-2 tables and what fills them: common/mm.c,     *)
(* loader.c, the pages create_task() takes (task.c, bcm2837_initialize())  *)
(* and the argument it passes to the loader of a new VM.                   *)
(*                                                                         *)
(* This code runs with interrupts masked, one operation at a time; `op` is *)
(* the operation under way and how far it got, and each step takes at most *)
(* one page from the pool.  An operation that finds none ends there:       *)
(* PANIC() never comes back to it.                                         *)
(*                                                                         *)
(* Pages are numbers, of the machine (Page) and of a VM's memory (Va); a   *)
(* table has PTRS entries.  A page's content is what it holds as a table.  *)
(* A guest's write to its memory leaves Garbage there.                     *)
(***************************************************************************)
EXTENDS Naturals, FiniteSets

CONSTANTS
  PAGE_NR,         \* pages in the pool
  PTRS,            \* entries of a table (512)
  VA_NR,           \* pages of a VM's address space, at most PTRS^3
  WINDOW, WINDOW_END, \* the device window is WINDOW .. WINDOW_END - 1
  SLOTS,           \* VMs the model creates
  INITIAL_GUESTS,  \* those of hypervisor_main()
  MAX_IMAGE        \* pages of the longest image

ASSUME MemoryAssumption ==
  /\ PAGE_NR \in Nat \ {0} /\ PTRS \in Nat \ {0} /\ VA_NR \in Nat
  /\ VA_NR <= PTRS * PTRS * PTRS
  /\ WINDOW \in 1 .. VA_NR /\ WINDOW_END \in WINDOW .. VA_NR
  /\ SLOTS \in Nat /\ INITIAL_GUESTS \in 0 .. SLOTS
  /\ MAX_IMAGE \in 1 .. WINDOW - 1     \* an image ends below the window

Page == 0 .. PAGE_NR - 1
Va == 0 .. VA_NR - 1
Window == WINDOW .. WINDOW_END - 1
Guest == 1 .. SLOTS
Image == 1 .. MAX_IMAGE               \* an image is known by its length

\* Entries that are not pages: a null one, and one without access (mm.c:51).
None == PAGE_NR
Trap == PAGE_NR + 1
Entry == Page \cup {None, Trap}
Zero == [i \in 0 .. PTRS - 1 |-> None]
Garbage == [i \in 0 .. PTRS - 1 |-> 0]

Part == {"struct", "board", "in_fifo", "out_fifo", "first_table"}

VARIABLES
  memap, last_page_id,  \* the pool
  content,              \* of every page
  tsk,                  \* the pages of each task_struct
  user_pages_count, kernel_pages_count,
  vm,                   \* "none", "created", "loaded" or "dead"
  op,                   \* the operation under way
  bl_args,              \* shell.c's one argument for the loader
  wanted, image,        \* the image each VM was created for, and got
  tails,                \* history: the <<t, va>> whose page the loader gave back
  stray                 \* history: a guest's write went to what is not its own

pool == <<memap, last_page_id>>
counts == <<user_pages_count, kernel_pages_count>>
args == <<bl_args, wanted, image>>
memoryVars == <<pool, content, tsk, counts, vm, op, args, tails, stray>>

Idle == [stage |-> "idle", t |-> 0, va |-> 0, page |-> None]
At(stage) == op.stage = stage

-----------------------------------------------------------------------------
\* The pool.

Free == {p \in Page : memap[p] = 0}

\* Mutants: a scan that remembers the page after the one it found, without the
\* modulo; the wrong index when a page is given back.
get_free_page_after(p) ==
  LET distance(q) == (q + PAGE_NR - last_page_id) % PAGE_NR
  IN  /\ p \in Free /\ \A q \in Free : distance(p) <= distance(q)
      /\ memap' = [memap EXCEPT ![p] = 1]
      /\ last_page_id' = p + 1
free_page_next(p) ==
  memap' = [memap EXCEPT ![(p + 1) % PAGE_NR] = 0] /\ UNCHANGED last_page_id

\* The scan starts at the page found last.
get_free_page(p) ==
  LET distance(q) == (q + PAGE_NR - last_page_id) % PAGE_NR
  IN  /\ p \in Free /\ \A q \in Free : distance(p) <= distance(q)
      /\ memap' = [memap EXCEPT ![p] = 1]
      /\ last_page_id' = p
Cleared(p) == [content EXCEPT ![p] = Zero]

free_page(p) == memap' = [memap EXCEPT ![p] = 0] /\ UNCHANGED last_page_id

-----------------------------------------------------------------------------
\* The tables of a VM.

Index(va, level) ==
  CASE level = 1 -> (va \div (PTRS * PTRS)) % PTRS
    [] level = 2 -> (va \div PTRS) % PTRS
    [] level = 3 -> va % PTRS

\* The table of each level on the way to va, None if there is none yet.
Below(table, va, level) ==
  IF table = None THEN None ELSE content[table][Index(va, level)]
Lv1(t) == tsk[t].first_table
Lv2(t, va) == Below(Lv1(t), va, 1)
Lv3(t, va) == Below(Lv2(t, va), va, 2)
Leaf(t, va) == Below(Lv3(t, va), va, 3)

\* Mutant: the new table is hooked in at the index of the level below.
Grow_wrongIndex(t, va) ==
  \E p \in Page :
    /\ get_free_page(p)
    /\ \/ /\ Lv1(t) = None
          /\ tsk' = [tsk EXCEPT ![t].first_table = p] /\ content' = Cleared(p)
       \/ /\ Lv1(t) # None /\ Lv2(t, va) = None
          /\ content' = [Cleared(p) EXCEPT ![Lv1(t)][Index(va, 1)] = p]
          /\ UNCHANGED tsk
       \/ /\ Lv2(t, va) # None /\ Lv3(t, va) = None
          /\ content' = [Cleared(p) EXCEPT ![Lv2(t, va)][Index(va, 3)] = p]
          /\ UNCHANGED tsk
    /\ kernel_pages_count' = [kernel_pages_count EXCEPT ![t] = @ + 1]

\* The first missing table on the way to va is allocated and hooked in.
Grow(t, va) ==
  \E p \in Page :
    /\ get_free_page(p)
    /\ \/ /\ Lv1(t) = None
          /\ tsk' = [tsk EXCEPT ![t].first_table = p] /\ content' = Cleared(p)
       \/ /\ Lv1(t) # None /\ Lv2(t, va) = None
          /\ content' = [Cleared(p) EXCEPT ![Lv1(t)][Index(va, 1)] = p]
          /\ UNCHANGED tsk
       \/ /\ Lv2(t, va) # None /\ Lv3(t, va) = None
          /\ content' = [Cleared(p) EXCEPT ![Lv2(t, va)][Index(va, 2)] = p]
          /\ UNCHANGED tsk
    /\ kernel_pages_count' = [kernel_pages_count EXCEPT ![t] = @ + 1]

\* Mutant: the index of the level above.
SetEntry_wrongIndex(t, va, e) ==
  /\ Lv3(t, va) # None
  /\ content' = [content EXCEPT ![Lv3(t, va)][Index(va, 2)] = e]
  /\ user_pages_count' = [user_pages_count EXCEPT ![t] = @ + 1]

\* The entry of the last table, once there is one.
SetEntry(t, va, e) ==
  /\ Lv3(t, va) # None
  /\ content' = [content EXCEPT ![Lv3(t, va)][Index(va, 3)] = e]
  /\ user_pages_count' = [user_pages_count EXCEPT ![t] = @ + 1]

-----------------------------------------------------------------------------
\* create_task()

Booted == \A t \in 1 .. INITIAL_GUESTS : vm[t] # "none"
Slot(t) == vm[t] = "none" /\ \A u \in 1 .. t - 1 : vm[u] # "none"

\* vmld is typed when interrupts are enabled: in a VM that was loaded, or in the
\* main loop, which task 0 reaches after the first VMs have had their turn.
Interruptible ==
  \/ \E v \in Guest : vm[v] = "loaded"
  \/ \A v \in 1 .. INITIAL_GUESTS : vm[v] \notin {"none", "created"}

\* hypervisor_main() has an argument for each VM, vmld one for all.
Create(t, img) ==
  /\ op = Idle /\ Slot(t)
  /\ t > INITIAL_GUESTS => Interruptible
  /\ op' = [Idle EXCEPT !.stage = "struct", !.t = t]
  /\ wanted' = [wanted EXCEPT ![t] = img]
  /\ bl_args' = IF t <= INITIAL_GUESTS THEN bl_args ELSE img
  /\ UNCHANGED <<pool, content, tsk, counts, vm, image, tails>>

TakeStruct ==
  /\ At("struct")
  /\ \E p \in Page :
       /\ get_free_page(p) /\ content' = Cleared(p)
       /\ tsk' = [tsk EXCEPT ![op.t] =
                    [part \in Part |-> IF part = "struct" THEN p ELSE None]]
  /\ user_pages_count' = [user_pages_count EXCEPT ![op.t] = 0]
  /\ kernel_pages_count' = [kernel_pages_count EXCEPT ![op.t] = 0]
  /\ op' = [op EXCEPT !.stage = "board"]
  /\ UNCHANGED <<vm, args, tails>>

TakePart(part, next) ==
  /\ At(part)
  /\ \E p \in Page :
       /\ get_free_page(p) /\ content' = Cleared(p)
       /\ tsk' = [tsk EXCEPT ![op.t][part] = p]
  /\ op' = next
  /\ UNCHANGED <<counts, vm, args, tails>>
TakeBoard == TakePart("board", [op EXCEPT !.stage = "window", !.va = WINDOW])
TakeInFifo == TakePart("in_fifo", [op EXCEPT !.stage = "out_fifo"])
TakeOutFifo == TakePart("out_fifo", Idle)

\* Mutant: the loop over the device window stops one page early.
DeviceEnd_short == WINDOW_END - 1
DeviceEnd == WINDOW_END

\* bcm2837_initialize(): the device window traps.
MapWindow ==
  /\ At("window") /\ op.va < DeviceEnd
  /\ \/ Grow(op.t, op.va) /\ UNCHANGED <<op, user_pages_count>>
     \/ /\ SetEntry(op.t, op.va, Trap) /\ op' = [op EXCEPT !.va = @ + 1]
        /\ UNCHANGED <<pool, tsk, kernel_pages_count>>
  /\ UNCHANGED <<vm, args, tails>>

EnterTable ==
  /\ At("window") /\ op.va = DeviceEnd
  /\ vm' = [vm EXCEPT ![op.t] = "created"]
  /\ op' = [op EXCEPT !.stage = "in_fifo"]
  /\ UNCHANGED <<pool, content, tsk, counts, args, tails>>

-----------------------------------------------------------------------------
\* A page for a VM: the loader's next one, or the one that was missing when the
\* VM touched va.

StartPage(t, va) == op' = [Idle EXCEPT !.stage = "page", !.t = t, !.va = va]

\* prepare_task() of a VM that gets the CPU for the first time.
Load(t) ==
  /\ op = Idle /\ Booted /\ vm[t] = "created"
  /\ image' = [image EXCEPT ![t] = IF t <= INITIAL_GUESTS THEN wanted[t] ELSE bl_args]
  /\ StartPage(t, 0)
  /\ UNCHANGED <<pool, content, tsk, counts, vm, bl_args, wanted, tails>>

\* handle_mem_abort()
Fault(t, va) ==
  /\ op = Idle /\ Booted /\ vm[t] = "loaded" /\ Leaf(t, va) = None
  /\ StartPage(t, va)
  /\ UNCHANGED <<pool, content, tsk, counts, vm, args, tails>>

TakePage ==
  /\ At("page")
  /\ \E p \in Page :
       /\ get_free_page(p) /\ content' = Cleared(p)
       /\ op' = [op EXCEPT !.stage = "map", !.page = p]
  /\ UNCHANGED <<tsk, counts, vm, args, tails>>

MapPage ==
  /\ At("map")
  /\ \/ Grow(op.t, op.va) /\ UNCHANGED <<op, user_pages_count>>
     \/ /\ SetEntry(op.t, op.va, op.page)
        /\ op' = IF vm[op.t] = "loaded" THEN Idle ELSE [op EXCEPT !.stage = "read"]
        /\ UNCHANGED <<pool, tsk, kernel_pages_count>>
  /\ UNCHANGED <<vm, args, tails>>

ReadPage ==
  /\ At("read") /\ op.va < image[op.t]
  /\ content' = [content EXCEPT ![op.page] = Garbage]
  /\ StartPage(op.t, op.va + 1)
  /\ UNCHANGED <<pool, tsk, counts, vm, args, tails>>

\* The end of the file, or an error: the page that was to take more is given
\* back; it stays mapped.
EndOfFile ==
  /\ At("read")
  /\ free_page(op.page)
  /\ tails' = tails \cup {<<op.t, op.va>>}
  /\ vm' = [vm EXCEPT ![op.t] = IF op.va = image[op.t] THEN "loaded" ELSE "dead"]
  /\ op' = Idle
  /\ UNCHANGED <<content, tsk, counts, args>>

NoSuchFile(t) ==
  /\ op = Idle /\ Booted /\ vm[t] = "created"
  /\ vm' = [vm EXCEPT ![t] = "dead"]
  /\ UNCHANGED <<pool, content, tsk, counts, op, args, tails>>

\* check_task_page_mapped() for the mailbox: a missing table is allocated, and
\* the VM ends all the same.
MailboxUnmapped(t, va) ==
  /\ op = Idle /\ vm[t] = "loaded" /\ Lv3(t, va) = None
  /\ \/ Grow(t, va)
     \/ Free = {} /\ UNCHANGED <<pool, content, tsk, kernel_pages_count>>
  /\ vm' = [vm EXCEPT ![t] = "dead"]
  /\ UNCHANGED <<user_pages_count, op, args, tails>>

NeedsTable == Lv3(op.t, op.va) = None
CreateNeedsPage ==
  \/ op.stage \in {"struct", "board", "in_fifo", "out_fifo"}
  \/ At("window") /\ op.va < DeviceEnd /\ NeedsTable
VmNeedsPage == At("page") \/ (At("map") /\ NeedsTable)

\* get_free_page() finds nothing: PANIC() ends the VM the page was for, or the
\* one that a vmld interrupted (or the hypervisor's own task).
NoFreePages ==
  /\ Free = {}
  /\ \/ CreateNeedsPage /\ UNCHANGED vm
     \/ CreateNeedsPage
        /\ \E v \in Guest : vm[v] = "loaded" /\ vm' = [vm EXCEPT ![v] = "dead"]
     \/ VmNeedsPage /\ vm' = [vm EXCEPT ![op.t] = "dead"]
  /\ op' = Idle
  /\ UNCHANGED <<pool, content, tsk, counts, args, tails>>

Tables(t) ==
  ({Lv1(t)} \cup {Lv2(t, va) : va \in Va} \cup {Lv3(t, va) : va \in Va}) \ {None}
Uppers ==
  (UNION {{Lv1(t)} \cup {Lv2(t, va) : va \in Va} : t \in Guest}) \ {None}

\* Every use of a page, as <<page, user>>: by a task_struct, by the table above
\* it, by a VM's memory (except where the loader gave the page back), by the
\* operation under way.
Uses ==
  LET all == {<<tsk[x[1]][x[2]], "task", x>> : x \in Guest \X Part}
             \cup {<<content[x[1]][x[2]], "table", x>> : x \in Uppers \X (0 .. PTRS - 1)}
             \cup {<<Leaf(x[1], x[2]), "memory", x>> : x \in (Guest \X Va) \ tails}
             \cup {<<IF At("map") THEN op.page ELSE None, "op", <<op.t, op.va>> >>}
  IN  {u \in all : u[1] \in Page}

\* A guest writes to a page that its tables map.  One of these may be the page
\* that its loader gave back (loader.c:39), which the pool hands out again: the
\* write strays if somebody else uses that page by now, or the guest's own tables.
Strays(t, p) == \E u \in Uses : u[1] = p /\ ~(u[2] = "memory" /\ u[3][1] = t)

\* What a write to the page of a task_struct leaves of it: the pointers are Garbage's.
Scribbled(p) ==
  [t \in Guest |-> IF tsk[t].struct = p
                THEN [part \in Part |-> IF part = "struct" THEN p ELSE 0] ELSE tsk[t]]

GuestWrite ==
  /\ op = Idle
  /\ \E t \in Guest, va \in Va :
       /\ vm[t] = "loaded" /\ Leaf(t, va) \in Page
       /\ content' = [content EXCEPT ![Leaf(t, va)] = Garbage]
       /\ tsk' = Scribbled(Leaf(t, va))
       /\ stray' = Strays(t, Leaf(t, va))
  /\ UNCHANGED <<pool, counts, vm, op, args, tails>>

-----------------------------------------------------------------------------
MemoryInit ==
  /\ memap = [p \in Page |-> 0] /\ last_page_id = 0
  /\ content = [p \in Page |-> Zero]
  /\ tsk = [t \in Guest |-> [part \in Part |-> None]]
  /\ user_pages_count = [t \in Guest |-> 0] /\ kernel_pages_count = [t \in Guest |-> 0]
  /\ vm = [t \in Guest |-> "none"] /\ op = Idle
  /\ bl_args = 0 /\ wanted = [t \in Guest |-> 0] /\ image = [t \in Guest |-> 0]
  /\ tails = {} /\ stray = FALSE

CreateSteps ==
  TakeStruct \/ TakeBoard \/ MapWindow \/ EnterTable \/ TakeInFifo \/ TakeOutFifo
PageSteps == TakePage \/ MapPage \/ ReadPage \/ EndOfFile

HvStep ==
  \/ CreateSteps \/ PageSteps \/ NoFreePages
  \/ \E t \in Guest :
       \/ \E img \in Image : Create(t, img)
       \/ Load(t) \/ NoSuchFile(t)
       \/ \E va \in Va : Fault(t, va) \/ MailboxUnmapped(t, va)

\* A write that strayed may have hit a table, a task_struct or a queue: what the
\* program does from then on is whatever the guest wrote there.
MemoryNext == ~stray /\ (GuestWrite \/ (HvStep /\ UNCHANGED stray))

MemorySpec == MemoryInit /\ [][MemoryNext]_memoryVars

-----------------------------------------------------------------------------
\* Types of the variables above.
MemoryTypeOK ==
  /\ memap \in [Page -> {0, 1}] /\ last_page_id \in Page
  /\ content \in [Page -> [0 .. PTRS - 1 -> Entry]]
  /\ tsk \in [Guest -> [Part -> Page \cup {None}]]
  /\ user_pages_count \in [Guest -> 0 .. VA_NR]
  /\ kernel_pages_count \in [Guest -> 0 .. PAGE_NR]
  /\ vm \in [Guest -> {"none", "created", "loaded", "dead"}]
  /\ bl_args \in Image \cup {0}
  /\ wanted \in [Guest -> Image \cup {0}] /\ image \in [Guest -> Image \cup {0}]
  /\ stray \in BOOLEAN
  /\ tails \subseteq Guest \X Va

\* The properties below hold up to the first write that strays, and only up to
\* there: after it one VM may have changed the tables of another.

\* A page has one user at a time and is marked while it has one: a table, a
\* page of a VM, a task's own, whatever was taken, given back and taken again
\* in between.  The page a loader gave back counts as its next user's, although
\* the table of the VM it was loaded for still maps it (mm.c:54-78, 90-169,
\* loader.c:35-43).
OneOwner ==
  ~stray =>
    LET used == {u[1] : u \in Uses}
    IN  Cardinality(Uses) = Cardinality(used) /\ \A p \in used : memap[p] = 1

\* vml's "pages" and its counterpart for tables count what the tables really
\* hold, also when an operation was given up half way, as long as no write has
\* strayed (mm.c:141-169, sched.c:144-164).
PagesCounted ==
  ~stray =>
    \A t \in Guest :
      /\ user_pages_count[t] = Cardinality({va \in Va : Leaf(t, va) # None})
      /\ kernel_pages_count[t] = Cardinality(Tables(t))

\* Before a VM is in the task table, all of its device window traps, and it
\* stays so as long as no write has strayed (bcm2837.c:97-111, mm.c:49-52).
WindowTraps ==
  \A t \in Guest : vm[t] # "none" => \A va \in Window : Leaf(t, va) = Trap
DeviceTraps == ~stray => WindowTraps

\* The three levels of tables are one flat map per VM, until a write strays.
Space == INSTANCE AddressSpace WITH
  VM <- Guest,
  space <- [t \in Guest |-> [va \in Va |-> Leaf(t, va)]],
  overwritten <- stray
IsAddressSpace == Space!Spec

\* The state is a pool and tables at all: values in range, and no page with two
\* users (get_free_page(), free_page(), map_stage2_page()).
WellFormed == MemoryTypeOK /\ OneOwner

-----------------------------------------------------------------------------
\* What the code says of itself and does not do; each refuted by a run.

\* README.md:31 "Load a VM image and run it": a VM runs the image its vmld named.
RunsItsImage == \A t \in Guest : image[t] # 0 => image[t] = wanted[t]

\* mm.c:49 set_task_page_notaccessable(), called for every page of the device
\* window of a VM (bcm2837.c:108-110): the guests cannot make one accessible.
WindowStaysClosed == WindowTraps
=============================================================================
