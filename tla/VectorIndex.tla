----------------------------- MODULE VectorIndex -----------------------------
(***************************************************************************)
(* The in-memory vector index (crypto/src/vector_index.rs): partitions of  *)
(* any index under one byte budget, behind one lock. An owner commits a    *)
(* row of its sealed store first and tells the index afterwards, and       *)
(* hydrates a partition from rows it has read before the lock is taken. A  *)
(* vector is abstracted to its id and its size in bytes, which is also how *)
(* near it is to the query; a partition to the key (index, name) it is     *)
(* kept under.                                                             *)
(***************************************************************************)
EXTENDS Integers, Sequences, FiniteSets, Functions

CONSTANTS
  Parts,     \* partitions of all indexes
  Ids,       \* vector ids
  Sizes,     \* what vectors take (vector_bytes)
  Limit,     \* the budget in bytes
  Callers,   \* threads of the owner
  Free,      \* nobody makes room
  MaxTick,   \* bound on the clock
  Initially, \* the rows every partition starts with
  MaxChanges \* bound on the owner's changes

ASSUME VectorAssumption ==
  /\ Sizes \subseteq Nat \ {0} /\ Limit \in Nat /\ MaxTick \in Nat \ {0} /\ MaxChanges \in Nat
  /\ IsFiniteSet(Ids) /\ Initially \in [Ids -> Sizes \cup {0}]
  /\ Free \notin [caller : Callers, keep : Parts, extra : Nat, gone : SUBSET Nat]

VARIABLES
  held,     \* the hydrated partitions: vectors, positions, bytes, last_used
  used,     \* bytes held by all of them
  total,    \* how many vectors the index knows a partition has
  evicted,  \* partitions evicted or refused
  clock,    \* the next tick
  room,     \* the caller in make_room, with the write lock, or Free
  doing,    \* what each caller has in flight
  rows,     \* the owner's sealed store: the size of each row, 0 for none
  behind,   \* hydrated partitions installed from rows read before a change
  changes   \* how many changes the owner has made

vars == <<held, used, total, evicted, clock, room, doing, rows, behind, changes>>
index == <<held, used, total, evicted, room>>

\* A caller with nothing in flight.
Idle == [at |-> "idle"]

Vector == [id : Ids, size : Sizes]

IsPartition(p) ==
  /\ DOMAIN p = {"vectors", "positions", "bytes", "last_used"}
  /\ p.vectors \in Seq(Vector)
  /\ DOMAIN p.positions \subseteq Ids /\ p.positions \in [DOMAIN p.positions -> Nat]
  /\ p.bytes \in Nat /\ p.last_used \in Nat

MaxOf(n, m) == IF n >= m THEN n ELSE m

\* Mistaken forms of the definition below them, here and further on.
UpsertedUncounted(p, id, size) ==
  IF id \in DOMAIN p.positions
  THEN [p EXCEPT !.vectors[p.positions[id]].size = size]
  ELSE [p EXCEPT !.vectors = Append(@, [id |-> id, size |-> size]),
                 !.positions = [i \in DOMAIN @ \cup {id} |->
                                  IF i = id THEN Len(p.vectors) + 1 ELSE @[i]],
                 !.bytes = @ + size]

UpsertedOnce(p, id, size) ==
  IF id \in DOMAIN p.positions THEN p
  ELSE [p EXCEPT !.vectors = Append(@, [id |-> id, size |-> size]),
                 !.positions = [i \in DOMAIN @ \cup {id} |->
                                  IF i = id THEN Len(p.vectors) + 1 ELSE @[i]],
                 !.bytes = @ + size]

\* Partition::upsert: a known id is replaced in place, a new one pushed.
Upserted(p, id, size) ==
  IF id \in DOMAIN p.positions
  THEN LET at == p.positions[id]
       IN  [p EXCEPT !.vectors[at].size = size, !.bytes = @ + size - p.vectors[at].size]
  ELSE [p EXCEPT !.vectors = Append(@, [id |-> id, size |-> size]),
                 !.positions = [i \in DOMAIN @ \cup {id} |->
                                  IF i = id THEN Len(p.vectors) + 1 ELSE @[i]],
                 !.bytes = @ + size]

\* Partition::remove: the last vector takes the freed place (swap_remove).
Removed(p, id) ==
  LET at == p.positions[id]
      last == Len(p.vectors)
      moved == p.vectors[last].id
  IN  [p EXCEPT !.vectors = SubSeq([@ EXCEPT ![at] = p.vectors[last]], 1, last - 1),
                !.positions = [i \in DOMAIN @ \ {id} |-> IF i = moved THEN at ELSE @[i]],
                !.bytes = @ - p.vectors[at].size]

\* The partition hydrate_partition builds of the rows it is given, in order.
Built(order, sizes) ==
  [vectors |-> [i \in DOMAIN order |-> [id |-> order[i], size |-> sizes[order[i]]]],
   positions |-> [id \in Range(order) |-> CHOOSE i \in DOMAIN order : order[i] = id],
   bytes |-> SumFunctionOnSet(sizes, Range(order)),
   last_used |-> clock]

Rows(k) == {id \in Ids : rows[k][id] > 0}
Orders(S) == {s \in [1..Cardinality(S) -> S] : \A i, j \in DOMAIN s : s[i] = s[j] => i = j}
Without(f, k) == Restrict(f, DOMAIN f \ {k})
Put(f, k, p) == [x \in DOMAIN f \cup {k} |-> IF x = k THEN p ELSE f[x]]

Init ==
  /\ held = <<>> /\ used = 0
  /\ total = [k \in Parts |-> 0] /\ evicted = {}
  /\ clock = 1 /\ room = Free
  /\ doing = [c \in Callers |-> Idle]
  /\ rows = [k \in Parts |-> Initially]
  /\ behind = {} /\ changes = 0

Unlocked == room = Free

(***************************************************************************)
(* The owner commits a change of its rows (external). It orders its own    *)
(* changes of a partition; a hydration that has read the partition before  *)
(* is overtaken by it.                                                     *)
(***************************************************************************)
Writing(k) == \E c \in Callers : doing[c].at = "write" /\ doing[c].part = k

Overtaken(k) ==
  [c \in Callers |-> IF doing[c].at = "build" /\ doing[c].part = k
                     THEN [doing[c] EXCEPT !.late = TRUE] ELSE doing[c]]

Commit(c, k, write) ==
  /\ doing[c] = Idle /\ ~Writing(k)
  /\ rows' = [rows EXCEPT ![k] =
                CASE write.op = "upsert" -> [@ EXCEPT ![write.id] = write.size]
                  [] write.op = "remove" -> [@ EXCEPT ![write.id] = 0]
                  [] write.op = "drop" -> [id \in Ids |-> 0]]
  /\ rows' # rows
  /\ changes < MaxChanges /\ changes' = changes + 1
  /\ doing' = [Overtaken(k) EXCEPT ![c] = [at |-> "write", part |-> k, write |-> write]]
  /\ UNCHANGED <<index, clock, behind>>

Writes == [op : {"upsert"}, id : Ids, size : Sizes] \cup [op : {"remove"}, id : Ids]
            \cup {[op |-> "drop"]}

(***************************************************************************)
(* hydrate_partition: rows are opened and the tick is drawn without the    *)
(* lock; under it the old partition goes, room is made, the new one comes. *)
(***************************************************************************)
Build(c, k) ==
  /\ doing[c] = Idle /\ clock < MaxTick
  /\ \E order \in Orders(Rows(k)) :
       doing' = [doing EXCEPT ![c] =
         [at |-> "build", part |-> k, late |-> FALSE, made |-> Built(order, rows[k])]]
  /\ clock' = clock + 1
  /\ UNCHANGED <<index, rows, behind, changes>>

Replacing(k) ==
  /\ held' = Without(held, k)
  /\ used' = used - (IF k \in DOMAIN held THEN held[k].bytes ELSE 0)

Hydrate(c) ==
  /\ Unlocked /\ doing[c].at = "build"
  /\ LET k == doing[c].part
         made == doing[c].made
     IN  /\ Replacing(k)
         /\ total' = [total EXCEPT ![k] = MaxOf(@, Len(made.vectors))]
         /\ behind' = behind \ {k}
         /\ IF made.bytes > Limit
            THEN /\ evicted' = evicted \cup {k}
                 /\ doing' = [doing EXCEPT ![c] = Idle]
                 /\ UNCHANGED room
            ELSE /\ room' = [caller |-> c, keep |-> k, extra |-> made.bytes, gone |-> {}]
                 /\ UNCHANGED <<doing, evicted>>
  /\ UNCHANGED <<clock, rows, changes>>

\* The partitions make_room may evict, least recently used first.
Victims == DOMAIN held \ {room.keep}
AnyVictim == Victims
Oldest == {k \in Victims : \A o \in Victims : held[k].last_used <= held[o].last_used}
TooMuch == used + room.extra > Limit

Evict ==
  /\ ~Unlocked /\ TooMuch
  /\ \E k \in Oldest :
       /\ held' = Without(held, k)
       /\ used' = used - held[k].bytes
       /\ evicted' = evicted \cup {k}
       /\ room' = [room EXCEPT !.gone = @ \cup {held[k].last_used}]
       /\ behind' = behind \ {k}
  /\ UNCHANGED <<total, clock, doing, rows, changes>>

RoomMade == ~Unlocked /\ (TooMuch => Victims = {})

InstallKeepsMark ==
  /\ RoomMade /\ doing[room.caller].at = "build"
  /\ LET c == room.caller
         k == room.keep
     IN  /\ used' = used + room.extra
         /\ held' = Put(held, k, doing[c].made)
         /\ evicted' = evicted
         /\ behind' = IF doing[c].late THEN behind \cup {k} ELSE behind
         /\ doing' = [doing EXCEPT ![c] = Idle]
  /\ room' = Free
  /\ UNCHANGED <<total, clock, rows, changes>>

Install ==
  /\ RoomMade /\ doing[room.caller].at = "build"
  /\ LET c == room.caller
         k == room.keep
     IN  /\ used' = used + room.extra
         /\ held' = Put(held, k, doing[c].made)
         /\ evicted' = evicted \ {k}
         /\ behind' = IF doing[c].late THEN behind \cup {k} ELSE behind
         /\ doing' = [doing EXCEPT ![c] = Idle]
  /\ room' = Free
  /\ UNCHANGED <<total, clock, rows, changes>>

(***************************************************************************)
(* upsert, remove and drop_partition, called for a committed change.       *)
(***************************************************************************)
Telling(c, op) ==
  Unlocked /\ doing[c].at = "write" /\ doing[c].write.op = op

NotHeld(c) ==
  /\ Telling(c, "upsert") \/ Telling(c, "remove")
  /\ doing[c].part \in DOMAIN held =>
       /\ doing[c].write.op = "remove"
       /\ doing[c].write.id \notin DOMAIN held[doing[c].part].positions
  /\ doing' = [doing EXCEPT ![c] = Idle]
  /\ UNCHANGED <<index, clock, rows, behind, changes>>

Upsert(c) ==
  /\ Telling(c, "upsert") /\ clock < MaxTick
  /\ LET k == doing[c].part
         w == doing[c].write
     IN  /\ k \in DOMAIN held
         /\ LET target == [Upserted(held[k], w.id, w.size) EXCEPT !.last_used = clock]
            IN  /\ held' = [held EXCEPT ![k] = target]
                /\ used' = used + (target.bytes - held[k].bytes)
                /\ IF used' > Limit
                   THEN /\ room' = [caller |-> c, keep |-> k, extra |-> 0, gone |-> {}]
                        /\ UNCHANGED doing
                   ELSE /\ doing' = [doing EXCEPT ![c] = Idle]
                        /\ UNCHANGED room
         /\ total' = IF w.id \in DOMAIN held[k].positions THEN total
                     ELSE [total EXCEPT ![k] = @ + 1]
  /\ clock' = clock + 1
  /\ UNCHANGED <<evicted, rows, behind, changes>>

UpsertDone ==
  /\ RoomMade /\ doing[room.caller].at = "write"
  /\ doing' = [doing EXCEPT ![room.caller] = Idle]
  /\ room' = Free
  /\ UNCHANGED <<held, used, total, evicted, clock, rows, behind, changes>>

Remove(c) ==
  /\ Telling(c, "remove")
  /\ LET k == doing[c].part
         id == doing[c].write.id
     IN  /\ k \in DOMAIN held /\ id \in DOMAIN held[k].positions
         /\ held' = [held EXCEPT ![k] = Removed(held[k], id)]
         /\ used' = used - (held[k].bytes - Removed(held[k], id).bytes)
         /\ total' = [total EXCEPT ![k] = IF @ = 0 THEN 0 ELSE @ - 1]
  /\ doing' = [doing EXCEPT ![c] = Idle]
  /\ UNCHANGED <<evicted, clock, room, rows, behind, changes>>

DropPartition(c) ==
  /\ Telling(c, "drop")
  /\ LET k == doing[c].part
     IN  /\ Replacing(k)
         /\ total' = [total EXCEPT ![k] = 0]
         /\ evicted' = evicted \ {k}
         /\ behind' = behind \ {k}
  /\ doing' = [doing EXCEPT ![c] = Idle]
  /\ UNCHANGED <<clock, room, rows, changes>>

\* set_partition_total: the owner counts the rows of what it does not hydrate.
SetPartitionTotal(k) ==
  /\ Unlocked /\ k \notin DOMAIN held /\ ~Writing(k)
  /\ total' = [total EXCEPT ![k] = Cardinality(Rows(k))]
  /\ UNCHANGED <<held, used, evicted, clock, room, doing, rows, behind, changes>>

(***************************************************************************)
(* What a search answers, best first, and what a caller makes of a stored  *)
(* partition that it streams.                                              *)
(***************************************************************************)
Scores(ranking) == [i \in DOMAIN ranking |-> ranking[i].size]
BestFirst(s) == \A i, j \in DOMAIN s : i < j => s[i].size >= s[j].size

\* A tie for the last place is settled either way (select_nth_unstable_by).
top_k(p, n, keep) ==
  LET scored == {v \in Range(p.vectors) : v.id \in keep}
      k == IF n <= Cardinality(scored) THEN n ELSE Cardinality(scored)
      Nearest(T) == Cardinality(T) = k /\ \A v \in T, w \in scored \ T : v.size >= w.size
  IN  {s \in UNION {Orders(T) : T \in {T \in SUBSET scored : Nearest(T)}} : BestFirst(s)}

\* TopK: the heap of the best n so far, the lowest of them at its top.
Lowest(heap) == CHOOSE v \in heap : \A w \in heap : v.size <= w.size
Accepts(heap, v, n) == n > 0 /\ (Cardinality(heap) < n \/ v.size > Lowest(heap).size)
Pushed(heap, v, n) ==
  IF ~Accepts(heap, v, n) THEN heap
  ELSE (IF Cardinality(heap) = n THEN heap \ {Lowest(heap)} ELSE heap) \cup {v}
Streamed(order, n) ==
  LET heap[i \in 0..Len(order)] == IF i = 0 THEN {} ELSE Pushed(heap[i - 1], order[i], n)
  IN  heap[Len(order)]
into_sorted(heap) == CHOOSE s \in Orders(heap) : BestFirst(s)

\* search: under the shared lock it only stamps the partition.
Search(k) ==
  /\ Unlocked /\ clock < MaxTick /\ k \in DOMAIN held
  /\ held' = [held EXCEPT ![k].last_used = clock]
  /\ clock' = clock + 1
  /\ UNCHANGED <<used, total, evicted, room, doing, rows, behind, changes>>

Next ==
  \/ \E c \in Callers, k \in Parts : Build(c, k) \/ \E w \in Writes : Commit(c, k, w)
  \/ \E c \in Callers : Hydrate(c) \/ NotHeld(c) \/ Upsert(c) \/ Remove(c) \/ DropPartition(c)
  \/ \E k \in Parts : SetPartitionTotal(k) \/ Search(k)
  \/ Evict \/ Install \/ UpsertDone

Spec == Init /\ [][Next]_vars

(***************************************************************************)
(* Properties.                                                             *)
(***************************************************************************)
IsDoing(d) ==
  \/ d = Idle
  \/ d.at = "write" /\ d.part \in Parts /\ d.write \in Writes
  \/ d.at = "build" /\ d.part \in Parts /\ d.late \in BOOLEAN /\ IsPartition(d.made)

\* The index's state is well typed; used is never negative, as usize demands.
TypeOK ==
  /\ DOMAIN held \subseteq Parts
  /\ \A k \in DOMAIN held : IsPartition(held[k])
  /\ used \in Nat /\ total \in [Parts -> Nat] /\ evicted \subseteq Parts
  /\ clock \in 1..MaxTick
  /\ room = Free \/ room \in [caller : Callers, keep : Parts, extra : Nat, gone : SUBSET Nat]
  /\ \A c \in Callers : IsDoing(doing[c])
  /\ rows \in [Parts -> [Ids -> Sizes \cup {0}]]
  /\ behind \subseteq DOMAIN held /\ changes \in 0..MaxChanges

Bytes(p) == SumFunction([i \in DOMAIN p.vectors |-> p.vectors[i].size])

\* The budget counts what is really held, through upserts, removals, evictions
\* and rebuilds: used is the bytes of all vectors in memory. And when nobody
\* makes room it is kept, but for a single partition that upserts have grown
\* past it (upsert, remove, make_room, hydrate_partition).
BudgetHolds ==
  /\ used = SumFunction([k \in DOMAIN held |-> Bytes(held[k])])
  /\ Unlocked /\ used > Limit => \A k, o \in DOMAIN held : k = o

\* Coverage is not told twice: an evicted or refused partition is not in memory
\* and a partition in memory is not reported missing.
EvictedAreGone == evicted \cap DOMAIN held = {}

\* Across the evictions of one make_room no partition goes that was used after
\* one that stays.
EvictsOldestFirst ==
  ~Unlocked => \A t \in room.gone, k \in Victims : t <= held[k].last_used

Contents(p) == {[id |-> p.vectors[i].id, size |-> p.vectors[i].size] : i \in DOMAIN p.vectors}
Stored(k) == {[id |-> id, size |-> rows[k][id]] : id \in Rows(k)}

\* A search sees what the sealed store holds, unless a change is being told or
\* overtook the hydration (upsert and remove answer for what was installed, and
\* what is not hydrated is read from the store by the next hydration). It ranks
\* it as a caller does that opens the rows one by one, in whatever order, with
\* room for no more than the answer (search_filtered, TopK).
ServesTheStore ==
  \A k \in DOMAIN held \ behind :
    Unlocked /\ ~Writing(k) =>
      /\ Contents(held[k]) = Stored(k)
      /\ \A n \in 0..Cardinality(Ids), keep \in SUBSET Ids :
           \A order \in Orders({v \in Stored(k) : v.id \in keep}) :
             {Scores(s) : s \in top_k(held[k], n, keep)} = {Scores(into_sorted(Streamed(order, n)))}

=============================================================================
