------------------------------ MODULE WorldMap ------------------------------
(***************************************************************************)
(* The map's cells at start and after (game/map_service.go): the first     *)
(* start generates the cells, a goroutine for each, which writes Redis,    *)
(* the memory and MySQL in turn; every other start loads the rows.  The    *)
(* consumer of marches looks cells up from the beginning, handlers of      *)
(* requests once the server listens: both go through LoadOrCreateCell,     *)
(* which puts a cell found in Redis only into the memory.                  *)
(*                                                                         *)
(* The names of cells in Redis do not have the region's prefix             *)
(* (cache/map_cache.go), so that another region's server on the same Redis *)
(* writes its cells under the same names: OtherRegionSets.                 *)
(*                                                                         *)
(* A cell is what is placed there (Kind).  The flush of dirty cells is     *)
(* left out: its statement is not valid SQL and it visits the first shard  *)
(* alone.  So is the relocation of cities, which fails at its first call.  *)
(***************************************************************************)
EXTENDS Naturals

CONSTANTS
    Coords,         \* coordinates of the map
    Placements,     \* the obstacles, resources and monsters to place
    Kind,           \* Kind[p]: what placement p puts on its coordinate
    Readers,        \* goroutines that look up cells
    Theirs,         \* Theirs[c]: what another region's map may have at c; nothing
                    \* if its server does not use the same Redis
    MaxFailures,    \* bound: queries and inserts that fail
    MaxCrashes,     \* bound: deaths of the process
    None            \* no cell, no coordinate

ASSUME KindAssumption == \A p \in Placements : Kind[p] # None
ASSUME NoneAssumption == None \notin Coords \cup UNION {Theirs[c] : c \in Coords}
ASSUME BoundsAssumption == MaxFailures \in Nat /\ MaxCrashes \in Nat

VARIABLES
    stage,      \* InitializeMap: "start", "generate", "load", "serve"
    site,       \* site[p]: the coordinate drawn for p, None before any draw
    pc,         \* pc[p]: what the goroutine of p does next
    toLoad,     \* coordinates of rows that are read but not in memory yet
    row,        \* MySQL
    cached,     \* Redis
    mem,        \* the shards
    reader,     \* reader[r]: what r does next
    at,         \* at[r]: where r looks
    held,       \* held[r]: the cell r has from Redis
    failures,
    crashes,
    intact,     \* history: one generation was completed, no row was missed
    loaded,     \* history: this process has loaded its map
    crossed,    \* history: coordinates looked up in Redis before "serve"
    replaced    \* history: coordinates whose cell in memory was replaced

start == <<stage, site, pc, toLoad>>
stores == <<row, cached, mem>>
readers == <<reader, at, held>>
bounds == <<failures, crashes>>
history == <<intact, loaded, crossed, replaced>>
vars == <<start, stores, readers, bounds, history>>

Kinds == {Kind[p] : p \in Placements}
Foreign == UNION {Theirs[c] : c \in Coords}
Cells == Kinds \cup Foreign
NoCells == [c \in Coords |-> None]

Init ==
    /\ stage = "start"
    /\ site = [p \in Placements |-> None]
    /\ pc = [p \in Placements |-> "none"]
    /\ toLoad = {}
    /\ row = NoCells /\ cached = NoCells /\ mem = NoCells
    /\ reader = [r \in Readers |-> "idle"]
    /\ at = [r \in Readers |-> None]
    /\ held = [r \in Readers |-> None]
    /\ failures = 0 /\ crashes = 0
    /\ intact = TRUE /\ loaded = FALSE
    /\ crossed = {} /\ replaced = {}

\* A cell comes into memory: where there is one already, it is replaced.
PutInMemory(c, cell) ==
    /\ mem' = [mem EXCEPT ![c] = cell]
    /\ replaced' = IF mem[c] # None THEN replaced \cup {c} ELSE replaced
-----------------------------------------------------------------------------
(* generateMap *)

\* There are no rows: coordinates are drawn and the goroutines started.
Generate ==
    /\ stage = "start"
    /\ row = NoCells
    /\ stage' = "generate"
    /\ site' \in [Placements -> Coords]
    /\ pc' = [p \in Placements |-> "redis"]
    /\ UNCHANGED <<toLoad, stores, readers, bounds, history>>

\* Whether Redis answers is not looked at.
SetCached(p) ==
    /\ pc[p] = "redis"
    /\ cached' \in {cached, [cached EXCEPT ![site[p]] = Kind[p]]}
    /\ pc' = [pc EXCEPT ![p] = "memory"]
    /\ UNCHANGED <<stage, site, toLoad, row, mem, readers, bounds, history>>

PutCell(p) ==
    /\ pc[p] = "memory"
    /\ PutInMemory(site[p], Kind[p])
    /\ pc' = [pc EXCEPT ![p] = "mysql"]
    /\ UNCHANGED <<stage, site, toLoad, row, cached, readers, bounds, intact, loaded, crossed>>

SaveCell(p) ==
    /\ pc[p] = "mysql"
    /\ row' = [row EXCEPT ![site[p]] = Kind[p]]
    /\ pc' = [pc EXCEPT ![p] = "done"]
    /\ UNCHANGED <<stage, site, toLoad, cached, mem, readers, bounds, history>>

\* The insert fails: it is logged, and the cell has no row of this placement.
SaveCellFails(p) ==
    /\ pc[p] = "mysql"
    /\ failures < MaxFailures
    /\ failures' = failures + 1
    /\ intact' = FALSE
    /\ pc' = [pc EXCEPT ![p] = "done"]
    /\ UNCHANGED <<stage, site, toLoad, stores, readers, crashes, loaded, crossed, replaced>>

\* Fault: the goroutines are not waited for.
GenerateEndsEarly ==
    /\ stage = "generate"
    /\ stage' = "serve"
    /\ UNCHANGED <<site, pc, toLoad, stores, readers, bounds, history>>

\* Fault: a goroutine whose insert fails returns before it is done.
GenerateEndsSaved ==
    /\ stage = "generate"
    /\ \A p \in Placements : pc[p] = "done" /\ row[site[p]] # None
    /\ stage' = "serve"
    /\ UNCHANGED <<site, pc, toLoad, stores, readers, bounds, history>>

\* wg.Wait.
GenerateEnds ==
    /\ stage = "generate"
    /\ \A p \in Placements : pc[p] = "done"
    /\ stage' = "serve"
    /\ UNCHANGED <<site, pc, toLoad, stores, readers, bounds, history>>
-----------------------------------------------------------------------------
(* loadAllCells *)

\* Any row is taken for a map that was generated.
Load ==
    /\ stage = "start"
    /\ row # NoCells
    /\ stage' = "load"
    /\ toLoad' = {c \in Coords : row[c] # None}
    /\ loaded' = TRUE
    /\ UNCHANGED <<site, pc, stores, readers, bounds, intact, crossed, replaced>>

\* The query fails, or ends early: rows.Err is not asked.  The server starts
\* with what it got.
LoadShort ==
    /\ stage = "start"
    /\ failures < MaxFailures
    /\ failures' = failures + 1
    /\ stage' = "load"
    /\ toLoad' \in SUBSET {c \in Coords : row[c] # None}
    /\ intact' = FALSE
    /\ loaded' = TRUE
    /\ UNCHANGED <<site, pc, stores, readers, crashes, crossed, replaced>>

\* Fault: what Redis still has is left to LoadOrCreateCell.
LoadUncached(c) ==
    /\ c \in toLoad
    /\ IF cached[c] = None THEN PutInMemory(c, row[c]) ELSE UNCHANGED <<mem, replaced>>
    /\ toLoad' = toLoad \ {c}
    /\ UNCHANGED <<stage, site, pc, row, cached, readers, bounds, intact, loaded, crossed>>

\* A row goes to the memory, and to Redis if it answers.
LoadCell(c) ==
    /\ c \in toLoad
    /\ PutInMemory(c, row[c])
    /\ cached' \in {cached, [cached EXCEPT ![c] = row[c]]}
    /\ toLoad' = toLoad \ {c}
    /\ UNCHANGED <<stage, site, pc, row, readers, bounds, intact, loaded, crossed>>

LoadEnds ==
    /\ stage = "load"
    /\ toLoad = {}
    /\ stage' = "serve"
    /\ UNCHANGED <<site, pc, toLoad, stores, readers, bounds, history>>
-----------------------------------------------------------------------------
(* LoadOrCreateCell *)

\* Fault: Redis is asked first.
SeekCached(r, c) ==
    /\ reader[r] = "idle"
    /\ reader' = [reader EXCEPT ![r] = "fetch"]
    /\ at' = [at EXCEPT ![r] = c]
    /\ crossed' = IF stage # "serve" THEN crossed \cup {c} ELSE crossed
    /\ UNCHANGED <<start, stores, held, bounds, intact, loaded, replaced>>

\* The memory has no such cell; where it has one, nothing more is done.
Seek(r, c) ==
    /\ reader[r] = "idle"
    /\ mem[c] = None
    /\ reader' = [reader EXCEPT ![r] = "fetch"]
    /\ at' = [at EXCEPT ![r] = c]
    /\ crossed' = IF stage # "serve" THEN crossed \cup {c} ELSE crossed
    /\ UNCHANGED <<start, stores, held, bounds, intact, loaded, replaced>>

Fetch(r) ==
    /\ reader[r] = "fetch"
    /\ cached[at[r]] # None
    /\ held' = [held EXCEPT ![r] = cached[at[r]]]
    /\ reader' = [reader EXCEPT ![r] = "keep"]
    /\ UNCHANGED <<start, stores, at, bounds, history>>

\* Redis has no such cell, or does not answer.
NotFound(r) ==
    /\ reader[r] = "fetch"
    /\ reader' = [reader EXCEPT ![r] = "idle"]
    /\ at' = [at EXCEPT ![r] = None]
    /\ UNCHANGED <<start, stores, held, bounds, history>>

\* The cell is put into memory, whatever has come there since Seek.
Keep(r) ==
    /\ reader[r] = "keep"
    /\ PutInMemory(at[r], held[r])
    /\ reader' = [reader EXCEPT ![r] = "idle"]
    /\ at' = [at EXCEPT ![r] = None]
    /\ held' = [held EXCEPT ![r] = None]
    /\ UNCHANGED <<start, row, cached, bounds, intact, loaded, crossed>>
-----------------------------------------------------------------------------
(* The environment *)

\* The 30 minutes of a cell in Redis are over.
Expire(c) ==
    /\ cached[c] # None
    /\ cached' = [cached EXCEPT ![c] = None]
    /\ UNCHANGED <<start, row, mem, readers, bounds, history>>

\* Another region's server generates, loads or updates the cell of its own map
\* that has the same coordinate: cellKey is map:x:y for both.
OtherRegionSets(c, cell) ==
    /\ cached' = [cached EXCEPT ![c] = cell]
    /\ UNCHANGED <<start, row, mem, readers, bounds, history>>

\* The process dies and starts again: MySQL and Redis are what they were.
Crash ==
    /\ crashes < MaxCrashes
    /\ crashes' = crashes + 1
    /\ intact' = (intact /\ stage # "generate")
    /\ stage' = "start"
    /\ pc' = [p \in Placements |-> "none"]
    /\ toLoad' = {}
    /\ mem' = NoCells
    /\ reader' = [r \in Readers |-> "idle"]
    /\ at' = [r \in Readers |-> None]
    /\ held' = [r \in Readers |-> None]
    /\ loaded' = FALSE
    /\ crossed' = {} /\ replaced' = {}
    /\ UNCHANGED <<site, row, cached, failures>>

Next ==
    \/ Generate \/ GenerateEnds \/ Load \/ LoadShort \/ LoadEnds \/ Crash
    \/ \E p \in Placements : SetCached(p) \/ PutCell(p) \/ SaveCell(p) \/ SaveCellFails(p)
    \/ \E c \in Coords : LoadCell(c) \/ Expire(c)
    \/ \E c \in Coords : \E cell \in Theirs[c] : OtherRegionSets(c, cell)
    \/ \E r \in Readers :
           \/ \E c \in Coords : Seek(r, c)
           \/ Fetch(r) \/ NotFound(r) \/ Keep(r)

Spec == Init /\ [][Next]_vars

\* main goes on, and so does every goroutine it waits for.
FairSpec ==
    /\ Spec
    /\ WF_vars(Generate \/ Load) /\ WF_vars(GenerateEnds) /\ WF_vars(LoadEnds)
    /\ \A p \in Placements :
           WF_vars(SetCached(p)) /\ WF_vars(PutCell(p)) /\ WF_vars(SaveCell(p) \/ SaveCellFails(p))
    /\ \A c \in Coords : WF_vars(LoadCell(c))
-----------------------------------------------------------------------------
(* What the runs and the proofs check *)

\* Every variable holds values of its kind; a goroutine that has a cell or
\* waits for one knows where.
TypeOK ==
    /\ stage \in {"start", "generate", "load", "serve"}
    /\ site \in [Placements -> Coords \cup {None}]
    /\ pc \in [Placements -> {"none", "redis", "memory", "mysql", "done"}]
    /\ toLoad \in SUBSET Coords
    /\ row \in [Coords -> Kinds \cup {None}]
    /\ cached \in [Coords -> Cells \cup {None}]
    /\ mem \in [Coords -> Cells \cup {None}]
    /\ reader \in [Readers -> {"idle", "fetch", "keep"}]
    /\ at \in [Readers -> Coords \cup {None}]
    /\ held \in [Readers -> Cells \cup {None}]
    /\ \A r \in Readers : reader[r] # "idle" <=> at[r] # None
    /\ \A r \in Readers : reader[r] = "keep" <=> held[r] # None
    /\ failures \in 0..MaxFailures
    /\ crashes \in 0..MaxCrashes
    /\ intact \in BOOLEAN
    /\ loaded \in BOOLEAN
    /\ crossed \in SUBSET Coords
    /\ replaced \in SUBSET Coords

PlacedAt(c) == {p \in Placements : site[p] = c}
Twice(c) == \E p, q \in PlacedAt(c) : p # q

\* Once the server listens, every cell that was placed is in MySQL and in
\* memory, as one of the placements drawn for the coordinate, whatever stopped
\* the process after its first start (InitializeMap, generateMap, loadAllCells).
\* Only a coordinate that a march has looked up in Redis during the start may be
\* another region's cell in memory, never in MySQL.
MapComplete ==
    stage = "serve" /\ intact =>
        \A p \in Placements :
            LET c == site[p]
                placed == {Kind[q] : q \in PlacedAt(c)}
            IN  /\ row[c] \in placed
                /\ mem[c] \in placed \/ (mem[c] \in Foreign /\ c \in crossed)

\* What players are shown is what is stored, and what they will be shown after
\* a restart, except where the first start has placed two things on a
\* coordinate, where a march has looked into Redis during the start, and where
\* the map has nothing and a lookup has found another region's cell
\* (saveGeneratedCell, loadAllCells, LoadOrCreateCell).
MemoryIsRow ==
    stage = "serve" /\ intact =>
        \A c \in Coords :
            \/ mem[c] = row[c]
            \/ c \in crossed
            \/ ~loaded /\ Twice(c)
            \/ PlacedAt(c) = {} /\ mem[c] \in Foreign

\* A cell of the map in memory, with the marches that wait at it, is not
\* replaced by another copy, but for a coordinate drawn twice or looked up in
\* Redis during the start; after it, concurrent readers put a second copy only
\* where the map has nothing and they find another region's cell
\* (LoadOrCreateCell against itself, saveGeneratedCell and loadAllCells).
NotReplaced ==
    intact => \A c \in replaced : Twice(c) \/ c \in crossed \/ PlacedAt(c) = {}

\* config.yaml:22, the prefix is there for the "isolation" of Redis keys: what is
\* in memory is of this region's map.
OnlyOwnCells == \A c \in Coords : mem[c] \notin Foreign

\* The server comes to listen after every start (InitializeMap, wg.Wait).
StartupEnds == stage # "serve" ~> stage = "serve"
=============================================================================
