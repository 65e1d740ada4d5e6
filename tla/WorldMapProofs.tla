--------------------------- MODULE WorldMapProofs ---------------------------
(***************************************************************************)
(* The safety properties of WorldMap, for every map, every set of          *)
(* placements and readers, and any number of failures and deaths.          *)
(***************************************************************************)
EXTENDS WorldMap, TLAPS

At(c) == {Kind[q] : q \in PlacedAt(c)}

\* The goroutines run in "generate" only, rows wait in "load" only, and there
\* is no row before there are coordinates.
Stages ==
    /\ stage # "generate" => \A p \in Placements : pc[p] \in {"none", "done"}
    /\ stage = "generate" => \A p \in Placements : pc[p] # "none"
    /\ stage # "load" => toLoad = {}
    /\ \A c \in toLoad : row[c] # None
    /\ stage = "generate" \/ row # NoCells => \A p \in Placements : site[p] \in Coords

\* What is looked up, or in memory, before its time was looked up across the
\* start.
Early ==
    /\ stage = "start" => \A c \in Coords : mem[c] # None => c \in crossed
    /\ stage = "start" => replaced \subseteq crossed
    /\ stage # "serve" => \A r \in Readers : reader[r] # "idle" => at[r] \in crossed

\* A copy of a cell is of a placement drawn for it, or of another region's map;
\* such a one never is in MySQL, and in memory only where it was looked up
\* across the start or nothing is placed.
Copies ==
    /\ \A c \in Coords : row[c] # None => row[c] \in At(c)
    /\ \A c \in Coords : cached[c] # None => cached[c] \in At(c) \cup Foreign
    /\ \A c \in Coords : mem[c] # None =>
           \/ mem[c] \in At(c)
           \/ mem[c] \in Foreign /\ (c \in crossed \/ PlacedAt(c) = {})
    /\ \A r \in Readers : held[r] # None => held[r] \in At(at[r]) \cup Foreign

\* Before the map is generated there are only another region's cells.
Fresh ==
    stage # "generate" /\ row = NoCells =>
        /\ \A c \in Coords : cached[c] \in Foreign \cup {None} /\ mem[c] \in Foreign \cup {None}
        /\ \A r \in Readers : held[r] \in Foreign \cup {None}

\* How far a goroutine is tells where its cell has arrived, and a cell in
\* memory tells that some goroutine, or an early reader, put it there.
Generated ==
    stage = "generate" =>
        /\ \A p \in Placements : pc[p] \in {"mysql", "done"} => mem[site[p]] # None
        /\ \A p \in Placements : pc[p] = "done" => row[site[p]] # None
        /\ \A c \in Coords : mem[c] # None /\ c \notin crossed =>
               \E q \in Placements : site[q] = c /\ pc[q] \in {"mysql", "done"}

\* A map that was generated has all its rows, and they come into memory.
Rows ==
    /\ stage # "generate" /\ row # NoCells => \A p \in Placements : row[site[p]] # None
    /\ stage \in {"load", "serve"} =>
           \A p \in Placements :
               /\ site[p] \in Coords /\ row[site[p]] # None
               /\ site[p] \in toLoad \/ mem[site[p]] # None

\* Another region's cell, in memory where this map has nothing.
Strange(c) == PlacedAt(c) = {} /\ mem[c] \in Foreign

\* A start that loads leaves in memory what the rows say.
Loaded ==
    /\ loaded /\ stage \in {"load", "serve"} =>
           \A c \in Coords :
               \/ c \in crossed
               \/ mem[c] = (IF c \in toLoad THEN None ELSE row[c])
               \/ Strange(c)
    /\ stage = "load" => loaded
    /\ loaded => stage \in {"load", "serve"}

\* Once the server listens, nothing is placed where a lookup finds no cell.
Lookups ==
    \A r \in Readers : reader[r] # "idle" /\ at[r] \notin crossed =>
        stage = "serve" /\ PlacedAt(at[r]) = {}

\* MemoryIsRow of a process that generated its map, at the end of it.
Drawn ==
    stage = "serve" /\ ~loaded =>
        \A c \in Coords : mem[c] = row[c] \/ c \in crossed \/ Twice(c) \/ Strange(c)

\* The inductive invariant: what holds while no row was missed is Whole.
Whole == Copies /\ Fresh /\ Generated /\ Rows /\ Loaded /\ Lookups /\ Drawn /\ NotReplaced
IInv == TypeOK /\ Stages /\ Early /\ (intact => Whole)

\* None is no cell of another region.
LEMMA NoneNotForeign == None \notin Foreign
BY NoneAssumption DEF Foreign

LEMMA InitInv == Init => IInv
<1> SUFFICES ASSUME Init PROVE IInv
  OBVIOUS
<1>1. TypeOK
  <2>1. failures \in 0..MaxFailures /\ crashes \in 0..MaxCrashes
    BY BoundsAssumption DEF Init
  <2>2. intact \in BOOLEAN /\ loaded \in BOOLEAN
    BY DEF Init
  <2> QED BY <2>1, <2>2 DEF Init, TypeOK, NoCells
<1>2. Stages /\ Early
  BY DEF Init, Stages, Early, NoCells
<1>3. Whole
  BY DEF Init, Whole, Copies, Fresh, Generated, Rows, Loaded, Lookups, Drawn, NotReplaced, NoCells
<1> QED BY <1>1, <1>2, <1>3 DEF IInv

\* Coordinates are drawn while there is no copy of any cell.
LEMMA GenerateInv ==
    ASSUME IInv, Generate
    PROVE  IInv'
<1> USE DEF IInv, TypeOK, Stages, Kinds, Cells, Generate, start, stores, readers, bounds, history
<1>1. TypeOK'
  BY KindAssumption, NoneAssumption, NoneNotForeign, BoundsAssumption DEF NoCells
<1>2. Stages'
  BY NoneAssumption, NoneNotForeign DEF NoCells
<1>3. Early'
  BY DEF Early, NoCells
<1> SUFFICES ASSUME intact' PROVE Whole'
  BY <1>1, <1>2, <1>3
<1> USE DEF Whole
<1>4. intact
  OBVIOUS
<1>5. Copies'
  BY <1>4 DEF Copies, Fresh, Early, NoCells
<1>6. Fresh'
  BY <1>4 DEF Fresh, NoCells
<1>7. Generated'
  BY <1>4, KindAssumption DEF Generated, Early, NoCells
<1>8. Rows'
  BY <1>4, KindAssumption DEF Rows, Generated, NoCells
<1>9. Loaded'
  BY <1>4 DEF Loaded, Strange, Early, PlacedAt, NoCells
<1>10. Lookups'
  BY <1>4, <1>1 DEF Lookups, Early, PlacedAt
<1>11. Drawn'
  BY <1>4 DEF Drawn, Strange, Twice, PlacedAt
<1>12. NotReplaced'
  BY <1>4, <1>1 DEF NotReplaced, Early, Twice, PlacedAt
<1> QED BY <1>5, <1>6, <1>7, <1>8, <1>9, <1>10, <1>11, <1>12

\* A copy for Redis is of a placement of its coordinate.
LEMMA SetCachedInv ==
    ASSUME IInv, NEW p \in Placements, SetCached(p)
    PROVE  IInv'
<1> USE DEF IInv, TypeOK, Stages, Kinds, Cells, SetCached, start, stores, readers, bounds, history
<1>1. TypeOK'
  BY KindAssumption, NoneAssumption, NoneNotForeign, BoundsAssumption DEF NoCells
<1>2. Stages'
  BY NoneAssumption, NoneNotForeign DEF NoCells
<1>3. Early'
  BY DEF Early, NoCells
<1> SUFFICES ASSUME intact' PROVE Whole'
  BY <1>1, <1>2, <1>3
<1> USE DEF Whole
<1>4. intact
  OBVIOUS
<1>5. Copies'
  BY <1>4, KindAssumption DEF Copies, At, PlacedAt
<1>6. Fresh'
  BY <1>4 DEF Fresh, NoCells
<1>7. Generated'
  BY <1>4, KindAssumption DEF Generated, Early, NoCells
<1>8. Rows'
  BY <1>4, KindAssumption DEF Rows, Generated, NoCells
<1>9. Loaded'
  BY <1>4 DEF Loaded, Strange, Early, PlacedAt, NoCells
<1>10. Lookups'
  BY <1>4, <1>1 DEF Lookups, Early, PlacedAt
<1>11. Drawn'
  BY <1>4 DEF Drawn, Strange, Twice, PlacedAt
<1>12. NotReplaced'
  BY <1>4, <1>1 DEF NotReplaced, Early, Twice, PlacedAt
<1> QED BY <1>5, <1>6, <1>7, <1>8, <1>9, <1>10, <1>11, <1>12

\* A cell that a goroutine finds in memory is of a reader or of a second placement.
LEMMA PutCellInv ==
    ASSUME IInv, NEW p \in Placements, PutCell(p)
    PROVE  IInv'
<1> USE DEF IInv, TypeOK, Stages, Kinds, Cells, PutCell, start, stores, readers, bounds, history, PutInMemory
<1>1. TypeOK'
  BY KindAssumption, NoneAssumption, NoneNotForeign, BoundsAssumption DEF NoCells
<1>2. Stages'
  BY NoneAssumption, NoneNotForeign DEF NoCells
<1>3. Early'
  BY DEF Early, NoCells
<1> SUFFICES ASSUME intact' PROVE Whole'
  BY <1>1, <1>2, <1>3
<1> USE DEF Whole
<1>4. intact
  OBVIOUS
<1>5. Copies'
  BY <1>4, KindAssumption DEF Copies, At, PlacedAt
<1>6. Fresh'
  BY <1>4 DEF Fresh, NoCells
<1>7. Generated'
  BY <1>4, KindAssumption DEF Generated, Early, NoCells
<1>8. Rows'
  BY <1>4, KindAssumption DEF Rows, Generated, NoCells
<1>9. Loaded'
  BY <1>4 DEF Loaded, Strange, Early, PlacedAt, NoCells
<1>10. Lookups'
  BY <1>4, <1>1 DEF Lookups, Early, PlacedAt
<1>11. Drawn'
  BY <1>4 DEF Drawn, Strange, Twice, PlacedAt
<1>12. NotReplaced'
  BY <1>4, <1>1 DEF NotReplaced, Generated, Twice, PlacedAt
<1> QED BY <1>5, <1>6, <1>7, <1>8, <1>9, <1>10, <1>11, <1>12

\* A row is of a placement of its coordinate.
LEMMA SaveCellInv ==
    ASSUME IInv, NEW p \in Placements, SaveCell(p)
    PROVE  IInv'
<1> USE DEF IInv, TypeOK, Stages, Kinds, Cells, SaveCell, start, stores, readers, bounds, history
<1>1. TypeOK'
  BY KindAssumption, NoneAssumption, NoneNotForeign, BoundsAssumption DEF NoCells
<1>2. Stages'
  BY NoneAssumption, NoneNotForeign DEF NoCells
<1>3. Early'
  BY DEF Early, NoCells
<1> SUFFICES ASSUME intact' PROVE Whole'
  BY <1>1, <1>2, <1>3
<1> USE DEF Whole
<1>4. intact
  OBVIOUS
<1>5. Copies'
  BY <1>4, KindAssumption DEF Copies, At, PlacedAt
<1>6. Fresh'
  BY <1>4 DEF Fresh, NoCells
<1>7. Generated'
  BY <1>4, KindAssumption DEF Generated, Early, NoCells
<1>8. Rows'
  BY <1>4, KindAssumption DEF Rows, Generated, NoCells
<1>9. Loaded'
  BY <1>4 DEF Loaded, Strange, Early, PlacedAt, NoCells
<1>10. Lookups'
  BY <1>4, <1>1 DEF Lookups, Early, PlacedAt
<1>11. Drawn'
  BY <1>4 DEF Drawn, Strange, Twice, PlacedAt
<1>12. NotReplaced'
  BY <1>4, <1>1 DEF NotReplaced, Early, Twice, PlacedAt
<1> QED BY <1>5, <1>6, <1>7, <1>8, <1>9, <1>10, <1>11, <1>12

\* A row that is missed ends what is claimed.
LEMMA SaveCellFailsInv ==
    ASSUME IInv, NEW p \in Placements, SaveCellFails(p)
    PROVE  IInv'
<1> USE DEF IInv, TypeOK, Stages, Kinds, Cells, SaveCellFails, start, stores, readers, bounds, history
<1>1. TypeOK'
  <2>1. failures' \in 0..MaxFailures /\ crashes' \in 0..MaxCrashes
    BY BoundsAssumption
  <2>2. intact' \in BOOLEAN /\ loaded' \in BOOLEAN
    OBVIOUS
  <2> QED BY <2>1, <2>2, NoneAssumption, NoneNotForeign DEF NoCells
<1>2. Stages'
  BY NoneAssumption, NoneNotForeign DEF NoCells
<1>3. Early'
  BY DEF Early, NoCells
<1>4. ~intact'
  OBVIOUS
<1> QED BY <1>1, <1>2, <1>3, <1>4

\* All goroutines are done: rows and memory have every placement.
LEMMA GenerateEndsInv ==
    ASSUME IInv, GenerateEnds
    PROVE  IInv'
<1> USE DEF IInv, TypeOK, Stages, Kinds, Cells, GenerateEnds, start, stores, readers, bounds, history
<1>1. TypeOK'
  BY KindAssumption, NoneAssumption, NoneNotForeign, BoundsAssumption DEF NoCells
<1>2. Stages'
  BY NoneAssumption, NoneNotForeign DEF NoCells
<1>3. Early'
  BY DEF Early, NoCells
<1> SUFFICES ASSUME intact' PROVE Whole'
  BY <1>1, <1>2, <1>3
<1> USE DEF Whole
<1>4. intact
  OBVIOUS
<1>5. Copies'
  BY <1>4, KindAssumption DEF Copies, At, PlacedAt
<1>6. Fresh'
  <2> SUFFICES ASSUME row = NoCells
               PROVE  /\ \A c \in Coords :
                             cached[c] \in Foreign \cup {None} /\ mem[c] \in Foreign \cup {None}
                      /\ \A r \in Readers : held[r] \in Foreign \cup {None}
    BY DEF Fresh
  <2>1. Placements = {}
    BY <1>4 DEF Generated, NoCells
  <2>2. \A c : At(c) = {}
    BY <2>1 DEF At, PlacedAt
  <2> QED BY <1>4, <2>2 DEF Copies
<1>7. Generated'
  BY <1>4, KindAssumption DEF Generated, Early, NoCells
<1>8. Rows'
  BY <1>4, KindAssumption DEF Rows, Generated, NoCells
<1>9. Loaded'
  BY <1>4 DEF Loaded, Strange, Early, PlacedAt, NoCells
<1>10. Lookups'
  BY <1>4, <1>1 DEF Lookups, Early, PlacedAt
<1>11. Drawn'
  <2> SUFFICES ASSUME NEW c \in Coords, c \notin crossed, ~Twice(c)
               PROVE  mem[c] = row[c] \/ Strange(c)
    BY DEF Drawn, Strange, Twice, PlacedAt
  <2>1. CASE PlacedAt(c) = {}
    <3>1. At(c) = {}
      BY <2>1 DEF At
    <3> QED BY <1>4, <2>1, <3>1 DEF Copies, Strange
  <2>2. CASE PlacedAt(c) # {}
    <3>1. PICK p \in Placements : site[p] = c
      BY <2>2 DEF PlacedAt
    <3>2. mem[c] # None /\ row[c] # None
      BY <1>4, <3>1 DEF Generated
    <3>3. At(c) = {Kind[p]}
      BY <3>1 DEF At, Twice, PlacedAt
    <3> QED BY <1>4, <2>2, <3>2, <3>3 DEF Copies
  <2> QED BY <2>1, <2>2
<1>12. NotReplaced'
  BY <1>4, <1>1 DEF NotReplaced, Early, Twice, PlacedAt
<1> QED BY <1>5, <1>6, <1>7, <1>8, <1>9, <1>10, <1>11, <1>12

\* Every placement has a row to load.
LEMMA LoadInv ==
    ASSUME IInv, Load
    PROVE  IInv'
<1> USE DEF IInv, TypeOK, Stages, Kinds, Cells, Load, start, stores, readers, bounds, history
<1>1. TypeOK'
  BY KindAssumption, NoneAssumption, NoneNotForeign, BoundsAssumption DEF NoCells
<1>2. Stages'
  BY NoneAssumption, NoneNotForeign DEF NoCells
<1>3. Early'
  BY DEF Early, NoCells
<1> SUFFICES ASSUME intact' PROVE Whole'
  BY <1>1, <1>2, <1>3
<1> USE DEF Whole
<1>4. intact
  OBVIOUS
<1>5. Copies'
  BY <1>4, KindAssumption DEF Copies, At, PlacedAt
<1>6. Fresh'
  BY <1>4 DEF Fresh, NoCells
<1>7. Generated'
  BY <1>4, KindAssumption DEF Generated, Early, NoCells
<1>8. Rows'
  BY <1>4, KindAssumption DEF Rows, Generated, NoCells
<1>9. Loaded'
  BY <1>4 DEF Loaded, Strange, Early, PlacedAt, NoCells
<1>10. Lookups'
  BY <1>4, <1>1 DEF Lookups, Early, PlacedAt
<1>11. Drawn'
  BY <1>4 DEF Drawn, Strange, Twice, PlacedAt
<1>12. NotReplaced'
  BY <1>4, <1>1 DEF NotReplaced, Early, Twice, PlacedAt
<1> QED BY <1>5, <1>6, <1>7, <1>8, <1>9, <1>10, <1>11, <1>12

\* A row that is missed ends what is claimed.
LEMMA LoadShortInv ==
    ASSUME IInv, LoadShort
    PROVE  IInv'
<1> USE DEF IInv, TypeOK, Stages, Kinds, Cells, LoadShort, start, stores, readers, bounds, history
<1>1. TypeOK'
  <2>1. failures' \in 0..MaxFailures /\ crashes' \in 0..MaxCrashes
    BY BoundsAssumption
  <2>2. intact' \in BOOLEAN /\ loaded' \in BOOLEAN
    OBVIOUS
  <2> QED BY <2>1, <2>2, NoneAssumption, NoneNotForeign DEF NoCells
<1>2. Stages'
  BY NoneAssumption, NoneNotForeign DEF NoCells
<1>3. Early'
  BY DEF Early, NoCells
<1>4. ~intact'
  OBVIOUS
<1> QED BY <1>1, <1>2, <1>3, <1>4

\* A cell found in memory before its row comes is of an early reader.
LEMMA LoadCellInv ==
    ASSUME IInv, NEW c \in Coords, LoadCell(c)
    PROVE  IInv'
<1> USE DEF IInv, TypeOK, Stages, Kinds, Cells, LoadCell, start, stores, readers, bounds, history, PutInMemory
<1>1. TypeOK'
  BY KindAssumption, NoneAssumption, NoneNotForeign, BoundsAssumption DEF NoCells
<1>2. Stages'
  BY NoneAssumption, NoneNotForeign DEF NoCells
<1>3. Early'
  BY DEF Early, NoCells
<1> SUFFICES ASSUME intact' PROVE Whole'
  BY <1>1, <1>2, <1>3
<1> USE DEF Whole
<1>4. intact
  OBVIOUS
<1>5. Copies'
  BY <1>4, KindAssumption DEF Copies, At, PlacedAt
<1>6. Fresh'
  BY <1>4 DEF Fresh, NoCells
<1>7. Generated'
  BY <1>4, KindAssumption DEF Generated, Early, NoCells
<1>8. Rows'
  BY <1>4, KindAssumption DEF Rows, Generated, NoCells
<1>9. Loaded'
  BY <1>4 DEF Loaded, Strange, Early, PlacedAt, NoCells
<1>10. Lookups'
  BY <1>4, <1>1 DEF Lookups, Early, PlacedAt
<1>11. Drawn'
  BY <1>4 DEF Drawn, Strange, Twice, PlacedAt
<1>12. NotReplaced'
  BY <1>4, <1>1 DEF NotReplaced, Loaded, Strange, Twice, PlacedAt
<1> QED BY <1>5, <1>6, <1>7, <1>8, <1>9, <1>10, <1>11, <1>12

\* All rows are in memory.
LEMMA LoadEndsInv ==
    ASSUME IInv, LoadEnds
    PROVE  IInv'
<1> USE DEF IInv, TypeOK, Stages, Kinds, Cells, LoadEnds, start, stores, readers, bounds, history
<1>1. TypeOK'
  BY KindAssumption, NoneAssumption, NoneNotForeign, BoundsAssumption DEF NoCells
<1>2. Stages'
  BY NoneAssumption, NoneNotForeign DEF NoCells
<1>3. Early'
  BY DEF Early, NoCells
<1> SUFFICES ASSUME intact' PROVE Whole'
  BY <1>1, <1>2, <1>3
<1> USE DEF Whole
<1>4. intact
  OBVIOUS
<1>5. Copies'
  BY <1>4, KindAssumption DEF Copies, At, PlacedAt
<1>6. Fresh'
  BY <1>4 DEF Fresh, NoCells
<1>7. Generated'
  BY <1>4, KindAssumption DEF Generated, Early, NoCells
<1>8. Rows'
  BY <1>4, KindAssumption DEF Rows, Generated, NoCells
<1>9. Loaded'
  BY <1>4 DEF Loaded, Strange, Early, PlacedAt, NoCells
<1>10. Lookups'
  BY <1>4, <1>1 DEF Lookups, Early, PlacedAt
<1>11. Drawn'
  BY <1>4 DEF Drawn, Loaded, Strange
<1>12. NotReplaced'
  BY <1>4, <1>1 DEF NotReplaced, Early, Twice, PlacedAt
<1> QED BY <1>5, <1>6, <1>7, <1>8, <1>9, <1>10, <1>11, <1>12

\* A cell looked up once the server listens, and not found, is not placed.
LEMMA SeekInv ==
    ASSUME IInv, NEW r \in Readers, NEW c \in Coords, Seek(r, c)
    PROVE  IInv'
<1> USE DEF IInv, TypeOK, Stages, Kinds, Cells, Seek, start, stores, readers, bounds, history
<1>1. TypeOK'
  BY KindAssumption, NoneAssumption, NoneNotForeign, BoundsAssumption DEF NoCells
<1>2. Stages'
  BY NoneAssumption, NoneNotForeign DEF NoCells
<1>3. Early'
  BY DEF Early, NoCells
<1> SUFFICES ASSUME intact' PROVE Whole'
  BY <1>1, <1>2, <1>3
<1> USE DEF Whole
<1>4. intact
  OBVIOUS
<1>5. Copies'
  BY <1>4, KindAssumption DEF Copies, At, PlacedAt
<1>6. Fresh'
  BY <1>4 DEF Fresh, NoCells
<1>7. Generated'
  BY <1>4, KindAssumption DEF Generated, Early, NoCells
<1>8. Rows'
  BY <1>4, KindAssumption DEF Rows, Generated, NoCells
<1>9. Loaded'
  BY <1>4 DEF Loaded, Strange, Early, PlacedAt, NoCells
<1>10. Lookups'
  BY <1>4, <1>1 DEF Lookups, Early, Rows, PlacedAt
<1>11. Drawn'
  BY <1>4 DEF Drawn, Strange, Twice, PlacedAt
<1>12. NotReplaced'
  BY <1>4, <1>1 DEF NotReplaced, Early, Twice, PlacedAt
<1> QED BY <1>5, <1>6, <1>7, <1>8, <1>9, <1>10, <1>11, <1>12

\* Redis has only cells that are placed, and another region's.
LEMMA FetchInv ==
    ASSUME IInv, NEW r \in Readers, Fetch(r)
    PROVE  IInv'
<1> USE DEF IInv, TypeOK, Stages, Kinds, Cells, Fetch, start, stores, readers, bounds, history
<1>1. TypeOK'
  BY KindAssumption, NoneAssumption, NoneNotForeign, BoundsAssumption DEF NoCells
<1>2. Stages'
  BY NoneAssumption, NoneNotForeign DEF NoCells
<1>3. Early'
  BY DEF Early, NoCells
<1> SUFFICES ASSUME intact' PROVE Whole'
  BY <1>1, <1>2, <1>3
<1> USE DEF Whole
<1>4. intact
  OBVIOUS
<1>5. Copies'
  BY <1>4, KindAssumption DEF Copies, At, PlacedAt
<1>6. Fresh'
  BY <1>4 DEF Fresh, NoCells
<1>7. Generated'
  BY <1>4, KindAssumption DEF Generated, Early, NoCells
<1>8. Rows'
  BY <1>4, KindAssumption DEF Rows, Generated, NoCells
<1>9. Loaded'
  BY <1>4 DEF Loaded, Strange, Early, PlacedAt, NoCells
<1>10. Lookups'
  BY <1>4, <1>1 DEF Lookups, Early, PlacedAt
<1>11. Drawn'
  BY <1>4 DEF Drawn, Strange, Twice, PlacedAt
<1>12. NotReplaced'
  BY <1>4, <1>1 DEF NotReplaced, Early, Twice, PlacedAt
<1> QED BY <1>5, <1>6, <1>7, <1>8, <1>9, <1>10, <1>11, <1>12

\* The lookup ends.
LEMMA NotFoundInv ==
    ASSUME IInv, NEW r \in Readers, NotFound(r)
    PROVE  IInv'
<1> USE DEF IInv, TypeOK, Stages, Kinds, Cells, NotFound, start, stores, readers, bounds, history
<1>1. TypeOK'
  BY KindAssumption, NoneAssumption, NoneNotForeign, BoundsAssumption DEF NoCells
<1>2. Stages'
  BY NoneAssumption, NoneNotForeign DEF NoCells
<1>3. Early'
  BY DEF Early, NoCells
<1> SUFFICES ASSUME intact' PROVE Whole'
  BY <1>1, <1>2, <1>3
<1> USE DEF Whole
<1>4. intact
  OBVIOUS
<1>5. Copies'
  BY <1>4, KindAssumption DEF Copies, At, PlacedAt
<1>6. Fresh'
  BY <1>4 DEF Fresh, NoCells
<1>7. Generated'
  BY <1>4, KindAssumption DEF Generated, Early, NoCells
<1>8. Rows'
  BY <1>4, KindAssumption DEF Rows, Generated, NoCells
<1>9. Loaded'
  BY <1>4 DEF Loaded, Strange, Early, PlacedAt, NoCells
<1>10. Lookups'
  BY <1>4, <1>1 DEF Lookups, Early, PlacedAt
<1>11. Drawn'
  BY <1>4 DEF Drawn, Strange, Twice, PlacedAt
<1>12. NotReplaced'
  BY <1>4, <1>1 DEF NotReplaced, Early, Twice, PlacedAt
<1> QED BY <1>5, <1>6, <1>7, <1>8, <1>9, <1>10, <1>11, <1>12

\* What a reader puts into memory it looked up across the start, or where
\* nothing is placed.
LEMMA KeepInv ==
    ASSUME IInv, NEW r \in Readers, Keep(r)
    PROVE  IInv'
<1> USE DEF IInv, TypeOK, Stages, Kinds, Cells, Keep, start, stores, readers, bounds, history, PutInMemory
<1>1. TypeOK'
  BY KindAssumption, NoneAssumption, NoneNotForeign, BoundsAssumption DEF NoCells
<1>2. Stages'
  BY NoneAssumption, NoneNotForeign DEF NoCells
<1>3. Early'
  BY DEF Early, NoCells
<1> SUFFICES ASSUME intact' PROVE Whole'
  BY <1>1, <1>2, <1>3
<1> USE DEF Whole
<1>4. intact
  OBVIOUS
<1>a. at[r] \in crossed \/ PlacedAt(at[r]) = {}
  BY <1>4 DEF Lookups
<1>b. held[r] \in Foreign \/ (held[r] \in At(at[r]) /\ at[r] \in crossed)
  <2>1. held[r] \in At(at[r]) \cup Foreign
    BY <1>4 DEF Copies
  <2>2. CASE at[r] \in crossed
    BY <2>1, <2>2
  <2>3. CASE PlacedAt(at[r]) = {}
    <3>1. At(at[r]) = {}
      BY <2>3 DEF At
    <3> QED BY <2>1, <3>1
  <2> QED BY <1>a, <2>2, <2>3
<1>5. Copies'
  BY <1>4, <1>a, <1>b, KindAssumption DEF Copies, At, PlacedAt
<1>6. Fresh'
  BY <1>4 DEF Fresh, NoCells
<1>7. Generated'
  BY <1>4, KindAssumption DEF Generated, Early, NoCells
<1>8. Rows'
  BY <1>4, KindAssumption DEF Rows, Generated, NoCells
<1>9. Loaded'
  BY <1>4, <1>a, <1>b DEF Loaded, Strange, PlacedAt, NoCells
<1>10. Lookups'
  BY <1>4, <1>1 DEF Lookups, Early, PlacedAt
<1>11. Drawn'
  BY <1>4, <1>a, <1>b DEF Drawn, Strange, Twice, PlacedAt
<1>12. NotReplaced'
  BY <1>4, <1>a DEF NotReplaced, Twice, PlacedAt
<1> QED BY <1>5, <1>6, <1>7, <1>8, <1>9, <1>10, <1>11, <1>12

\* Copies go.
LEMMA ExpireInv ==
    ASSUME IInv, NEW c \in Coords, Expire(c)
    PROVE  IInv'
<1> USE DEF IInv, TypeOK, Stages, Kinds, Cells, Expire, start, stores, readers, bounds, history
<1>1. TypeOK'
  BY KindAssumption, NoneAssumption, NoneNotForeign, BoundsAssumption DEF NoCells
<1>2. Stages'
  BY NoneAssumption, NoneNotForeign DEF NoCells
<1>3. Early'
  BY DEF Early, NoCells
<1> SUFFICES ASSUME intact' PROVE Whole'
  BY <1>1, <1>2, <1>3
<1> USE DEF Whole
<1>4. intact
  OBVIOUS
<1>5. Copies'
  BY <1>4, KindAssumption DEF Copies, At, PlacedAt
<1>6. Fresh'
  BY <1>4 DEF Fresh, NoCells
<1>7. Generated'
  BY <1>4, KindAssumption DEF Generated, Early, NoCells
<1>8. Rows'
  BY <1>4, KindAssumption DEF Rows, Generated, NoCells
<1>9. Loaded'
  BY <1>4 DEF Loaded, Strange, Early, PlacedAt, NoCells
<1>10. Lookups'
  BY <1>4, <1>1 DEF Lookups, Early, PlacedAt
<1>11. Drawn'
  BY <1>4 DEF Drawn, Strange, Twice, PlacedAt
<1>12. NotReplaced'
  BY <1>4, <1>1 DEF NotReplaced, Early, Twice, PlacedAt
<1> QED BY <1>5, <1>6, <1>7, <1>8, <1>9, <1>10, <1>11, <1>12

\* Another region's cell comes into Redis only.
LEMMA OtherRegionSetsInv ==
    ASSUME IInv, NEW c \in Coords, NEW cell \in Theirs[c], OtherRegionSets(c, cell)
    PROVE  IInv'
<1> USE DEF IInv, TypeOK, Stages, Kinds, Cells, OtherRegionSets, start, stores, readers, bounds, history
<1>c. cell \in Foreign
  BY DEF Foreign
<1>1. TypeOK'
  BY KindAssumption, NoneAssumption, NoneNotForeign, BoundsAssumption, <1>c DEF NoCells
<1>2. Stages'
  BY NoneAssumption, NoneNotForeign DEF NoCells
<1>3. Early'
  BY DEF Early, NoCells
<1> SUFFICES ASSUME intact' PROVE Whole'
  BY <1>1, <1>2, <1>3
<1> USE DEF Whole
<1>4. intact
  OBVIOUS
<1>5. Copies'
  BY <1>4, <1>c DEF Copies, At, PlacedAt
<1>6. Fresh'
  BY <1>4, <1>c DEF Fresh, NoCells
<1>7. Generated'
  BY <1>4, KindAssumption DEF Generated, Early, NoCells
<1>8. Rows'
  BY <1>4, KindAssumption DEF Rows, Generated, NoCells
<1>9. Loaded'
  BY <1>4 DEF Loaded, Strange, Early, PlacedAt, NoCells
<1>10. Lookups'
  BY <1>4, <1>1 DEF Lookups, Early, PlacedAt
<1>11. Drawn'
  BY <1>4 DEF Drawn, Strange, Twice, PlacedAt
<1>12. NotReplaced'
  BY <1>4, <1>1 DEF NotReplaced, Early, Twice, PlacedAt
<1> QED BY <1>5, <1>6, <1>7, <1>8, <1>9, <1>10, <1>11, <1>12

\* A start begins with an empty memory.
LEMMA CrashInv ==
    ASSUME IInv, Crash
    PROVE  IInv'
<1> USE DEF IInv, TypeOK, Stages, Kinds, Cells, Crash, start, stores, readers, bounds, history
<1>1. TypeOK'
  <2>1. failures' \in 0..MaxFailures /\ crashes' \in 0..MaxCrashes
    BY BoundsAssumption
  <2>2. intact' \in BOOLEAN /\ loaded' \in BOOLEAN
    OBVIOUS
  <2> QED BY <2>1, <2>2, NoneAssumption, NoneNotForeign DEF NoCells
<1>2. Stages'
  BY NoneAssumption, NoneNotForeign DEF NoCells
<1>3. Early'
  BY DEF Early, NoCells
<1> SUFFICES ASSUME intact' PROVE Whole'
  BY <1>1, <1>2, <1>3
<1> USE DEF Whole
<1>4. intact
  OBVIOUS
<1>5. Copies'
  BY <1>4 DEF Copies, At, PlacedAt, NoCells
<1>6. Fresh'
  BY <1>4 DEF Fresh, NoCells
<1>7. Generated'
  BY <1>4, KindAssumption DEF Generated, Early, NoCells
<1>8. Rows'
  BY <1>4, KindAssumption DEF Rows, Generated, NoCells
<1>9. Loaded'
  BY <1>4 DEF Loaded, Strange, Early, PlacedAt, NoCells
<1>10. Lookups'
  BY <1>4, <1>1 DEF Lookups, Early, PlacedAt
<1>11. Drawn'
  BY <1>4 DEF Drawn, Strange, Twice, PlacedAt
<1>12. NotReplaced'
  BY <1>4, <1>1 DEF NotReplaced, Early, Twice, PlacedAt
<1> QED BY <1>5, <1>6, <1>7, <1>8, <1>9, <1>10, <1>11, <1>12

\* Every step keeps the invariant, and so does a stutter.
LEMMA NextInv == IInv /\ [Next]_vars => IInv'
<1> SUFFICES ASSUME IInv, [Next]_vars PROVE IInv'
  OBVIOUS
<1>1. CASE Generate \/ GenerateEnds \/ Load \/ LoadShort \/ LoadEnds \/ Crash
  BY <1>1, GenerateInv, GenerateEndsInv, LoadInv, LoadShortInv, LoadEndsInv, CrashInv
<1>2. ASSUME NEW p \in Placements,
             SetCached(p) \/ PutCell(p) \/ SaveCell(p) \/ SaveCellFails(p)
      PROVE  IInv'
  BY <1>2, SetCachedInv, PutCellInv, SaveCellInv, SaveCellFailsInv
<1>3. ASSUME NEW c \in Coords, LoadCell(c) \/ Expire(c)
      PROVE  IInv'
  BY <1>3, LoadCellInv, ExpireInv
<1>4. ASSUME NEW r \in Readers, Fetch(r) \/ NotFound(r) \/ Keep(r)
      PROVE  IInv'
  BY <1>4, FetchInv, NotFoundInv, KeepInv
<1>5. ASSUME NEW r \in Readers, NEW c \in Coords, Seek(r, c)
      PROVE  IInv'
  BY <1>5, SeekInv
<1>7. ASSUME NEW c \in Coords, NEW cell \in Theirs[c], OtherRegionSets(c, cell)
      PROVE  IInv'
  BY <1>7, OtherRegionSetsInv
<1>6. CASE UNCHANGED vars
  <2> USE <1>6 DEF vars, start, stores, readers, bounds, history
  <2>1. (TypeOK /\ Stages /\ Early)'
    BY DEF IInv, TypeOK, Stages, Early, Kinds, Cells, NoCells
  <2>2. (Copies /\ Fresh /\ Generated /\ Rows)' <=> Copies /\ Fresh /\ Generated /\ Rows
    BY DEF Copies, Fresh, Generated, Rows, At, PlacedAt, NoCells
  <2>3. (Loaded /\ Lookups /\ Drawn /\ NotReplaced)' <=> Loaded /\ Lookups /\ Drawn /\ NotReplaced
    BY DEF Loaded, Lookups, Drawn, NotReplaced, Strange, Twice, PlacedAt
  <2> QED BY <2>1, <2>2, <2>3 DEF IInv, Whole
<1> QED BY <1>1, <1>2, <1>3, <1>4, <1>5, <1>6, <1>7 DEF Next

\* The invariant holds in every reachable state of WorldMap.
THEOREM Invariance == Spec => []IInv
<1>1. Init => IInv
  BY InitInv
<1>2. IInv /\ [Next]_vars => IInv'
  BY NextInv
<1> QED BY <1>1, <1>2, PTL DEF Spec

\* Every variable of WorldMap keeps to its kind (TypeOK).
THEOREM TypeCorrect == Spec => []TypeOK
<1>1. IInv => TypeOK
  BY DEF IInv
<1> QED BY <1>1, Invariance, PTL

\* A server that listens has every cell that was placed, in MySQL and in memory,
\* but for what another region's map has where Redis was asked during the start
\* (InitializeMap, LoadOrCreateCell).
THEOREM MapIsComplete == Spec => []MapComplete
<1>1. IInv => MapComplete
  <2> SUFFICES ASSUME IInv, stage = "serve", intact, NEW p \in Placements
               PROVE  /\ row[site[p]] \in At(site[p])
                      /\ \/ mem[site[p]] \in At(site[p])
                         \/ mem[site[p]] \in Foreign /\ site[p] \in crossed
    BY DEF MapComplete, At
  <2>1. site[p] \in Coords /\ mem[site[p]] # None
    BY DEF IInv, Whole, Rows, Stages
  <2>2. PlacedAt(site[p]) # {}
    BY DEF PlacedAt
  <2>3. \/ mem[site[p]] \in At(site[p])
        \/ mem[site[p]] \in Foreign /\ site[p] \in crossed
    BY <2>1, <2>2 DEF IInv, Whole, Copies
  <2>4. row[site[p]] \in At(site[p])
    BY <2>1 DEF IInv, Whole, Rows, Copies
  <2> QED BY <2>3, <2>4
<1> QED BY <1>1, Invariance, PTL

\* The memory of a server that listens says what MySQL says, but for the cells
\* that LoadOrCreateCell took from Redis during the start or where there is
\* nothing (saveGeneratedCell, loadAllCells, LoadOrCreateCell).
THEOREM MemoryTellsRows == Spec => []MemoryIsRow
<1>1. IInv => MemoryIsRow
  <2> SUFFICES ASSUME IInv, stage = "serve", intact, NEW c \in Coords
               PROVE  mem[c] = row[c] \/ c \in crossed \/ (~loaded /\ Twice(c)) \/ Strange(c)
    BY DEF MemoryIsRow, Strange
  <2>1. CASE loaded
    <3>1. toLoad = {}
      BY DEF IInv, Stages
    <3> QED BY <2>1, <3>1 DEF IInv, Whole, Loaded
  <2>2. CASE ~loaded
    BY <2>2 DEF IInv, Whole, Drawn
  <2> QED BY <2>1, <2>2
<1> QED BY <1>1, Invariance, PTL

\* A cell of the map in memory is replaced only where two placements met, or
\* where it was looked up during the start (LoadOrCreateCell).
THEOREM CellsStay == Spec => []NotReplaced
<1>1. IInv => NotReplaced
  <2>1. IInv /\ intact => NotReplaced
    BY DEF IInv, Whole
  <2> QED BY <2>1 DEF NotReplaced
<1> QED BY <1>1, Invariance, PTL
=============================================================================
