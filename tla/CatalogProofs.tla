---------------------------- MODULE CatalogProofs ----------------------------
(***************************************************************************)
(* What a name of the catalogue leads to was not dropped, for any number   *)
(* of databases, collections and requests.  A collection object has one    *)
(* place: the request that created it did so once, in the database it had  *)
(* found; what a recovery restored is in the database that it restored.    *)
(* So closing it and clearing that one place, or unlinking the database    *)
(* of that place, leaves no way to it.                                     *)
(***************************************************************************)
EXTENDS Catalog, DataLemmas

Past == {"executed", "done", "failed", "gone"}
AtRest == {"idle", "done", "refused", "failed", "gone"}

Types ==
    /\ databases \in [DbName -> Creator \cup {None}]
    /\ collections \in [DbName \X Creator -> [CollName -> Creator \cup {None}]]
    /\ closed \subseteq DbName \X CollName \X Creator
    /\ pc \in [Request -> {"idle", "begun", "database", "collection", "executed",
                            "done", "refused", "failed", "gone"}]
    /\ cmd \in [Request -> Command \cup {None}]
    /\ dbOf \in [Request -> Creator \cup {None}] /\ collOf \in [Request -> Creator \cup {None}]

\* What a handler at work holds.
HandlersOK ==
    \A r \in Request :
        /\ pc[r] # "idle" => cmd[r] \in Command
        /\ pc[r] \in {"database", "collection"} => dbOf[r] \in Creator
        /\ phase # "serving" => pc[r] \in AtRest

\* A request that has created nothing yet is nowhere.
Fresh ==
    \A r \in Request : pc[r] \notin Past =>
        \A d \in DbName :
            /\ databases[d] # r
            /\ \A c \in CollName :
                 /\ <<d, c, r>> \notin closed
                 /\ \A o \in Creator : collections[<<d, o>>][c] # r

\* A collection object is in one database object.
OnePlace ==
    \A d \in DbName, c \in CollName, k, o, p \in Creator :
        collections[<<d, o>>][c] = k /\ collections[<<d, p>>][c] = k => o = p

\* What the present databases lead to is open, in every phase.
Open ==
    \A d \in DbName, c \in CollName, k \in Creator :
        databases[d] # None /\ collections[<<d, databases[d]>>][c] = k => <<d, c, k>> \notin closed

NInv == Types /\ HandlersOK /\ Fresh /\ OnePlace /\ Open

LEMMA NoneIsNobody == None \notin Creator
BY RequestAssumption DEF Creator

LEMMA OpenImpliesNames == Types /\ Open => NamesAreOpen
<1> SUFFICES ASSUME Types, Open, NEW d \in DbName, databases[d] # None
             PROVE  CollectionsOf(<<d, databases[d]>>) \cap closed = {}
  BY DEF NamesAreOpen
<1> SUFFICES ASSUME NEW e \in DbName, NEW c \in CollName, NEW k \in Creator,
                    <<e, c, k>> \in CollectionsOf(<<d, databases[d]>>)
             PROVE  <<e, c, k>> \notin closed
  BY DEF CollectionsOf
<1>1. e = d /\ collections[<<d, databases[d]>>][c] = k
  BY DEF CollectionsOf
<1> QED BY <1>1 DEF Open

\* Where the objects of a restored catalogue are.
LEMMA RestoredPlaces ==
    ASSUME NEW cat
    PROVE  /\ \A d \in DbName : DatabasesIn(cat)[d] \in {Restored, None}
           /\ \A d \in DbName, o \in Creator, c \in CollName :
                \/ CollectionsIn(cat)[<<d, o>>][c] = None
                \/ o = Restored /\ CollectionsIn(cat)[<<d, o>>][c] = Restored
           /\ DatabasesIn(cat) \in [DbName -> Creator \cup {None}]
           /\ CollectionsIn(cat) \in [DbName \X Creator -> [CollName -> Creator \cup {None}]]
<1>1. DatabasesIn(cat) \in [DbName -> {Restored, None}]
  BY DEF DatabasesIn
<1>2. ASSUME NEW d \in DbName, NEW o \in Creator, NEW c \in CollName
      PROVE  CollectionsIn(cat)[<<d, o>>][c] =
                IF o = Restored /\ HasColl(cat, d, c) THEN Restored ELSE None
  <2>1. <<d, o>> \in DbName \X Creator /\ <<d, o>>[1] = d /\ <<d, o>>[2] = o
    OBVIOUS
  <2> QED BY <2>1 DEF CollectionsIn
<1>3. CollectionsIn(cat) \in [DbName \X Creator -> [CollName -> {Restored, None}]]
  BY DEF CollectionsIn
<1>4. {Restored, None} \subseteq Creator \cup {None}
  BY DEF Creator
<1>5. \A d \in DbName, o \in Creator, c \in CollName :
        \/ CollectionsIn(cat)[<<d, o>>][c] = None
        \/ o = Restored /\ CollectionsIn(cat)[<<d, o>>][c] = Restored
  BY <1>2
<1>6. DatabasesIn(cat) \in [DbName -> Creator \cup {None}]
  BY <1>1, <1>4
<1>7. CollectionsIn(cat) \in [DbName \X Creator -> [CollName -> Creator \cup {None}]]
  BY <1>3, <1>4
<1> QED BY <1>1, <1>5, <1>6, <1>7

\* A catalogue in memory that comes from a file: nothing is closed, and
\* everything was restored.
LEMMA LoadKeeps ==
    ASSUME NEW cat, Load(cat), Types, HandlersOK,
           pc' = pc, cmd' = cmd, dbOf' = [r \in Request |-> None], collOf' = [r \in Request |-> None],
           \A r \in Request : pc[r] \in AtRest
    PROVE  NInv'
<1>1. /\ \A d \in DbName : databases'[d] \in {Restored, None}
      /\ \A d \in DbName, o \in Creator, c \in CollName :
            collections'[<<d, o>>][c] = None \/ (o = Restored /\ collections'[<<d, o>>][c] = Restored)
      /\ closed' = {}
  <2>1. databases' = DatabasesIn(cat) /\ collections' = CollectionsIn(cat) /\ closed' = {}
    BY DEF Load
  <2>2. \A d \in DbName : databases'[d] \in {Restored, None}
    BY <2>1, RestoredPlaces, Zenon
  <2>3. ASSUME NEW d \in DbName, NEW o \in Creator, NEW c \in CollName
        PROVE  \/ collections'[<<d, o>>][c] = None
               \/ o = Restored /\ collections'[<<d, o>>][c] = Restored
    BY <2>1, RestoredPlaces
  <2> QED BY <2>1, <2>2, <2>3
<1>2. Restored \notin Request /\ None \notin Request /\ None \notin Creator /\ Restored \in Creator
  BY RequestAssumption DEF Creator
<1>3. Types'
  BY <1>2, RestoredPlaces DEF Types, Load
<1>4. HandlersOK' BY DEF HandlersOK, AtRest
<1>5. Fresh' BY <1>1, <1>2 DEF Fresh
<1>6. OnePlace' BY <1>1, <1>2 DEF OnePlace
<1>7. Open' BY <1>1 DEF Open
<1> QED BY <1>3, <1>4, <1>5, <1>6, <1>7 DEF NInv

LEMMA InitInv == Init => NInv
<1> SUFFICES ASSUME Init PROVE NInv OBVIOUS
<1>1. /\ \A d \in DbName : databases[d] \in {Restored, None}
      /\ \A d \in DbName, o \in Creator, c \in CollName :
            collections[<<d, o>>][c] = None \/ (o = Restored /\ collections[<<d, o>>][c] = Restored)
      /\ closed = {}
  <2>1. databases = DatabasesIn(base) /\ collections = CollectionsIn(base) /\ closed = {}
    BY DEF Init
  <2>2. \A d \in DbName : databases[d] \in {Restored, None}
    BY <2>1, RestoredPlaces, Zenon
  <2>3. ASSUME NEW d \in DbName, NEW o \in Creator, NEW c \in CollName
        PROVE  \/ collections[<<d, o>>][c] = None
               \/ o = Restored /\ collections[<<d, o>>][c] = Restored
    BY <2>1, RestoredPlaces
  <2> QED BY <2>1, <2>2, <2>3
<1>2. Restored \notin Request /\ None \notin Request /\ None \notin Creator /\ Restored \in Creator
  BY RequestAssumption DEF Creator
<1>3. Types
  BY <1>2, RestoredPlaces DEF Types, Init
<1>4. HandlersOK BY DEF HandlersOK, AtRest, Init
<1>5. Fresh BY <1>1, <1>2 DEF Fresh
<1>6. OnePlace BY <1>1, <1>2 DEF OnePlace
<1>7. Open BY <1>1 DEF Open
<1> QED BY <1>3, <1>4, <1>5, <1>6, <1>7 DEF NInv

-----------------------------------------------------------------------------
(* The steps of a handler.  Each leaves the state of the others alone.     *)

\* A step that changes no object, and leaves a handler no further than it was.
LEMMA QuietKeeps ==
    ASSUME NInv, NEW r \in Request, NEW to,
           UNCHANGED <<databases, collections, closed, phase>>, phase = "serving",
           pc' = [pc EXCEPT ![r] = to],
           to \in {"begun", "database", "collection", "done", "refused", "failed"},
           pc[r] \in Past => to \in Past,
           cmd' \in [Request -> Command \cup {None}],
           \A q \in Request \ {r} : cmd'[q] = cmd[q], cmd'[r] \in Command,
           dbOf' \in [Request -> Creator \cup {None}], collOf' \in [Request -> Creator \cup {None}],
           \A q \in Request \ {r} : dbOf'[q] = dbOf[q],
           to \in {"database", "collection"} => dbOf'[r] \in Creator
    PROVE  NInv'
<1>1. Types' BY DEF NInv, Types
<1>2. \A q \in Request : pc'[q] \notin Past => pc[q] \notin Past
  BY DEF NInv, Types
<1>3. HandlersOK' BY DEF NInv, Types, HandlersOK
<1>4. Fresh' BY <1>2 DEF NInv, Fresh
<1>5. OnePlace' /\ Open' BY DEF NInv, OnePlace, Open
<1> QED BY <1>1, <1>3, <1>4, <1>5 DEF NInv

\* A step that executes r's command; what it creates is r's, what it closes had a
\* place and loses it.
LEMMA ExecuteKeeps ==
    ASSUME NInv, NEW r \in Request, phase = "serving", phase' = phase,
           pc' = [pc EXCEPT ![r] = "executed"], pc[r] \in {"begun", "database", "collection"},
           cmd' = cmd, dbOf' \in [Request -> Creator \cup {None}],
           collOf' \in [Request -> Creator \cup {None}],
           \A q \in Request \ {r} : dbOf'[q] = dbOf[q],
           Types', Open',
           \A d \in DbName : databases'[d] \in {databases[d], r, None},
           \A d \in DbName, o \in Creator, c \in CollName :
               collections'[<<d, o>>][c] \in {collections[<<d, o>>][c], r, None},
           \A d \in DbName, c \in CollName, q \in Request :
               <<d, c, q>> \in closed' =>
                   <<d, c, q>> \in closed \/ \E o \in Creator : collections[<<d, o>>][c] = q,
           OnePlace'
    PROVE  NInv'
<1>1. \A q \in Request : pc'[q] \notin Past => q # r /\ pc[q] \notin Past
  BY DEF NInv, Types, Past
<1>2. HandlersOK' BY DEF NInv, Types, HandlersOK
<1>3. Fresh'
  <2> SUFFICES ASSUME NEW q \in Request, pc'[q] \notin Past, NEW d \in DbName
               PROVE  /\ databases'[d] # q
                      /\ \A c \in CollName :
                           /\ <<d, c, q>> \notin closed'
                           /\ \A o \in Creator : collections'[<<d, o>>][c] # q
    BY DEF Fresh
  <2>1. q # r /\ pc[q] \notin Past /\ q # None
    BY <1>1, RequestAssumption
  <2>6. databases'[d] # q
    <3>1. databases'[d] \in {databases[d], r, None} /\ databases[d] # q
      BY <2>1 DEF NInv, Fresh
    <3> QED BY <2>1, <3>1
  <2> SUFFICES ASSUME NEW c \in CollName
               PROVE  <<d, c, q>> \notin closed' /\ \A o \in Creator : collections'[<<d, o>>][c] # q
    BY <2>6
  <2>2. /\ databases[d] # q /\ <<d, c, q>> \notin closed
        /\ \A o \in Creator : collections[<<d, o>>][c] # q
    BY <2>1 DEF NInv, Fresh
  <2>4. ASSUME NEW o \in Creator PROVE collections'[<<d, o>>][c] # q
    <3>1. collections'[<<d, o>>][c] \in {collections[<<d, o>>][c], r, None}
      OBVIOUS
    <3> QED BY <3>1, <2>1, <2>2
  <2>5. <<d, c, q>> \notin closed'
    <3>1. <<d, c, q>> \in closed' =>
             <<d, c, q>> \in closed \/ \E o \in Creator : collections[<<d, o>>][c] = q
      OBVIOUS
    <3> QED BY <3>1, <2>2
  <2> QED BY <2>4, <2>5
<1> QED BY <1>2, <1>3 DEF NInv

LEMMA BeginInv ==
    ASSUME NInv, NEW r \in Request, Begin(r) PROVE NInv'
<1>1. PICK m \in Command : cmd' = [cmd EXCEPT ![r] = m] BY DEF Begin
<1> QED
  BY <1>1, QuietKeeps DEF Begin, Step, objects, NInv, Types, Past

LEMMA FindInv ==
    ASSUME NInv, NEW r \in Request, FindDatabase(r) \/ FindCollection(r) PROVE NInv'
<1>1. CASE FindDatabase(r)
  <2> DEFINE found == databases[cmd[r].db]
             to == IF found = None THEN "refused" ELSE "database"
  <2>1. cmd[r] \in Command /\ cmd[r].db \in DbName
    BY <1>1 DEF FindDatabase, NInv, HandlersOK, Command
  <2>2. found \in Creator \cup {None}
    BY <2>1 DEF NInv, Types
  <2>3. /\ pc' = [pc EXCEPT ![r] = to] /\ phase = "serving" /\ pc[r] = "begun"
        /\ dbOf' = [dbOf EXCEPT ![r] = found] /\ collOf' = collOf
        /\ UNCHANGED <<databases, collections, closed, phase, cmd>>
    BY <1>1 DEF FindDatabase, Step, Quietly, objects
  <2>4. to = "database" => dbOf'[r] \in Creator
    BY <2>2, <2>3 DEF NInv, Types
  <2>5. dbOf' \in [Request -> Creator \cup {None}] /\ \A q \in Request \ {r} : dbOf'[q] = dbOf[q]
    BY <2>2, <2>3 DEF NInv, Types
  <2> HIDE DEF to
  <2>6. to \in {"refused", "database"} BY DEF to
  <2> QED
    BY <2>1, <2>3, <2>4, <2>5, <2>6, QuietKeeps DEF NInv, Types, Past
<1>2. CASE FindCollection(r)
  <2> DEFINE found == collections[Db(r)][cmd[r].coll]
             to == IF found = None THEN "refused" ELSE "collection"
  <2>1. cmd[r] \in Command /\ cmd[r].db \in DbName /\ cmd[r].coll \in CollName
    BY <1>2 DEF FindCollection, NInv, HandlersOK, Command, Inserts
  <2>2. dbOf[r] \in Creator
    BY <1>2 DEF FindCollection, NInv, HandlersOK
  <2>3. found \in Creator \cup {None}
    BY <2>1, <2>2 DEF NInv, Types, Db
  <2>4. /\ pc' = [pc EXCEPT ![r] = to] /\ phase = "serving" /\ pc[r] = "database"
        /\ collOf' = [collOf EXCEPT ![r] = found] /\ dbOf' = dbOf
        /\ UNCHANGED <<databases, collections, closed, phase, cmd>>
    BY <1>2 DEF FindCollection, Step, Quietly, objects
  <2>5. collOf' \in [Request -> Creator \cup {None}]
    BY <2>3, <2>4 DEF NInv, Types
  <2> HIDE DEF to
  <2>6. to \in {"refused", "collection"} BY DEF to
  <2> QED
    BY <2>1, <2>2, <2>4, <2>5, <2>6, QuietKeeps DEF NInv, Types, Past
<1> QED BY <1>1, <1>2

LEMMA AnswerInv ==
    ASSUME NInv, NEW r \in Request, NEW from, Answer(r, from),
           from \in {"begun", "database", "collection"}
    PROVE  NInv'
<1>1. cmd[r] \in Command
  BY DEF Answer, Step, NInv, HandlersOK
<1> QED
  BY <1>1, QuietKeeps DEF Answer, Step, Unchanged, objects, NInv, Types, Past

LEMMA CreateDatabaseInv ==
    ASSUME NInv, NEW r \in Request, CreateDatabase(r) PROVE NInv'
<1>1. CASE Answer(r, "begun") BY <1>1, AnswerInv
<1>2. CASE ~Answer(r, "begun")
  <2> DEFINE d == cmd[r].db
  <2>1. /\ databases' = [databases EXCEPT ![d] = r]
        /\ collections' = [collections EXCEPT ![<<d, r>>] = NoCollections]
        /\ UNCHANGED <<closed, dbOf, collOf, cmd, phase>>
        /\ phase = "serving" /\ pc[r] = "begun" /\ pc' = [pc EXCEPT ![r] = "executed"]
    BY <1>2 DEF CreateDatabase, Step, Unchanged
  <2>2. d \in DbName /\ r \in Creator
    BY <2>1 DEF NInv, HandlersOK, Command, Creator
  <2>3. NoCollections \in [CollName -> Creator \cup {None}]
    BY DEF NoCollections
  <2>4. Types'
    BY <2>1, <2>2, <2>3 DEF NInv, Types
  <2>5. \A e \in DbName, o \in Creator, c \in CollName :
            collections'[<<e, o>>][c] = IF e = d /\ o = r THEN None ELSE collections[<<e, o>>][c]
    BY <2>1, <2>2 DEF NInv, Types, NoCollections
  <2>6. \A e \in DbName : databases'[e] = IF e = d THEN r ELSE databases[e]
    BY <2>1, <2>2 DEF NInv, Types
  <2>7. OnePlace'
    BY <2>5, NoneIsNobody DEF NInv, OnePlace
  <2>8. Open'
    BY <2>1, <2>2, <2>5, <2>6, NoneIsNobody DEF NInv, Open, Types
  <2> HIDE DEF d
  <2>9. \A e \in DbName : databases'[e] \in {databases[e], r, None}
    BY <2>6
  <2>10. \A e \in DbName, o \in Creator, c \in CollName :
            collections'[<<e, o>>][c] \in {collections[<<e, o>>][c], r, None}
    BY <2>5
  <2>11. dbOf' \in [Request -> Creator \cup {None}] /\ collOf' \in [Request -> Creator \cup {None}]
    BY <2>1 DEF NInv, Types
  <2> QED
    BY <2>1, <2>4, <2>7, <2>8, <2>9, <2>10, <2>11, ExecuteKeeps
<1> QED BY <1>1, <1>2

LEMMA DropDatabaseInv ==
    ASSUME NInv, NEW r \in Request, DropDatabase(r) PROVE NInv'
<1>1. CASE Answer(r, "begun") BY <1>1, AnswerInv
<1>2. CASE ~Answer(r, "begun")
  <2> DEFINE d == cmd[r].db
             found == databases[d]
  <2>1. /\ found # None
        /\ databases' = [databases EXCEPT ![d] = None]
        /\ closed' = closed \cup CollectionsOf(<<d, found>>)
        /\ dbOf' = [dbOf EXCEPT ![r] = found]
        /\ UNCHANGED <<collections, collOf, cmd, phase>>
        /\ phase = "serving" /\ pc[r] = "begun" /\ pc' = [pc EXCEPT ![r] = "executed"]
    BY <1>2 DEF DropDatabase, Step, Unchanged, Close
  <2>2. d \in DbName /\ found \in Creator
    <3>1. d \in DbName BY <2>1 DEF NInv, HandlersOK, Command
    <3> QED BY <2>1, <3>1 DEF NInv, Types
  <2>3. \A e \in DbName, c \in CollName, k \in Creator :
            <<e, c, k>> \in CollectionsOf(<<d, found>>) <=>
                e = d /\ collections[<<d, found>>][c] = k
    BY DEF CollectionsOf
  <2>4. \A e \in DbName : databases'[e] = IF e = d THEN None ELSE databases[e]
    BY <2>1, <2>2 DEF NInv, Types
  <2>5. Types'
    <3>1. CollectionsOf(<<d, found>>) \subseteq DbName \X CollName \X Creator
      BY DEF CollectionsOf
    <3> QED BY <2>1, <2>2, <3>1 DEF NInv, Types
  <2>6. OnePlace'
    BY <2>1 DEF NInv, OnePlace
  <2>7. Open'
    BY <2>1, <2>3, <2>4 DEF NInv, Open
  <2>8. /\ dbOf' \in [Request -> Creator \cup {None}] /\ collOf' \in [Request -> Creator \cup {None}]
        /\ \A q \in Request \ {r} : dbOf'[q] = dbOf[q]
    BY <2>1, <2>5 DEF NInv, Types
  <2>9. ASSUME NEW e \in DbName, NEW c \in CollName, NEW q \in Request, <<e, c, q>> \in closed'
        PROVE  <<e, c, q>> \in closed \/ \E o \in Creator : collections[<<e, o>>][c] = q
    BY <2>1, <2>2, <2>3, <2>9 DEF Creator
  <2> HIDE DEF d, found
  <2>10. \A e \in DbName : databases'[e] \in {databases[e], r, None}
    BY <2>4
  <2>11. \A e \in DbName, o \in Creator, c \in CollName :
            collections'[<<e, o>>][c] \in {collections[<<e, o>>][c], r, None}
    BY <2>1
  <2> QED
    BY <2>1, <2>5, <2>6, <2>7, <2>8, <2>9, <2>10, <2>11, ExecuteKeeps
<1> QED BY <1>1, <1>2

\* The place of a collection that a command names.
LEMMA PlaceNamed ==
    ASSUME NInv, NEW r \in Request, pc[r] = "database", cmd[r].op \in {"createColl", "dropColl"}
    PROVE  cmd[r].db \in DbName /\ cmd[r].coll \in CollName /\ dbOf[r] \in Creator
BY DEF NInv, HandlersOK, Command, Inserts

\* Changing one place of the map of collections.
LEMMA OneChange ==
    ASSUME NInv, NEW d \in DbName, NEW c \in CollName, NEW o \in Creator,
           NEW k \in Creator \cup {None},
           collections' = [collections EXCEPT ![<<d, o>>][c] = k]
    PROVE  /\ \A e \in DbName, p \in Creator, x \in CollName :
                collections'[<<e, p>>][x] =
                    IF e = d /\ p = o /\ x = c THEN k ELSE collections[<<e, p>>][x]
           /\ collections' \in [DbName \X Creator -> [CollName -> Creator \cup {None}]]
<1>1. collections \in [DbName \X Creator -> [CollName -> Creator \cup {None}]]
  BY DEF NInv, Types
<1> QED BY <1>1

LEMMA CreateCollectionInv ==
    ASSUME NInv, NEW r \in Request, CreateCollection(r) PROVE NInv'
<1>1. CASE Answer(r, "database") BY <1>1, AnswerInv
<1>2. CASE ~Answer(r, "database")
  <2> DEFINE d == cmd[r].db
             c == cmd[r].coll
             o == dbOf[r]
  <2>1. /\ collections' = [collections EXCEPT ![<<d, o>>][c] = r]
        /\ UNCHANGED <<databases, closed, dbOf, collOf, cmd, phase>>
        /\ phase = "serving" /\ pc[r] = "database" /\ pc' = [pc EXCEPT ![r] = "executed"]
    BY <1>2 DEF CreateCollection, Step, Unchanged, Db
  <2>2. d \in DbName /\ c \in CollName /\ o \in Creator /\ r \in Creator
    BY <2>1, PlaceNamed DEF CreateCollection, Creator
  <2>3. /\ \A e \in DbName, p \in Creator, x \in CollName :
            collections'[<<e, p>>][x] =
                IF e = d /\ p = o /\ x = c THEN r ELSE collections[<<e, p>>][x]
        /\ collections' \in [DbName \X Creator -> [CollName -> Creator \cup {None}]]
    BY <2>1, <2>2, OneChange
  <2>4. \A e \in DbName, x \in CollName :
            <<e, x, r>> \notin closed /\ \A p \in Creator : collections[<<e, p>>][x] # r
    BY <2>1 DEF NInv, Fresh, Past
  <2>5. Types'
    BY <2>1, <2>3 DEF NInv, Types
  <2> HIDE DEF d, c, o
  <2>6. OnePlace'
    <3> SUFFICES ASSUME NEW e \in DbName, NEW x \in CollName,
                        NEW k \in Creator, NEW p \in Creator, NEW q \in Creator,
                        collections'[<<e, p>>][x] = k, collections'[<<e, q>>][x] = k
                 PROVE  p = q
      BY DEF OnePlace
    <3>1. CASE k = r
      <4>1. /\ collections[<<e, p>>][x] # r /\ collections[<<e, q>>][x] # r
            /\ collections'[<<e, p>>][x] =
                 IF e = d /\ p = o /\ x = c THEN r ELSE collections[<<e, p>>][x]
            /\ collections'[<<e, q>>][x] =
                 IF e = d /\ q = o /\ x = c THEN r ELSE collections[<<e, q>>][x]
        BY <2>3, <2>4
      <4> QED BY <3>1, <4>1
    <3>2. CASE k # r
      <4>1. collections[<<e, p>>][x] = k /\ collections[<<e, q>>][x] = k
        BY <3>2, <2>3
      <4> QED BY <4>1 DEF NInv, OnePlace
    <3> QED BY <3>1, <3>2
  <2>7. Open'
    <3> SUFFICES ASSUME NEW e \in DbName, NEW x \in CollName, NEW k \in Creator,
                        databases[e] # None, collections'[<<e, databases[e]>>][x] = k
                 PROVE  <<e, x, k>> \notin closed
      BY <2>1 DEF Open
    <3>1. databases[e] \in Creator
      BY DEF NInv, Types
    <3>2. CASE k = r BY <3>2, <2>4
    <3>3. CASE k # r
      <4>1. collections[<<e, databases[e]>>][x] = k
        BY <3>1, <3>3, <2>3
      <4> QED BY <4>1 DEF NInv, Open
    <3> QED BY <3>2, <3>3
  <2>8. /\ dbOf' \in [Request -> Creator \cup {None}] /\ collOf' \in [Request -> Creator \cup {None}]
    BY <2>5 DEF Types
  <2>9. \A e \in DbName, p \in Creator, x \in CollName :
            collections'[<<e, p>>][x] \in {collections[<<e, p>>][x], r, None}
    BY <2>3
  <2> QED
    BY <2>1, <2>5, <2>6, <2>7, <2>8, <2>9, ExecuteKeeps
<1> QED BY <1>1, <1>2

LEMMA DropCollectionInv ==
    ASSUME NInv, NEW r \in Request, DropCollection(r) PROVE NInv'
<1>1. CASE Answer(r, "database") BY <1>1, AnswerInv
<1>2. CASE ~Answer(r, "database")
  <2> DEFINE d == cmd[r].db
             c == cmd[r].coll
             o == dbOf[r]
             k == collections[<<d, o>>][c]
  <2>1. /\ k # None
        /\ collections' = [collections EXCEPT ![<<d, o>>][c] = None]
        /\ closed' = closed \cup {<<d, c, k>>}
        /\ collOf' = [collOf EXCEPT ![r] = k]
        /\ UNCHANGED <<databases, dbOf, cmd, phase>>
        /\ phase = "serving" /\ pc[r] = "database" /\ pc' = [pc EXCEPT ![r] = "executed"]
    BY <1>2 DEF DropCollection, Step, Unchanged, Db, Close
  <2>2. d \in DbName /\ c \in CollName /\ o \in Creator
    BY <2>1, PlaceNamed DEF DropCollection
  <2>3. k \in Creator
    BY <2>1, <2>2 DEF NInv, Types
  <2>4. /\ \A e \in DbName, p \in Creator, x \in CollName :
            collections'[<<e, p>>][x] =
                IF e = d /\ p = o /\ x = c THEN None ELSE collections[<<e, p>>][x]
        /\ collections' \in [DbName \X Creator -> [CollName -> Creator \cup {None}]]
    BY <2>1, <2>2, OneChange
  <2>5. Types'
    <3>1. closed' \subseteq DbName \X CollName \X Creator
      BY <2>1, <2>2, <2>3 DEF NInv, Types
    <3>2. collOf' \in [Request -> Creator \cup {None}]
      BY <2>1, <2>3 DEF NInv, Types
    <3>3. pc' \in [Request -> {"idle", "begun", "database", "collection", "executed",
                              "done", "refused", "failed", "gone"}]
      BY <2>1 DEF NInv, Types
    <3> QED BY <2>1, <2>4, <3>1, <3>2, <3>3 DEF NInv, Types
  <2>6. collections[<<d, o>>][c] = k
    OBVIOUS
  <2> HIDE DEF d, c, o, k
  <2>7. OnePlace'
    BY <2>4, NoneIsNobody DEF NInv, OnePlace
  <2>8. Open'
    <3> SUFFICES ASSUME NEW e \in DbName, NEW x \in CollName, NEW j \in Creator,
                        databases[e] # None, collections'[<<e, databases[e]>>][x] = j
                 PROVE  <<e, x, j>> \notin closed'
      BY <2>1 DEF Open
    <3>1. databases[e] \in Creator
      BY DEF NInv, Types
    <3>2. /\ collections[<<e, databases[e]>>][x] = j
          /\ ~(e = d /\ databases[e] = o /\ x = c)
      BY <3>1, <2>4, NoneIsNobody
    <3>3. <<e, x, j>> \notin closed
      BY <3>2 DEF NInv, Open
    <3>4. <<e, x, j>> # <<d, c, k>>
      BY <3>1, <3>2, <2>2, <2>3, <2>6 DEF NInv, OnePlace
    <3> QED BY <3>3, <3>4, <2>1
  <2>9. /\ dbOf' \in [Request -> Creator \cup {None}] /\ collOf' \in [Request -> Creator \cup {None}]
    BY <2>5 DEF Types
  <2>10. \A e \in DbName, p \in Creator, x \in CollName :
            collections'[<<e, p>>][x] \in {collections[<<e, p>>][x], r, None}
    BY <2>4
  <2>11. ASSUME NEW e \in DbName, NEW x \in CollName, NEW q \in Request, <<e, x, q>> \in closed'
         PROVE  <<e, x, q>> \in closed \/ \E p \in Creator : collections[<<e, p>>][x] = q
    BY <2>1, <2>2, <2>6, <2>11
  <2> QED
    BY <2>1, <2>5, <2>7, <2>8, <2>9, <2>10, <2>11, ExecuteKeeps
<1> QED BY <1>1, <1>2

LEMMA VectorsInv ==
    ASSUME NInv, NEW r \in Request, Insert(r) \/ Delete(r) PROVE NInv'
<1>1. /\ UNCHANGED <<databases, collections, closed, dbOf, collOf, cmd, phase>>
      /\ phase = "serving" /\ pc[r] = "collection" /\ pc' = [pc EXCEPT ![r] = "executed"]
  BY DEF Insert, Delete, Step, Unchanged
<1>2. Types' /\ OnePlace' /\ Open'
  BY <1>1 DEF NInv, Types, OnePlace, Open
<1>3. dbOf' \in [Request -> Creator \cup {None}] /\ collOf' \in [Request -> Creator \cup {None}]
  BY <1>2 DEF Types
<1> QED BY <1>1, <1>2, <1>3, ExecuteKeeps

LEMMA LogInv ==
    ASSUME NInv, NEW r \in Request, Log(r) \/ LogFails(r) PROVE NInv'
<1>1. PICK to \in {"done", "failed"} :
        /\ pc' = [pc EXCEPT ![r] = to]
        /\ phase = "serving" /\ pc[r] = "executed"
        /\ UNCHANGED <<databases, collections, closed, phase, cmd, dbOf, collOf>>
  BY DEF Log, LogFails, Step, objects
<1>2. cmd[r] \in Command
  BY <1>1 DEF NInv, HandlersOK
<1> QED BY <1>1, <1>2, QuietKeeps DEF NInv, Types, Past

LEMMA DieInv == NInv /\ phase = "serving" /\ Die => NInv'
<1> SUFFICES ASSUME NInv, phase = "serving", Die PROVE NInv' OBVIOUS
<1>1. /\ UNCHANGED <<databases, collections, closed, cmd, dbOf, collOf>>
      /\ \A r \in Request : pc'[r] = IF pc[r] \in {"idle", "done", "refused", "failed"}
                                     THEN pc[r] ELSE "gone"
      /\ pc' \in [Request -> {"idle", "begun", "database", "collection", "executed",
                              "done", "refused", "failed", "gone"}]
  BY DEF Die, objects, NInv, Types
<1>2. Types' BY <1>1 DEF NInv, Types
<1>3. HandlersOK' BY <1>1 DEF NInv, HandlersOK, AtRest
<1>4. Fresh' BY <1>1 DEF NInv, Fresh, Past
<1>5. OnePlace' /\ Open' BY <1>1 DEF NInv, OnePlace, Open
<1> QED BY <1>2, <1>3, <1>4, <1>5 DEF NInv

LEMMA RestartInv == NInv /\ Restart => NInv'
<1> SUFFICES ASSUME NInv, Restart PROVE NInv' OBVIOUS
<1> DEFINE cat == Replay(base, log)
<1>1. /\ phase = "down" /\ pc' = pc /\ cmd' = cmd
      /\ dbOf' = [r \in Request |-> None] /\ collOf' = [r \in Request |-> None]
      /\ Load(cat) \/ (phase' = "refused" /\ UNCHANGED objects)
  BY DEF Restart, Recover
<1> HIDE DEF cat
<1>2. \A r \in Request : pc[r] \in AtRest
  BY <1>1 DEF NInv, HandlersOK
<1>3. CASE Load(cat)
  BY <1>1, <1>2, <1>3, LoadKeeps DEF NInv
<1>4. CASE phase' = "refused" /\ UNCHANGED objects
  <2>1. Types' BY <1>1, <1>4 DEF NInv, Types, objects
  <2>2. HandlersOK' BY <1>1, <1>2 DEF NInv, HandlersOK, AtRest
  <2>3. Fresh' /\ OnePlace' /\ Open'
    BY <1>1, <1>4 DEF NInv, Fresh, OnePlace, Open, objects
  <2> QED BY <2>1, <2>2, <2>3 DEF NInv
<1> QED BY <1>1, <1>3, <1>4

LEMMA SameInv ==
    ASSUME NInv, UNCHANGED <<objects, handlers, phase>> PROVE NInv'
BY DEF objects, handlers, NInv, Types, HandlersOK, Fresh, OnePlace, Open

LEMMA HandleInv ==
    ASSUME NInv, NEW r \in Request, Handle(r) PROVE NInv'
<1>1. CASE Begin(r) BY <1>1, BeginInv
<1>2. CASE FindDatabase(r) \/ FindCollection(r) BY <1>2, FindInv
<1>3. CASE CreateDatabase(r) BY <1>3, CreateDatabaseInv
<1>4. CASE DropDatabase(r) BY <1>4, DropDatabaseInv
<1>5. CASE CreateCollection(r) BY <1>5, CreateCollectionInv
<1>6. CASE DropCollection(r) BY <1>6, DropCollectionInv
<1>7. CASE Insert(r) \/ Delete(r) BY <1>7, VectorsInv
<1>8. CASE InsertRefused(r) BY <1>8, AnswerInv DEF InsertRefused
<1>9. CASE InsertPanics(r) BY <1>9, DieInv, AnswerInv DEF InsertPanics
<1>10. CASE Log(r) \/ LogFails(r) BY <1>10, LogInv
<1> QED
  BY <1>1, <1>2, <1>3, <1>4, <1>5, <1>6, <1>7, <1>8, <1>9, <1>10 DEF Handle

\* For any number of databases, collections and requests: every object has one
\* place at most, a request that has not executed is nowhere, and what the
\* present databases lead to is open (NInv), through every interleaving of the
\* handlers with crashes, panics and recoveries.
THEOREM NamesInvariance == Spec => []NInv
<1>1. Init => NInv BY InitInv
<1>2. NInv /\ [Next]_vars => NInv'
  <2> SUFFICES ASSUME NInv, [Next]_vars PROVE NInv' OBVIOUS
  <2>1. CASE \E r \in Request : Handle(r) BY <2>1, HandleInv
  <2>2. CASE Save BY <2>2, SameInv DEF Save
  <2>3. CASE Crash BY <2>3, DieInv DEF Crash
  <2>4. CASE Restart BY <2>4, RestartInv
  <2>5. CASE UNCHANGED vars BY <2>5, SameInv DEF vars
  <2> QED BY <2>1, <2>2, <2>3, <2>4, <2>5 DEF Next
<1> QED BY <1>1, <1>2, PTL DEF Spec

\* A name never stands for a closed collection: GetDatabase and GetCollection
\* never return what a drop has closed before they began.
THEOREM NamesStayOpen == Spec => []NamesAreOpen
<1>1. NInv => NamesAreOpen BY OpenImpliesNames DEF NInv
<1> QED BY <1>1, NamesInvariance, PTL

-----------------------------------------------------------------------------
(***************************************************************************)
(* The catalogue is linearizable, and the AOF replays to it unless one of  *)
(* the causes that Catalog names has occurred: for any number of           *)
(* databases, collections and requests.                                    *)
(*                                                                         *)
(* The history lin has every command that was executed since the last save *)
(* or recovery, in the order in which they count.  The invariant says that *)
(* it has a trace, a catalogue after each command, from the RDB file to    *)
(* what memory holds (LinTrace).  A command is added at the end or, when   *)
(* what it works on was dropped, before the drop, which then absorbs its   *)
(* effect (Absorbed): for that the invariant has to say where the objects  *)
(* are that handlers hold (Held, Placed), that a handler's pointer leads   *)
(* to what has the name or to what a drop in lin has dropped (Fresher),    *)
(* and that what was dropped stays dropped and has nothing after it        *)
(* (Gone).  The log has a trace of its own, and the commands of lin that   *)
(* are not logged lead from its end to what memory holds; logging one that *)
(* clashes with none before it moves it to the front (TraceMove).          *)
(*                                                                         *)
(* Each XOrder lemma says that action X preserves the invariant OInv.      *)
(***************************************************************************)

-----------------------------------------------------------------------------
(* Commands on catalogues.                                                 *)

CollOps == {"createColl", "dropColl", "delete"} \cup Inserts

LEMMA CommandFields ==
    ASSUME NEW m \in Command
    PROVE  /\ m.db \in DbName
           /\ m.op \in {"createDb", "dropDb"} \cup CollOps
           /\ m.op \in CollOps => m.coll \in CollName
BY DEF Command, CollOps, Inserts

LEMMA NotNone ==
    /\ \A set \in SUBSET Request : set # None
    /\ NoCollections # None
    /\ \A map \in [CollName -> (SUBSET Request) \cup {None}] : map # None
    /\ NoCollections \in [CollName -> (SUBSET Request) \cup {None}]
    /\ Refused \notin Catalogue
<1>1. ASSUME NEW V, None \in V
      PROVE  NoCollections \in [CollName -> V]
  BY <1>1 DEF NoCollections
<1>2. NoCollections \in [CollName -> (SUBSET Request) \cup {None}]
  BY <1>1
<1>3. NoCollections # None
  BY <1>2, ValuesAssumption
<1>4. Refused \notin Catalogue
  BY ValuesAssumption
<1> QED BY <1>2, <1>3, <1>4, ValuesAssumption

\* What a command leaves of a collection.
Change(m, r, old) ==
    IF m.op = "dropColl" THEN None
    ELSE IF m.op \in Inserts THEN old \cup {r}
    ELSE {}

\* An effect, database by database.
EffectIs(cat, m, r) ==
    LET new == Effect(cat, m, r)
    IN  /\ new \in Catalogue
        /\ \A e \in DbName \ {m.db} : new[e] = cat[e]
        /\ m.op = "createDb" => cat[m.db] = None /\ new[m.db] = NoCollections
        /\ m.op = "dropDb" => cat[m.db] # None /\ new[m.db] = None
        /\ m.op \in CollOps =>
             /\ cat[m.db] \in [CollName -> (SUBSET Request) \cup {None}]
             /\ new[m.db] = [cat[m.db] EXCEPT ![m.coll] = Change(m, r, @)]
             /\ new[m.db] \in [CollName -> (SUBSET Request) \cup {None}]
             /\ m.op = "createColl" => cat[m.db][m.coll] = None
             /\ m.op # "createColl" => cat[m.db][m.coll] \in SUBSET Request

LEMMA EffectAt ==
    ASSUME NEW cat \in Catalogue, NEW r \in Request, NEW m \in Command, Fits(cat, m)
    PROVE  EffectIs(cat, m, r)
<1> DEFINE d == m.db
           new == Effect(cat, m, r)
           Maps == [CollName -> (SUBSET Request) \cup {None}]
<1>1. d \in DbName /\ m.op \in {"createDb", "dropDb"} \cup CollOps
      /\ (m.op \in CollOps => m.coll \in CollName)
  BY CommandFields
<1>2. cat \in [DbName -> Maps \cup {None}]
  BY DEF Catalogue
<1>3. CASE m.op = "createDb"
  <2>1. new = [cat EXCEPT ![d] = NoCollections] /\ cat[d] = None
    BY <1>3 DEF Effect, Fits, HasDb, Inserts
  <2>2. new \in Catalogue
    BY <1>1, <1>2, <2>1, NotNone DEF Catalogue
  <2> QED BY <1>1, <1>2, <1>3, <2>1, <2>2 DEF EffectIs, CollOps, Inserts
<1>4. CASE m.op = "dropDb"
  <2>1. new = [cat EXCEPT ![d] = None] /\ cat[d] # None
    BY <1>4 DEF Effect, Fits, HasDb, Inserts
  <2>2. new \in Catalogue
    BY <1>1, <1>2, <2>1, NotNone DEF Catalogue
  <2> QED BY <1>1, <1>2, <1>4, <2>1, <2>2 DEF EffectIs, CollOps, Inserts
<1>5. CASE m.op \in CollOps
  <2>0. m.op \notin {"createDb", "dropDb"}
    BY <1>5 DEF CollOps, Inserts
  <2>1. cat[d] \in Maps
    <3>1. cat[d] # None
      BY <2>0 DEF Fits, HasColl, HasDb
    <3> QED BY <1>1, <1>2, <3>1
  <2>2. /\ m.op = "createColl" => cat[d][m.coll] = None
        /\ m.op # "createColl" => cat[d][m.coll] \in SUBSET Request
    <3>1. cat[d][m.coll] \in (SUBSET Request) \cup {None}
      BY <1>1, <1>5, <2>1
    <3>2. CASE m.op = "createColl"
      BY <3>2 DEF Fits, HasColl, HasDb, Inserts
    <3>3. CASE m.op # "createColl"
      <4>1. cat[d][m.coll] # None
        BY <2>0, <3>3 DEF Fits, HasColl
      <4> QED BY <3>1, <3>3, <4>1
    <3> QED BY <3>2, <3>3
  <2>3. new = [cat EXCEPT ![d][m.coll] = Change(m, r, @)]
    <3>1. CASE m.op = "dropColl"
      BY <3>1 DEF Effect, Change, Inserts
    <3>2. CASE m.op \in {"createColl", "delete"}
      BY <3>2 DEF Effect, Change, Inserts
    <3>3. CASE m.op \in Inserts
      BY <3>3 DEF Effect, Change, Inserts
    <3> QED BY <1>5, <3>1, <3>2, <3>3 DEF CollOps
  <2>4. new[d] = [cat[d] EXCEPT ![m.coll] = Change(m, r, @)]
        /\ \A e \in DbName \ {d} : new[e] = cat[e]
    BY <1>1, <1>2, <2>3
  <2>5. Change(m, r, cat[d][m.coll]) \in (SUBSET Request) \cup {None}
    <3>1. CASE m.op = "dropColl" BY <3>1, Zenon DEF Change
    <3>2. CASE m.op \in Inserts BY <2>2, <3>2 DEF Change, Inserts
    <3>3. CASE m.op \notin Inserts \cup {"dropColl"} BY <3>3 DEF Change
    <3> QED BY <3>1, <3>2, <3>3
  <2>6. new[d] \in Maps
    BY <1>1, <1>5, <2>1, <2>4, <2>5
  <2>7. new \in Catalogue
    <3>1. new = [cat EXCEPT ![d] = new[d]]
      BY <1>1, <1>2, <2>3, <2>4
    <3> QED BY <1>1, <1>2, <2>6, <3>1 DEF Catalogue
  <2> QED BY <1>5, <2>0, <2>1, <2>2, <2>4, <2>6, <2>7 DEF EffectIs
<1> QED BY <1>1, <1>3, <1>4, <1>5

\* Two commands that do not clash, executed one after the other, can be executed
\* the other way round, and give the same.
LEMMA Commute ==
    ASSUME NEW cat \in Catalogue, NEW q \in Request, NEW r \in Request,
           NEW m \in Command, NEW n \in Command, ~Clash(m, n),
           Fits(cat, m), Fits(Effect(cat, m, q), n)
    PROVE  /\ Fits(cat, n) /\ Fits(Effect(cat, n, r), m)
           /\ Effect(Effect(cat, n, r), m, q) = Effect(Effect(cat, m, q), n, r)
<1> DEFINE Maps == [CollName -> (SUBSET Request) \cup {None}]
           a == Effect(cat, m, q)
           b == Effect(a, n, r)
           x == Effect(cat, n, r)
           y == Effect(x, m, q)
<1>1. /\ m.db \in DbName /\ n.db \in DbName
      /\ m.op \in {"createDb", "dropDb"} \cup CollOps /\ n.op \in {"createDb", "dropDb"} \cup CollOps
      /\ (m.op \in CollOps => m.coll \in CollName) /\ (n.op \in CollOps => n.coll \in CollName)
  BY CommandFields
<1>2. EffectIs(cat, m, q) /\ a \in Catalogue
  BY EffectAt DEF EffectIs
<1>20. EffectIs(a, n, r) /\ b \in Catalogue
  BY <1>2, EffectAt DEF EffectIs
<1>3. CASE m.db # n.db
  <2>1. a[n.db] = cat[n.db]
    BY <1>1, <1>2, <1>3 DEF EffectIs
  <2>2. Fits(cat, n)
    BY <2>1 DEF Fits, HasColl, HasDb
  <2>3. EffectIs(cat, n, r) /\ x \in Catalogue /\ x[m.db] = cat[m.db]
    BY <1>1, <1>3, <2>2, EffectAt DEF EffectIs
  <2>4. Fits(x, m)
    BY <2>3 DEF Fits, HasColl, HasDb
  <2>5. EffectIs(x, m, q) /\ y \in Catalogue
    BY <2>3, <2>4, EffectAt DEF EffectIs
  <2>6. ASSUME NEW e \in DbName PROVE y[e] = b[e]
    <3>1. CASE e = m.db
      <4>1. b[e] = a[e]
        BY <3>1, <1>20, <1>3 DEF EffectIs
      <4>2. y[e] = a[e]
        BY <3>1, <1>1, <1>2, <2>3, <2>5 DEF EffectIs
      <4> QED BY <4>1, <4>2
    <3>2. CASE e = n.db
      <4>1. y[e] = x[e]
        BY <3>2, <2>5, <1>3 DEF EffectIs
      <4>2. b[e] = x[e]
        BY <3>2, <1>1, <1>20, <2>1, <2>3 DEF EffectIs
      <4> QED BY <4>1, <4>2
    <3>3. CASE e \notin {m.db, n.db}
      BY <3>3, <1>2, <1>20, <2>3, <2>5 DEF EffectIs
    <3> QED BY <3>1, <3>2, <3>3
  <2>7. y = b
    BY <1>20, <2>5, <2>6 DEF Catalogue
  <2> QED BY <2>2, <2>4, <2>7
<1>4. CASE m.db = n.db
  <2> DEFINE d == m.db
  <2>1. m.op \in CollOps /\ n.op \in CollOps
    <3>1. {m.op, n.op} \cap {"createDb", "dropDb"} = {}
      BY <1>4, Zenon DEF Clash
    <3> QED BY <1>1, <3>1
  <2>2. m.coll \in CollName /\ n.coll \in CollName /\ n.db = d /\ d \in DbName
    BY <1>1, <1>4, <2>1
  <2>3. \/ m.coll # n.coll
        \/ m.coll = n.coll /\ (m.op = n.op \/ (m.op \in Inserts /\ n.op \in Inserts))
    <3>1. ~(m.coll = n.coll /\ ~({m.op, n.op} \subseteq Inserts) /\ m.op # n.op)
      BY <1>4, Zenon DEF Clash
    <3> QED BY <3>1
  <2>4. /\ cat[d] \in Maps /\ a[d] \in Maps
        /\ a[d] = [cat[d] EXCEPT ![m.coll] = Change(m, q, @)]
        /\ b[d] = [a[d] EXCEPT ![n.coll] = Change(n, r, @)]
        /\ m.op = "createColl" => cat[d][m.coll] = None
        /\ m.op # "createColl" => cat[d][m.coll] \in SUBSET Request
        /\ n.op = "createColl" => a[d][n.coll] = None
        /\ n.op # "createColl" => a[d][n.coll] \in SUBSET Request
    BY <1>2, <1>20, <2>1, <2>2 DEF EffectIs
  <2>5. m.op \notin {"createDb", "dropDb"} /\ n.op \notin {"createDb", "dropDb"}
    BY <2>1 DEF CollOps, Inserts
  <2>6. ~(m.coll = n.coll /\ m.op = "createColl" /\ n.op = "createColl")
    BY <2>4, <2>2, NotNone DEF Change, Inserts
  <2>7. ~(m.coll = n.coll /\ m.op = "dropColl" /\ n.op = "dropColl")
    BY <2>4, <2>2, NotNone DEF Change, Inserts
  <2>8. /\ n.op = "createColl" => cat[d][n.coll] = None
        /\ n.op # "createColl" => cat[d][n.coll] \in SUBSET Request
    <3>1. CASE m.coll # n.coll
      BY <3>1, <2>4, <2>2
    <3>2. CASE m.coll = n.coll
      <4>1. m.op # "createColl" \/ n.op # "createColl"
        BY <3>2, <2>6
      <4>2. (m.op = "createColl" <=> n.op = "createColl")
        BY <3>2, <2>3 DEF Inserts
      <4> QED BY <3>2, <2>4, <4>1, <4>2
    <3> QED BY <3>1, <3>2
  <2>9. Fits(cat, n)
    BY <2>1, <2>2, <2>4, <2>8, NotNone DEF Fits, HasColl, HasDb, CollOps, Inserts
  <2>10. x \in Catalogue /\ x[d] \in Maps /\ x[d] = [cat[d] EXCEPT ![n.coll] = Change(n, r, @)]
    BY <2>1, <2>2, <2>9, EffectAt DEF EffectIs
  <2>11. /\ m.op = "createColl" => x[d][m.coll] = None
         /\ m.op # "createColl" => x[d][m.coll] \in SUBSET Request
    <3>1. CASE m.coll # n.coll
      BY <3>1, <2>4, <2>2, <2>10
    <3>2. CASE m.coll = n.coll /\ m.op \in Inserts /\ n.op \in Inserts
      <4>1. Change(n, r, cat[d][m.coll]) = cat[d][m.coll] \cup {r}
        BY <3>2, Zenon DEF Change, Inserts
      <4>2. x[d][m.coll] = cat[d][m.coll] \cup {r}
        BY <3>2, <4>1, <2>2, <2>4, <2>10
      <4>3. m.op # "createColl"
        BY <3>2 DEF Inserts
      <4> QED BY <4>2, <4>3, <2>4
    <3>3. CASE m.coll = n.coll /\ m.op = "delete" /\ n.op = "delete"
      BY <3>3, <2>2, <2>4, <2>10 DEF Change, Inserts
    <3> QED BY <3>1, <3>2, <3>3, <2>1, <2>3, <2>6, <2>7 DEF CollOps
  <2>12. Fits(x, m)
    BY <2>1, <2>2, <2>10, <2>11, NotNone DEF Fits, HasColl, HasDb, CollOps, Inserts
  <2>13. y \in Catalogue /\ y[d] = [x[d] EXCEPT ![m.coll] = Change(m, q, @)]
    <3>1. EffectIs(x, m, q)
      BY <2>10, <2>12, EffectAt
    <3> QED BY <2>1, <2>2, <3>1 DEF EffectIs
  <2>14. y[d] = b[d]
    <3>1. CASE m.coll # n.coll
      <4> DEFINE u == Change(m, q, cat[d][m.coll])
                 v == Change(n, r, cat[d][n.coll])
      <4>1. a[d][n.coll] = cat[d][n.coll] /\ x[d][m.coll] = cat[d][m.coll]
        BY <3>1, <2>2, <2>4, <2>10
      <4>2. /\ b[d] = [[cat[d] EXCEPT ![m.coll] = u] EXCEPT ![n.coll] = v]
            /\ y[d] = [[cat[d] EXCEPT ![n.coll] = v] EXCEPT ![m.coll] = u]
        BY <4>1, <2>4, <2>10, <2>13
      <4> HIDE DEF u, v
      <4> QED BY <3>1, <4>2, <2>2, <2>4
    <3>2. CASE m.coll = n.coll /\ m.op \in Inserts /\ n.op \in Inserts
      <4>1. /\ Change(m, q, cat[d][m.coll]) = cat[d][m.coll] \cup {q}
            /\ Change(n, r, a[d][m.coll]) = a[d][m.coll] \cup {r}
            /\ Change(n, r, cat[d][m.coll]) = cat[d][m.coll] \cup {r}
            /\ Change(m, q, x[d][m.coll]) = x[d][m.coll] \cup {q}
        BY <3>2 DEF Change, Inserts
      <4>2. /\ a[d] = [cat[d] EXCEPT ![m.coll] = cat[d][m.coll] \cup {q}]
            /\ x[d] = [cat[d] EXCEPT ![m.coll] = cat[d][m.coll] \cup {r}]
            /\ b[d] = [a[d] EXCEPT ![m.coll] = a[d][m.coll] \cup {r}]
            /\ y[d] = [x[d] EXCEPT ![m.coll] = x[d][m.coll] \cup {q}]
        BY <3>2, <4>1, <2>2, <2>4, <2>10, <2>13
      <4>3. cat[d][m.coll] \cup {q} \cup {r} = cat[d][m.coll] \cup {r} \cup {q}
        OBVIOUS
      <4>4. /\ b[d] = [cat[d] EXCEPT ![m.coll] = cat[d][m.coll] \cup {q} \cup {r}]
            /\ y[d] = [cat[d] EXCEPT ![m.coll] = cat[d][m.coll] \cup {r} \cup {q}]
        <5> DEFINE u == cat[d][m.coll] \cup {q}
                   v == cat[d][m.coll] \cup {r}
        <5>1. a[d][m.coll] = u /\ x[d][m.coll] = v
          BY <4>2, <2>2, <2>4
        <5>2. b[d] = [[cat[d] EXCEPT ![m.coll] = u] EXCEPT ![m.coll] = u \cup {r}]
              /\ y[d] = [[cat[d] EXCEPT ![m.coll] = v] EXCEPT ![m.coll] = v \cup {q}]
          BY <5>1, <4>2
        <5> HIDE DEF u, v
        <5>3. b[d] = [cat[d] EXCEPT ![m.coll] = u \cup {r}] /\ y[d] = [cat[d] EXCEPT ![m.coll] = v \cup {q}]
          BY <5>2, <2>2, <2>4
        <5> QED BY <5>3 DEF u, v
      <4> QED BY <4>3, <4>4
    <3>3. CASE m.coll = n.coll /\ m.op = "delete" /\ n.op = "delete"
      BY <3>3, <2>2, <2>4, <2>10, <2>13 DEF Change, Inserts
    <3> QED BY <3>1, <3>2, <3>3, <2>1, <2>3, <2>6, <2>7 DEF CollOps
  <2>15. \A e \in DbName \ {d} : y[e] = b[e]
    <3>1. EffectIs(cat, n, r) /\ EffectIs(x, m, q)
      BY <2>9, <2>10, <2>12, EffectAt
    <3> QED BY <1>2, <1>20, <2>2, <3>1 DEF EffectIs
  <2>16. y = b
    BY <1>20, <2>2, <2>13, <2>14, <2>15 DEF Catalogue
  <2> QED BY <2>9, <2>12, <2>16
<1> QED BY <1>3, <1>4

-----------------------------------------------------------------------------
(* Replays, with the catalogue after each command.                         *)

\* t is what the commands of s that are in R make of t[0]; k has the commands.
Trace(k, s, R, t) ==
    /\ t \in [0 .. Len(s) -> Catalogue]
    /\ \A i \in 1 .. Len(s) :
        IF s[i] \in R THEN Fits(t[i - 1], k[s[i]]) /\ t[i] = Effect(t[i - 1], k[s[i]], s[i])
        ELSE t[i] = t[i - 1]

LEMMA TraceReplays ==
    ASSUME NEW s \in Seq(Request), NEW R, NEW t, Trace(cmd, s, R, t)
    PROVE  ReplayPart(t[0], s, R) = t[Len(s)]
<1> DEFINE n == Len(s)
           F(g) == [i \in 0 .. n |->
                      IF i = 0 THEN t[0]
                      ELSE IF s[i] \in R THEN ApplyCommand(g[i - 1], s[i])
                      ELSE g[i - 1]]
           f == CHOOSE g : g = F(g)
<1>0. n \in Nat
  OBVIOUS
<1>1. t \in [0 .. n -> Catalogue]
  BY DEF Trace
<1>2. ASSUME NEW i \in 1 .. n
      PROVE  t[i] = IF s[i] \in R THEN ApplyCommand(t[i - 1], s[i]) ELSE t[i - 1]
  <2>1. t[i - 1] \in Catalogue
    BY <1>1
  <2>2. t[i - 1] # Refused
    BY <2>1, NotNone
  <2> QED BY <2>2 DEF Trace, ApplyCommand
<1>3. \E g : g = F(g)
  <2>1. t = F(t)
    BY <1>0, <1>1, <1>2
  <2> QED BY <2>1
<1>4. f = F(f)
  <2> HIDE DEF F
  <2> QED BY <1>3
<1>5. f[0] = t[0] /\ \A i \in 1 .. n : f[i] = IF s[i] \in R THEN ApplyCommand(f[i - 1], s[i])
                                              ELSE f[i - 1]
  <2> HIDE DEF f
  <2>1. f[0] = t[0]
    BY <1>0, <1>4
  <2>2. ASSUME NEW i \in 1 .. n
        PROVE  f[i] = IF s[i] \in R THEN ApplyCommand(f[i - 1], s[i]) ELSE f[i - 1]
    <3>1. i \in 0 .. n /\ i # 0
      BY <1>0
    <3>2. F(f)[i] = IF s[i] \in R THEN ApplyCommand(f[i - 1], s[i]) ELSE f[i - 1]
      BY <3>1
    <3> QED BY <3>2, <1>4, Zenon
  <2> QED BY <2>1, <2>2
<1>6. \A i \in 0 .. n : f[i] = t[i]
  <2> DEFINE S == {i \in 0 .. n : f[i] = t[i]}
  <2> HIDE DEF f
  <2>1. 0 \in S
    BY <1>0, <1>5
  <2>2. \A i \in 0 .. n - 1 : i \in S => i + 1 \in S
    <3> SUFFICES ASSUME NEW i \in 0 .. n - 1, f[i] = t[i] PROVE f[i + 1] = t[i + 1]
      BY <1>0
    <3>1. i + 1 \in 1 .. n /\ (i + 1) - 1 = i
      BY <1>0
    <3> QED BY <1>2, <1>5, <3>1
  <2>3. \A i \in 0 .. n : i \in S
    <3> HIDE DEF S
    <3> QED BY <1>0, <2>1, <2>2, UpTo
  <2> QED BY <2>3
<1>7. ReplayPart(t[0], s, R) = f[n]
  BY DEF ReplayPart
<1> HIDE DEF f
<1> QED BY <1>0, <1>6, <1>7

\* A replay that is not refused has a trace.
LEMMA ReplayTrace ==
    ASSUME NEW cat \in Catalogue, NEW s \in Seq(Request),
           \A i \in 1 .. Len(s) : cmd[s[i]] \in Command,
           Replay(cat, s) # Refused
    PROVE  \E t : Trace(cmd, s, Request, t) /\ t[0] = cat
<1> DEFINE n == Len(s)
           C == Catalogue \cup {Refused}
           F(g) == [i \in 0 .. n |->
                      IF i = 0 THEN cat
                      ELSE IF s[i] \in Request THEN ApplyCommand(g[i - 1], s[i])
                      ELSE g[i - 1]]
           f == CHOOSE g : g = F(g)
           Good(g, m) == /\ g \in [0 .. m -> C] /\ g[0] = cat
                         /\ \A i \in 1 .. m : g[i] = ApplyCommand(g[i - 1], s[i])
<1>0. n \in Nat /\ \A i \in 1 .. n : s[i] \in Request
  OBVIOUS
<1>1. ASSUME NEW c \in C, NEW i \in 1 .. n
      PROVE  ApplyCommand(c, s[i]) \in C
  <2>1. CASE c # Refused /\ Fits(c, cmd[s[i]])
    <3>1. Effect(c, cmd[s[i]], s[i]) \in Catalogue
      BY <1>0, <2>1, EffectAt DEF EffectIs
    <3> QED BY <2>1, <3>1 DEF ApplyCommand
  <2> QED BY <2>1 DEF ApplyCommand
<1>2. \E g : Good(g, n)
  <2> DEFINE S == {m \in 0 .. n : \E g : Good(g, m)}
  <2>1. 0 \in S
    <3>1. Good([i \in 0 .. 0 |-> cat], 0)
      OBVIOUS
    <3> HIDE DEF Good
    <3> QED BY <3>1, <1>0
  <2>2. \A m \in 0 .. n - 1 : m \in S => m + 1 \in S
    <3> SUFFICES ASSUME NEW m \in 0 .. n - 1, m \in S PROVE \E g : Good(g, m + 1)
      <4> HIDE DEF Good
      <4> QED BY <1>0
    <3>1. PICK g : Good(g, m)
      <4> HIDE DEF Good
      <4> QED OBVIOUS
    <3> DEFINE h == [i \in 0 .. m + 1 |-> IF i = m + 1 THEN ApplyCommand(g[m], s[m + 1]) ELSE g[i]]
    <3>2. ApplyCommand(g[m], s[m + 1]) \in C
      <4>1. g[m] \in C /\ m + 1 \in 1 .. n
        BY <1>0, <3>1
      <4> QED BY <1>1, <4>1
    <3>3. h \in [0 .. m + 1 -> C] /\ h[0] = cat
      BY <1>0, <3>1, <3>2
    <3>4. ASSUME NEW i \in 1 .. m + 1 PROVE h[i] = ApplyCommand(h[i - 1], s[i])
      <4>1. CASE i = m + 1
        <5>1. h[i - 1] = g[m] /\ h[i] = ApplyCommand(g[m], s[m + 1])
          BY <1>0, <4>1
        <5> QED BY <4>1, <5>1
      <4>2. CASE i # m + 1
        <5>1. h[i - 1] = g[i - 1] /\ h[i] = g[i] /\ i \in 1 .. m
          BY <1>0, <4>2
        <5> QED BY <3>1, <5>1
      <4> QED BY <4>1, <4>2
    <3> HIDE DEF h
    <3> QED BY <3>3, <3>4
  <2>3. \A m \in 0 .. n : m \in S
    <3> HIDE DEF S
    <3> QED BY <1>0, <2>1, <2>2, UpTo
  <2> HIDE DEF Good
  <2> QED BY <1>0, <2>3
<1>3. PICK g : Good(g, n)
  BY <1>2
<1>4. g = F(g)
  BY <1>0, <1>3
<1>5. f = F(f)
  <2> HIDE DEF F
  <2> QED BY <1>4
<1>6. f[0] = cat /\ \A i \in 1 .. n : f[i] = ApplyCommand(f[i - 1], s[i])
  <2> HIDE DEF f
  <2> QED BY <1>0, <1>5
<1>7. f[n] # Refused
  BY DEF Replay, ReplayPart
<1>8. \A i \in 0 .. n : f[i] = g[i]
  <2> DEFINE S == {i \in 0 .. n : f[i] = g[i]}
  <2> HIDE DEF f
  <2>1. 0 \in S
    BY <1>0, <1>3, <1>6
  <2>2. \A i \in 0 .. n - 1 : i \in S => i + 1 \in S
    <3> SUFFICES ASSUME NEW i \in 0 .. n - 1, f[i] = g[i] PROVE f[i + 1] = g[i + 1]
      BY <1>0
    <3>1. i + 1 \in 1 .. n /\ (i + 1) - 1 = i
      BY <1>0
    <3> QED BY <1>3, <1>6, <3>1
  <2>3. \A i \in 0 .. n : i \in S
    <3> HIDE DEF S
    <3> QED BY <1>0, <2>1, <2>2, UpTo
  <2> QED BY <2>3
<1>9. \A i \in 0 .. n : g[i] # Refused
  <2> DEFINE S == {i \in 0 .. n : g[i] # Refused}
  <2>1. n \in S
    <3> HIDE DEF f
    <3> QED BY <1>0, <1>7, <1>8
  <2>2. \A i \in 0 .. n - 1 : i + 1 \in S => i \in S
    <3> SUFFICES ASSUME NEW i \in 0 .. n - 1, g[i + 1] # Refused PROVE g[i] # Refused
      BY <1>0
    <3>1. g[i + 1] = ApplyCommand(g[i], s[i + 1])
      <4>1. i + 1 \in 1 .. n /\ (i + 1) - 1 = i
        BY <1>0
      <4> QED BY <1>3, <4>1
    <3> QED BY <3>1 DEF ApplyCommand
  <2>3. \A i \in 0 .. n : i \in S
    <3> HIDE DEF S
    <3> QED BY <1>0, <2>1, <2>2, DownFrom
  <2> QED BY <2>3
<1>10. g \in [0 .. n -> Catalogue]
  BY <1>0, <1>3, <1>9
<1>11. \A i \in 1 .. n : Fits(g[i - 1], cmd[s[i]]) /\ g[i] = Effect(g[i - 1], cmd[s[i]], s[i])
  <2> SUFFICES ASSUME NEW i \in 1 .. n
               PROVE  Fits(g[i - 1], cmd[s[i]]) /\ g[i] = Effect(g[i - 1], cmd[s[i]], s[i])
    OBVIOUS
  <2>1. g[i] = ApplyCommand(g[i - 1], s[i]) /\ g[i] # Refused
    BY <1>0, <1>3, <1>9
  <2> QED BY <2>1 DEF ApplyCommand
<1>12. Trace(cmd, s, Request, g)
  BY <1>0, <1>10, <1>11 DEF Trace
<1> QED BY <1>3, <1>12

\* One more command.
LEMMA TraceAppend ==
    ASSUME NEW k, NEW s \in Seq(Request), NEW R, NEW t, Trace(k, s, R, t),
           NEW r \in R \cap Request, k[r] \in Command, Fits(t[Len(s)], k[r])
    PROVE  \E u : /\ Trace(k, Append(s, r), R, u)
                  /\ \A i \in 0 .. Len(s) : u[i] = t[i]
                  /\ u[Len(s) + 1] = Effect(t[Len(s)], k[r], r)
<1> DEFINE n == Len(s)
           S == Append(s, r)
           u == [i \in 0 .. n + 1 |-> IF i = n + 1 THEN Effect(t[n], k[r], r) ELSE t[i]]
<1>1. n \in Nat /\ t \in [0 .. n -> Catalogue]
  BY DEF Trace
<1>2. Len(S) = n + 1 /\ S[n + 1] = r /\ \A i \in 1 .. n : S[i] = s[i]
  OBVIOUS
<1>3. Effect(t[n], k[r], r) \in Catalogue
  BY <1>1, EffectAt DEF EffectIs
<1>4. u \in [0 .. n + 1 -> Catalogue] /\ u[n + 1] = Effect(t[n], k[r], r) /\ \A i \in 0 .. n : u[i] = t[i]
  BY <1>1, <1>3
<1> HIDE DEF u, S
<1>5. ASSUME NEW i \in 1 .. n + 1
      PROVE  IF S[i] \in R THEN Fits(u[i - 1], k[S[i]]) /\ u[i] = Effect(u[i - 1], k[S[i]], S[i])
             ELSE u[i] = u[i - 1]
  <2>1. CASE i = n + 1
    <3>1. u[i - 1] = t[n]
      BY <1>1, <1>4, <2>1
    <3> QED BY <1>2, <1>4, <2>1, <3>1
  <2>2. CASE i # n + 1
    <3>1. i \in 1 .. n /\ u[i - 1] = t[i - 1] /\ u[i] = t[i] /\ S[i] = s[i]
      BY <1>1, <1>2, <1>4, <2>2
    <3> QED BY <3>1 DEF Trace
  <2> QED BY <2>1, <2>2
<1>6. Trace(k, S, R, u)
  BY <1>2, <1>4, <1>5 DEF Trace
<1> QED BY <1>4, <1>6 DEF S

LEMMA InsertedAt ==
    ASSUME NEW s \in Seq(Request), NEW i \in 1 .. Len(s), NEW r \in Request
    PROVE  /\ InsertAt(s, i, r) \in Seq(Request)
           /\ Len(InsertAt(s, i, r)) = Len(s) + 1
           /\ \A j \in 1 .. Len(s) + 1 :
                InsertAt(s, i, r)[j] = IF j < i THEN s[j] ELSE IF j = i THEN r ELSE s[j - 1]
<1> DEFINE a == SubSeq(s, 1, i - 1)
           b == SubSeq(s, i, Len(s))
<1>0. Len(s) \in Nat /\ i \in 1 .. Len(s)
  OBVIOUS
<1>1. a \in Seq(Request) /\ Len(a) = i - 1 /\ \A j \in 1 .. i - 1 : a[j] = s[j]
  OBVIOUS
<1>2. b \in Seq(Request) /\ Len(b) = Len(s) - i + 1 /\ \A j \in 1 .. Len(s) - i + 1 : b[j] = s[i + j - 1]
  OBVIOUS
<1>3. InsertAt(s, i, r) = a \o <<r>> \o b
  BY DEF InsertAt
<1> HIDE DEF a, b
<1>4. <<r>> \in Seq(Request) /\ Len(<<r>>) = 1 /\ <<r>>[1] = r
  OBVIOUS
<1> DEFINE c == a \o <<r>>
<1>5. c \in Seq(Request) /\ Len(c) = i /\ \A j \in 1 .. i : c[j] = IF j < i THEN s[j] ELSE r
  BY <1>1, <1>4
<1> HIDE DEF c
<1>6. c \o b \in Seq(Request) /\ Len(c \o b) = Len(s) + 1
  <2>1. c \o b \in Seq(Request) /\ Len(c \o b) = Len(c) + Len(b)
    BY <1>2, <1>5, ConcatProperties, Zenon
  <2> QED BY <1>0, <1>2, <1>5, <2>1
<1>7. ASSUME NEW j \in 1 .. Len(s) + 1
      PROVE  (c \o b)[j] = IF j < i THEN s[j] ELSE IF j = i THEN r ELSE s[j - 1]
  <2>1. CASE j <= i
    <3>1. (c \o b)[j] = c[j] /\ j \in 1 .. i
      BY <1>0, <1>2, <1>5, <2>1
    <3> QED BY <1>0, <1>5, <2>1, <3>1
  <2>2. CASE j > i
    <3>1. (c \o b)[j] = b[j - i] /\ j - i \in 1 .. Len(s) - i + 1
      BY <1>0, <1>2, <1>5, <2>2
    <3>2. b[j - i] = s[i + (j - i) - 1] /\ i + (j - i) - 1 = j - 1
      BY <1>0, <1>2, <3>1
    <3> QED BY <1>0, <2>2, <3>1, <3>2
  <2>3. j <= i \/ j > i
    BY <1>0
  <2> QED BY <2>1, <2>2, <2>3
<1> QED BY <1>3, <1>6, <1>7 DEF c

\* The trace u has the command of r before the i-th of s.
TraceWith(k, s, i, r, t, u) ==
    /\ Trace(k, InsertAt(s, i, r), Request, u)
    /\ \A j \in 0 .. i - 1 : u[j] = t[j]
    /\ u[i] = Effect(t[i - 1], k[r], r)
    /\ \A j \in i .. Len(s) : u[j + 1] = t[j]

\* One more command, whose effect the next one absorbs.
LEMMA TraceInsert ==
    ASSUME NEW k, NEW s \in Seq(Request), NEW t, Trace(k, s, Request, t),
           NEW i \in 1 .. Len(s), NEW r \in Request, k[r] \in Command, Fits(t[i - 1], k[r]),
           Fits(Effect(t[i - 1], k[r], r), k[s[i]]),
           Effect(Effect(t[i - 1], k[r], r), k[s[i]], s[i]) = t[i]
    PROVE  \E u : TraceWith(k, s, i, r, t, u)
<1> DEFINE n == Len(s)
           S == InsertAt(s, i, r)
           e == Effect(t[i - 1], k[r], r)
           u == [j \in 0 .. n + 1 |-> IF j < i THEN t[j] ELSE IF j = i THEN e ELSE t[j - 1]]
<1>1. n \in Nat /\ i \in 1 .. n /\ t \in [0 .. n -> Catalogue] /\ t[i - 1] \in Catalogue
  BY DEF Trace
<1>2. S \in Seq(Request) /\ Len(S) = n + 1
      /\ \A j \in 1 .. n + 1 : S[j] = IF j < i THEN s[j] ELSE IF j = i THEN r ELSE s[j - 1]
  BY InsertedAt
<1>3. e \in Catalogue
  BY <1>1, EffectAt DEF EffectIs
<1>4. Fits(e, k[s[i]]) /\ Effect(e, k[s[i]], s[i]) = t[i] /\ Fits(t[i - 1], k[r])
  OBVIOUS
<1>40. e = Effect(t[i - 1], k[r], r)
  OBVIOUS
<1>5. \A j \in 1 .. n : s[j] \in Request
  OBVIOUS
<1> HIDE DEF e, S
<1>6. /\ u \in [0 .. n + 1 -> Catalogue]
      /\ \A j \in 0 .. i - 1 : u[j] = t[j]
      /\ u[i] = e
      /\ \A j \in i .. n : u[j + 1] = t[j]
  BY <1>1, <1>3
<1> HIDE DEF u
<1>7. ASSUME NEW j \in 1 .. n + 1
      PROVE  Fits(u[j - 1], k[S[j]]) /\ u[j] = Effect(u[j - 1], k[S[j]], S[j])
  <2>1. CASE j < i
    <3>1. u[j - 1] = t[j - 1] /\ u[j] = t[j] /\ S[j] = s[j] /\ j \in 1 .. n
      BY <1>1, <1>2, <1>6, <2>1
    <3> QED BY <1>5, <3>1 DEF Trace
  <2>2. CASE j = i
    <3>1. u[j - 1] = t[i - 1] /\ u[j] = e /\ S[j] = r
      BY <1>1, <1>2, <1>6, <2>2
    <3> QED BY <1>4, <1>40, <3>1
  <2>3. CASE j = i + 1
    <3>1. u[j - 1] = e /\ u[j] = t[i] /\ S[j] = s[i]
      <4>1. j - 1 = i /\ i \in i .. n /\ ~(j < i) /\ j # i
        BY <1>1, <2>3
      <4>2. u[i + 1] = t[i] /\ u[i] = e /\ S[j] = s[j - 1]
        BY <1>2, <1>6, <4>1
      <4> QED BY <2>3, <4>1, <4>2
    <3> QED BY <1>4, <3>1
  <2>4. CASE j > i + 1
    <3>1. j - 1 \in i .. n /\ j - 2 \in i .. n /\ j - 1 \in 1 .. n /\ (j - 2) + 1 = j - 1
          /\ (j - 1) - 1 = j - 2 /\ (j - 1) + 1 = j
      BY <1>1, <2>4
    <3>2. u[j - 1] = t[j - 2] /\ u[j] = t[j - 1]
      BY <1>6, <3>1
    <3>3. S[j] = s[j - 1]
      BY <1>1, <1>2, <2>4
    <3>4. Fits(t[j - 2], k[s[j - 1]]) /\ t[j - 1] = Effect(t[j - 2], k[s[j - 1]], s[j - 1])
      BY <1>5, <3>1 DEF Trace
    <3> QED BY <3>2, <3>3, <3>4
  <2> QED BY <1>1, <2>1, <2>2, <2>3, <2>4
<1>8. Trace(k, S, Request, u)
  BY <1>2, <1>6, <1>7 DEF Trace
<1> QED BY <1>1, <1>6, <1>8, <1>40 DEF S, TraceWith

\* The p-th command of s clashes with none of those before it.
Movable(k, s, R, p) ==
    /\ s[p] \in R /\ \A i \in 1 .. Len(s) : k[s[i]] \in Command
    /\ \A i \in 1 .. Len(s) : s[i] = s[p] => i = p
    /\ \A i \in 1 .. p - 1 : s[i] \in R => ~Clash(k[s[i]], k[s[p]])

\* The trace u is t without the command of r, which comes before it.
TraceWithout(k, s, R, r, t, u) ==
    /\ Trace(k, s, R \ {r}, u)
    /\ u[0] = Effect(t[0], k[r], r) /\ u[Len(s)] = t[Len(s)]

\* Such a command can be taken first.
LEMMA TraceMove ==
    ASSUME NEW k, NEW s \in Seq(Request), NEW R, NEW t, Trace(k, s, R, t),
           NEW p \in 1 .. Len(s), Movable(k, s, R, p)
    PROVE  Fits(t[0], k[s[p]]) /\ \E u : TraceWithout(k, s, R, s[p], t, u)
<1> DEFINE n == Len(s)
           r == s[p]
           u == [j \in 0 .. n |-> IF j < p THEN Effect(t[j], k[r], r) ELSE t[j]]
<1>1. n \in Nat /\ p \in 1 .. n /\ r \in Request /\ k[r] \in Command /\ t \in [0 .. n -> Catalogue]
      /\ r \in R /\ \A j \in 1 .. n : s[j] \in Request /\ k[s[j]] \in Command
  BY DEF Trace, Movable
<1>2. Fits(t[p - 1], k[r]) /\ t[p] = Effect(t[p - 1], k[r], r)
  BY <1>1 DEF Trace
<1>20. /\ \A j \in 1 .. n : s[j] = r => j = p
       /\ \A j \in 1 .. p - 1 : s[j] \in R => ~Clash(k[s[j]], k[r])
       /\ s[p] = r
  BY DEF Movable
<1> HIDE DEF r
<1>3. ASSUME NEW j \in 1 .. p - 1, Fits(t[j], k[r])
      PROVE  /\ Fits(t[j - 1], k[r])
             /\ IF s[j] \in R
                THEN /\ Fits(Effect(t[j - 1], k[r], r), k[s[j]])
                     /\ Effect(Effect(t[j - 1], k[r], r), k[s[j]], s[j]) = Effect(t[j], k[r], r)
                ELSE t[j] = t[j - 1]
  <2>1. j \in 1 .. n /\ t[j - 1] \in Catalogue
    BY <1>1
  <2>2. CASE s[j] \in R
    <3>1. Fits(t[j - 1], k[s[j]]) /\ t[j] = Effect(t[j - 1], k[s[j]], s[j])
      BY <2>1, <2>2 DEF Trace
    <3>2. ~Clash(k[s[j]], k[r])
      BY <1>20, <2>2
    <3> QED BY <1>1, <1>3, <2>1, <2>2, <3>1, <3>2, Commute
  <2>3. CASE s[j] \notin R
    BY <1>3, <2>1, <2>3 DEF Trace
  <2> QED BY <2>2, <2>3
<1>4. \A j \in 0 .. p - 1 : Fits(t[j], k[r])
  <2> DEFINE S == {j \in 0 .. p - 1 : Fits(t[j], k[r])}
  <2>1. p - 1 \in S /\ p - 1 \in Nat
    BY <1>1, <1>2
  <2>2. \A j \in 0 .. (p - 1) - 1 : j + 1 \in S => j \in S
    <3> SUFFICES ASSUME NEW j \in 0 .. (p - 1) - 1, Fits(t[j + 1], k[r]) PROVE Fits(t[j], k[r])
      BY <1>1
    <3>1. j + 1 \in 1 .. p - 1 /\ (j + 1) - 1 = j
      BY <1>1
    <3> QED BY <1>3, <3>1
  <2>3. \A j \in 0 .. p - 1 : j \in S
    <3> HIDE DEF S
    <3> QED BY <2>1, <2>2, DownFrom
  <2> QED BY <2>3
<1>5. \A j \in 0 .. p - 1 : Effect(t[j], k[r], r) \in Catalogue
  <2> SUFFICES ASSUME NEW j \in 0 .. p - 1 PROVE Effect(t[j], k[r], r) \in Catalogue
    OBVIOUS
  <2>1. t[j] \in Catalogue /\ Fits(t[j], k[r])
    BY <1>1, <1>4
  <2> QED BY <1>1, <2>1, EffectAt DEF EffectIs
<1>6. /\ u \in [0 .. n -> Catalogue]
      /\ \A j \in 0 .. p - 1 : u[j] = Effect(t[j], k[r], r)
      /\ \A j \in p .. n : u[j] = t[j]
  BY <1>1, <1>5
<1> HIDE DEF u
<1>7. ASSUME NEW j \in 1 .. n
      PROVE  IF s[j] \in R \ {r} THEN Fits(u[j - 1], k[s[j]]) /\ u[j] = Effect(u[j - 1], k[s[j]], s[j])
             ELSE u[j] = u[j - 1]
  <2>1. CASE j < p
    <3>1. j \in 1 .. p - 1 /\ j - 1 \in 0 .. p - 1 /\ j \in 0 .. p - 1 /\ s[j] # r
      BY <1>1, <1>20, <2>1
    <3>2. u[j - 1] = Effect(t[j - 1], k[r], r) /\ u[j] = Effect(t[j], k[r], r) /\ Fits(t[j], k[r])
      BY <1>4, <1>6, <3>1
    <3> QED BY <1>3, <3>1, <3>2
  <2>2. CASE j = p
    <3>1. u[j - 1] = t[p] /\ u[j] = t[p]
      BY <1>1, <1>2, <1>6, <2>2
    <3> QED BY <1>20, <2>2, <3>1
  <2>3. CASE j > p
    <3>1. j - 1 \in p .. n /\ j \in p .. n /\ s[j] # r
      BY <1>1, <1>20, <2>3
    <3>2. u[j - 1] = t[j - 1] /\ u[j] = t[j]
      BY <1>6, <3>1
    <3> QED BY <3>1, <3>2 DEF Trace
  <2> QED BY <1>1, <2>1, <2>2, <2>3
<1>8. Trace(k, s, R \ {r}, u)
  BY <1>6, <1>7 DEF Trace
<1>9. u[0] = Effect(t[0], k[r], r) /\ u[n] = t[n] /\ Fits(t[0], k[r])
  BY <1>1, <1>4, <1>6
<1>10. TraceWithout(k, s, R, r, t, u)
  BY <1>8, <1>9 DEF TraceWithout
<1> QED BY <1>9, <1>10 DEF r

\* The drop of a database absorbs what is done to its collections, the drop of a
\* collection what is done to its vectors.
LEMMA Absorbed ==
    ASSUME NEW cat \in Catalogue, NEW q \in Request, NEW r \in Request,
           NEW m \in Command, NEW n \in Command, Fits(cat, m), Fits(cat, n),
           m.db = n.db, n.op \in CollOps,
           \/ m.op = "dropDb"
           \/ m.op = "dropColl" /\ m.coll = n.coll /\ n.op \in {"delete"} \cup Inserts
    PROVE  /\ Fits(Effect(cat, n, r), m)
           /\ Effect(Effect(cat, n, r), m, q) = Effect(cat, m, q)
<1> DEFINE x == Effect(cat, n, r)
           y == Effect(x, m, q)
           a == Effect(cat, m, q)
           d == m.db
<1>1. EffectIs(cat, n, r) /\ EffectIs(cat, m, q) /\ x \in Catalogue /\ a \in Catalogue
  BY EffectAt DEF EffectIs
<1>2. d \in DbName /\ n.coll \in CollName
  BY CommandFields
<1>3. x[d] \in [CollName -> (SUBSET Request) \cup {None}]
      /\ x[d] = [cat[d] EXCEPT ![n.coll] = Change(n, r, cat[d][n.coll])]
      /\ cat[d] \in [CollName -> (SUBSET Request) \cup {None}]
  BY <1>1 DEF EffectIs
<1> HIDE DEF x
<1>4. x[d] # None
  BY <1>3, NotNone
<1>5. CASE m.op = "dropDb"
  <2>1. Fits(x, m)
    BY <1>4, <1>5 DEF Fits, HasDb
  <2>2. EffectIs(x, m, q) /\ y \in Catalogue
    BY <1>1, <2>1, EffectAt DEF EffectIs
  <2>3. \A e \in DbName : y[e] = a[e]
    BY <1>1, <1>5, <2>2 DEF EffectIs, x
  <2>4. y = a
    BY <1>1, <2>2, <2>3 DEF Catalogue
  <2> QED BY <2>1, <2>4 DEF x
<1>6. CASE m.op = "dropColl" /\ m.coll = n.coll /\ n.op \in {"delete"} \cup Inserts
  <2>0. n.op # "createColl" /\ n.op # "dropColl"
    BY <1>6 DEF Inserts
  <2>1. cat[d][n.coll] \in SUBSET Request
    BY <1>1, <2>0 DEF EffectIs
  <2>2. Change(n, r, cat[d][n.coll]) \in SUBSET Request
    <3>1. CASE n.op \in Inserts BY <2>0, <2>1, <3>1 DEF Change
    <3>2. CASE n.op \notin Inserts BY <2>0, <3>2 DEF Change
    <3> QED BY <3>1, <3>2
  <2>3. x[d][n.coll] \in SUBSET Request
    BY <1>2, <1>3, <2>2
  <2>4. Fits(x, m)
    BY <1>4, <1>6, <2>3, NotNone DEF Fits, HasDb, HasColl
  <2>5. EffectIs(x, m, q) /\ y \in Catalogue
    BY <1>1, <2>4, EffectAt DEF EffectIs, x
  <2>6. y[d] = [x[d] EXCEPT ![n.coll] = None] /\ a[d] = [cat[d] EXCEPT ![n.coll] = None]
    <3>1. Change(m, q, x[d][m.coll]) = None /\ Change(m, q, cat[d][m.coll]) = None
      BY <1>6, Zenon DEF Change
    <3>2. m.op \in CollOps
      BY <1>6 DEF CollOps
    <3> QED BY <1>1, <1>6, <2>5, <3>1, <3>2 DEF EffectIs
  <2>7. y[d] = a[d]
    <3> DEFINE v == Change(n, r, cat[d][n.coll])
    <3>1. y[d] = [[cat[d] EXCEPT ![n.coll] = v] EXCEPT ![n.coll] = None]
      BY <1>3, <2>6
    <3> HIDE DEF v
    <3> QED BY <1>2, <1>3, <2>6, <3>1
  <2>8. \A e \in DbName : y[e] = a[e]
    BY <1>1, <2>5, <2>7 DEF EffectIs, x
  <2>9. y = a
    BY <1>1, <2>5, <2>8 DEF Catalogue
  <2> QED BY <2>4, <2>9 DEF x
<1> QED BY <1>5, <1>6

-----------------------------------------------------------------------------
(* The invariant.                                                          *)

\* The requests whose command counts as executed and is not logged.
Executed == {r \in Request : pc[r] = "executed"}

Shape ==
    /\ vectors \in [DbName \X CollName \X Creator -> SUBSET Request]
    /\ base \in Catalogue
    /\ log \in Seq(Request) /\ lin \in Seq(Request)
    /\ \A i, j \in 1 .. Len(log) : log[i] = log[j] => i = j
    /\ \A i, j \in 1 .. Len(lin) : lin[i] = lin[j] => i = j

\* Where a command is, according to its handler.
Counted ==
    /\ \A i \in 1 .. Len(log) : pc[log[i]] = "done"
    /\ \A i \in 1 .. Len(lin) : pc[lin[i]] \in Past
    /\ phase = "serving" => \A r \in Executed : \E i \in 1 .. Len(lin) : lin[i] = r

\* The object that collection object k is in.
Place(k) == IF k \in Request THEN dbOf[k] ELSE Restored

\* What the handlers hold, at each stage, was created before, and where.
Held ==
    \A r \in Request :
        /\ pc[r] \in {"idle", "begun"} => dbOf[r] = None /\ collOf[r] = None
        /\ pc[r] = "database" => collOf[r] = None /\ cmd[r].op \in CollOps
        /\ pc[r] = "collection" => collOf[r] \in Creator /\ cmd[r].op \in {"delete"} \cup Inserts
        /\ dbOf[r] \in Request => pc[dbOf[r]] \in Past
        /\ collOf[r] \in Request => pc[collOf[r]] \in Past
        /\ collOf[r] # None => dbOf[r] = Place(collOf[r])
        /\ pc[r] \notin Past => \A d \in DbName, c \in CollName : vectors[<<d, c, r>>] = {}

Placed ==
    \A d \in DbName, c \in CollName, o, k \in Creator :
        collections[<<d, o>>][c] = k => o = Place(k)

DropsDb(q) == cmd[q].op = "dropDb" /\ dbOf[q] # None
DropsColl(q) == cmd[q].op = "dropColl" /\ collOf[q] # None

\* A handler's pointers lead to what has the name, unless it was dropped.
Fresher ==
    \A r \in Request :
        /\ pc[r] \in {"database", "collection"} =>
             \/ databases[cmd[r].db] = dbOf[r]
             \/ \E i \in 1 .. Len(lin) : DropsDb(lin[i]) /\ Db(lin[i]) = Db(r)
        /\ pc[r] = "collection" =>
             \/ collections[Db(r)][cmd[r].coll] = collOf[r]
             \/ \E i \in 1 .. Len(lin) : DropsColl(lin[i]) /\ Coll(lin[i]) = Coll(r)

\* What was dropped has no name any more, and the drop of a database is the last
\* command on it.
Gone ==
    \A i \in 1 .. Len(lin) :
        /\ DropsDb(lin[i]) =>
             /\ databases[cmd[lin[i]].db] # dbOf[lin[i]]
             /\ \A j \in 1 .. Len(lin) : Db(lin[j]) = Db(lin[i]) => j <= i
        /\ DropsColl(lin[i]) =>
             \A o \in Creator : collections[<<cmd[lin[i]].db, o>>][cmd[lin[i]].coll] # collOf[lin[i]]

\* The catalogue before the drop of a database has the collections that the
\* dropped object still has.
Match(t, i) ==
    DropsDb(lin[i]) =>
        \A c \in CollName :
            HasColl(t[i - 1], cmd[lin[i]].db, c) <=> collections[Db(lin[i])][c] # None

LinTrace(t) ==
    /\ Trace(cmd, lin, Request, t)
    /\ t[0] = base /\ t[Len(lin)] = View
    /\ \A i \in 1 .. Len(lin) : Match(t, i)

LogTrace(l) == Trace(cmd, log, Request, l) /\ l[0] = base
RestTrace(l, t) ==
    Trace(cmd, lin, Executed, t) /\ t[0] = l[Len(log)] /\ t[Len(lin)] = View

LogOK ==
    causes = {} =>
        /\ phase # "refused"
        /\ \E l : LogTrace(l) /\ (phase = "serving" => \E t : RestTrace(l, t))

Serving == Held /\ Placed /\ Fresher /\ Gone /\ \E t : LinTrace(t)

OInv == NInv /\ Shape /\ Counted /\ (phase = "serving" => Serving) /\ LogOK

-----------------------------------------------------------------------------
(* What memory holds, name by name.                                        *)

Maps == [CollName -> (SUBSET Request) \cup {None}]
Databases == [DbName -> Creator \cup {None}]
Collections == [DbName \X Creator -> [CollName -> Creator \cup {None}]]
Vectors == [DbName \X CollName \X Creator -> SUBSET Request]

ViewOf(D, C, V) ==
    [d \in DbName |->
        IF D[d] = None THEN None
        ELSE [c \in CollName |->
            IF C[<<d, D[d]>>][c] = None THEN None ELSE V[<<d, c, C[<<d, D[d]>>][c]>>]]]

Sees(cat, D, C, V) ==
    \A d \in DbName :
        /\ D[d] = None => cat[d] = None
        /\ D[d] # None =>
             /\ cat[d] \in Maps /\ cat[d] # None
             /\ \A c \in CollName :
                  /\ C[<<d, D[d]>>][c] = None => cat[d][c] = None
                  /\ C[<<d, D[d]>>][c] # None =>
                       cat[d][c] = V[<<d, c, C[<<d, D[d]>>][c]>>] /\ cat[d][c] # None

LEMMA ViewSees ==
    ASSUME NEW D \in Databases, NEW C \in Collections, NEW V \in Vectors
    PROVE  ViewOf(D, C, V) \in Catalogue /\ Sees(ViewOf(D, C, V), D, C, V)
<1> DEFINE cat == ViewOf(D, C, V)
<1>1. ASSUME NEW d \in DbName, D[d] = None PROVE cat[d] = None
  BY <1>1 DEF ViewOf
<1>2. ASSUME NEW d \in DbName, D[d] # None
      PROVE  /\ cat[d] \in Maps /\ cat[d] # None
             /\ \A c \in CollName :
                  /\ C[<<d, D[d]>>][c] = None => cat[d][c] = None
                  /\ C[<<d, D[d]>>][c] # None =>
                       cat[d][c] = V[<<d, c, C[<<d, D[d]>>][c]>>] /\ cat[d][c] # None
  <2> DEFINE val(c) == IF C[<<d, D[d]>>][c] = None THEN None ELSE V[<<d, c, C[<<d, D[d]>>][c]>>]
  <2>1. cat[d] = [c \in CollName |-> val(c)]
    BY <1>2 DEF ViewOf
  <2>2. ASSUME NEW c \in CollName
        PROVE  /\ C[<<d, D[d]>>][c] = None => val(c) = None
               /\ C[<<d, D[d]>>][c] # None =>
                    val(c) = V[<<d, c, C[<<d, D[d]>>][c]>>] /\ val(c) \in SUBSET Request
    <3>1. D[d] \in Creator
      BY <1>2 DEF Databases
    <3>2. C[<<d, D[d]>>][c] \in Creator \cup {None}
      BY <3>1 DEF Collections
    <3>3. C[<<d, D[d]>>][c] # None => V[<<d, c, C[<<d, D[d]>>][c]>>] \in SUBSET Request
      BY <3>2 DEF Vectors
    <3>4. /\ C[<<d, D[d]>>][c] = None => val(c) = None
          /\ C[<<d, D[d]>>][c] # None => val(c) = V[<<d, c, C[<<d, D[d]>>][c]>>]
      BY Zenon
    <3> HIDE DEF val
    <3> QED BY <3>3, <3>4
  <2> HIDE DEF val, cat
  <2>3. \A c \in CollName : val(c) \in (SUBSET Request) \cup {None}
    BY <2>2
  <2>4. cat[d] \in Maps
    BY <2>1, <2>3 DEF Maps
  <2>5. cat[d] # None
    BY <2>4, NotNone DEF Maps
  <2>6. \A c \in CollName : cat[d][c] = val(c)
    BY <2>1
  <2> QED BY <2>2, <2>4, <2>5, <2>6, NotNone
<1>3. cat \in Catalogue
  <2>1. cat \in [DbName -> Maps \cup {None}]
    <3>1. \A d \in DbName : cat[d] \in Maps \cup {None}
      BY <1>1, <1>2
    <3>2. cat = [d \in DbName |-> cat[d]]
      BY DEF ViewOf
    <3> HIDE DEF cat
    <3> QED BY <3>1, <3>2
  <2> QED BY <2>1 DEF Catalogue, Maps
<1> HIDE DEF cat
<1>4. Sees(cat, D, C, V)
  BY <1>1, <1>2 DEF Sees
<1> QED BY <1>3, <1>4 DEF cat

LEMMA SeesOne ==
    ASSUME NEW D, NEW C, NEW V, NEW a \in Catalogue, NEW b \in Catalogue,
           Sees(a, D, C, V), Sees(b, D, C, V)
    PROVE  a = b
<1>1. ASSUME NEW d \in DbName PROVE a[d] = b[d]
  <2>1. CASE D[d] = None BY <2>1 DEF Sees
  <2>2. CASE D[d] # None
    <3>1. a[d] \in Maps /\ b[d] \in Maps
      BY <2>2 DEF Sees
    <3>2. ASSUME NEW c \in CollName PROVE a[d][c] = b[d][c]
      <4>1. CASE C[<<d, D[d]>>][c] = None BY <2>2, <4>1 DEF Sees
      <4>2. CASE C[<<d, D[d]>>][c] # None BY <2>2, <4>2 DEF Sees
      <4> QED BY <4>1, <4>2
    <3> QED BY <3>1, <3>2 DEF Maps
  <2> QED BY <2>1, <2>2
<1> QED BY <1>1 DEF Catalogue

LEMMA ViewIs ==
    ASSUME Types, Shape
    PROVE  View \in Catalogue /\ Sees(View, databases, collections, vectors)
<1>1. View = ViewOf(databases, collections, vectors)
  BY DEF View, ViewOf
<1>2. databases \in Databases /\ collections \in Collections /\ vectors \in Vectors
  BY DEF Types, Shape, Databases, Collections, Vectors
<1> QED BY <1>1, <1>2, ViewSees

\* What memory holds after a step.
LEMMA ViewAfter ==
    ASSUME Types', Shape', NEW cat \in Catalogue, Sees(cat, databases', collections', vectors')
    PROVE  View' = cat
<1>1. View' = ViewOf(databases', collections', vectors')
  BY DEF View, ViewOf
<1>2. databases' \in Databases /\ collections' \in Collections /\ vectors' \in Vectors
  BY DEF Types, Shape, Databases, Collections, Vectors
<1>3. View' \in Catalogue /\ Sees(View', databases', collections', vectors')
  BY <1>1, <1>2, ViewSees
<1> QED BY <1>3, SeesOne

-----------------------------------------------------------------------------
(* A command that counts as executed.                                      *)

\* The i-th command of the history dropped what r's handler holds.
Dropper(r, i) ==
    \/ DropsDb(lin[i]) /\ dbOf[r] # None /\ Db(lin[i]) = Db(r)
    \/ DropsColl(lin[i]) /\ collOf[r] # None /\ Coll(lin[i]) = Coll(r)

AtEnd(r) ==
    /\ \A j \in 1 .. Len(lin) : ~Dropper(r, j)
    /\ lin' = Append(lin, r) /\ causes' = causes

BeforeDrop(r, i) ==
    /\ Dropper(r, i) /\ \A j \in 1 .. i - 1 : ~Dropper(r, j)
    /\ lin' = InsertAt(lin, i, r) /\ causes' = causes \cup {"stale"}

LEMMA ExecuteCases ==
    ASSUME NEW r \in Request, Execute(r), lin \in Seq(Request)
    PROVE  AtEnd(r) \/ \E i \in 1 .. Len(lin) : BeforeDrop(r, i)
<1> DEFINE n == Len(lin)
           before == {i \in DOMAIN lin : lin[i] \in DroppersOf(r)}
           least == CHOOSE i \in before : \A j \in before : i <= j
<1>1. n \in Nat /\ DOMAIN lin = 1 .. n
  OBVIOUS
<1>2. ASSUME NEW i \in 1 .. n PROVE i \in before <=> Dropper(r, i)
  <2>1. lin[i] \in ToSet(lin)
    BY <1>1 DEF ToSet
  <2>2. lin[i] \in DroppersOf(r) <=> \/ cmd[lin[i]].op = "dropDb" /\ dbOf[r] # None /\ Db(lin[i]) = Db(r)
                                     \/ cmd[lin[i]].op = "dropColl" /\ collOf[r] # None /\ Coll(lin[i]) = Coll(r)
    BY <2>1 DEF DroppersOf
  <2>3. dbOf[r] # None /\ Db(lin[i]) = Db(r) => dbOf[lin[i]] # None
    BY DEF Db
  <2>4. collOf[r] # None /\ Coll(lin[i]) = Coll(r) => collOf[lin[i]] # None
    BY DEF Coll
  <2> QED BY <1>1, <2>2, <2>3, <2>4 DEF Dropper, DropsDb, DropsColl
<1>3. CASE before = {}
  <2>1. lin' = Append(lin, r) /\ causes' = causes
    BY <1>3, Zenon DEF Execute
  <2> QED BY <1>1, <1>2, <1>3, <2>1 DEF AtEnd
<1>4. CASE before # {}
  <2>1. lin' = InsertAt(lin, least, r) /\ causes' = causes \cup {"stale"}
    BY <1>4, Zenon DEF Execute
  <2>2. least \in before /\ \A j \in before : least <= j
    <3>1. before \in SUBSET Nat
      BY <1>1
    <3>2. \E i \in before : \A j \in before : i <= j
      <4> HIDE DEF before
      <4> QED BY <1>4, <3>1, SmallestOf
    <3> HIDE DEF before
    <3> QED BY <3>2
  <2>3. least \in 1 .. n
    BY <1>1, <2>2
  <2> HIDE DEF least
  <2>4. ASSUME NEW j \in 1 .. least - 1 PROVE ~Dropper(r, j)
    <3>1. j \in 1 .. n /\ ~(least <= j)
      BY <1>1, <2>3
    <3> QED BY <1>2, <2>2, <3>1
  <2>5. Dropper(r, least)
    BY <1>2, <2>2, <2>3
  <2>6. BeforeDrop(r, least)
    BY <2>1, <2>4, <2>5 DEF BeforeDrop
  <2> QED BY <2>3, <2>6
<1> QED BY <1>3, <1>4

\* u is s with r put at place i.
Grown(s, u, i, r) ==
    /\ u \in Seq(Request) /\ Len(u) = Len(s) + 1
    /\ i \in 1 .. Len(s) + 1
    /\ u[i] = r
    /\ \A j \in 1 .. i - 1 : u[j] = s[j]
    /\ \A j \in i .. Len(s) : u[j + 1] = s[j]

LEMMA ExecuteGrows ==
    ASSUME NEW r \in Request, lin \in Seq(Request), NEW i \in 1 .. Len(lin) + 1,
           \/ i = Len(lin) + 1 /\ lin' = Append(lin, r)
           \/ i \in 1 .. Len(lin) /\ lin' = InsertAt(lin, i, r)
    PROVE  Grown(lin, lin', i, r)
<1>0. Len(lin) \in Nat
  OBVIOUS
<1>1. CASE i = Len(lin) + 1 /\ lin' = Append(lin, r)
  <2>1. /\ lin' \in Seq(Request) /\ Len(lin') = Len(lin) + 1
        /\ lin'[Len(lin) + 1] = r /\ \A j \in 1 .. Len(lin) : lin'[j] = lin[j]
    BY <1>1
  <2> QED BY <1>0, <1>1, <2>1 DEF Grown
<1>2. CASE i \in 1 .. Len(lin) /\ lin' = InsertAt(lin, i, r)
  <2>1. /\ lin' \in Seq(Request) /\ Len(lin') = Len(lin) + 1
        /\ \A j \in 1 .. Len(lin) + 1 : lin'[j] = IF j < i THEN lin[j] ELSE IF j = i THEN r ELSE lin[j - 1]
    BY <1>2, InsertedAt
  <2>2. lin'[i] = r
    BY <1>0, <2>1
  <2>3. \A j \in 1 .. i - 1 : lin'[j] = lin[j]
    BY <1>0, <2>1
  <2>4. ASSUME NEW j \in i .. Len(lin) PROVE lin'[j + 1] = lin[j]
    <3>1. j + 1 \in 1 .. Len(lin) + 1 /\ ~(j + 1 < i) /\ j + 1 # i /\ (j + 1) - 1 = j
      BY <1>0
    <3> QED BY <2>1, <3>1
  <2> QED BY <2>1, <2>2, <2>3, <2>4 DEF Grown
<1> QED BY <1>1, <1>2

\* Where a command of the longer sequence comes from.
LEMMA GrownFrom ==
    ASSUME NEW s \in Seq(Request), NEW u, NEW i, NEW r, Grown(s, u, i, r), NEW j \in 1 .. Len(u)
    PROVE  \/ j = i /\ u[j] = r
           \/ j < i /\ j \in 1 .. Len(s) /\ u[j] = s[j]
           \/ j > i /\ j - 1 \in 1 .. Len(s) /\ j - 1 >= i /\ u[j] = s[j - 1]
<1>0. Len(s) \in Nat /\ i \in 1 .. Len(s) + 1 /\ j \in 1 .. Len(s) + 1
  BY DEF Grown
<1>1. CASE j = i BY <1>1 DEF Grown
<1>2. CASE j < i BY <1>0, <1>2 DEF Grown
<1>3. CASE j > i
  <2>1. j - 1 \in i .. Len(s) /\ (j - 1) + 1 = j
    BY <1>0, <1>3
  <2> QED BY <1>0, <1>3, <2>1 DEF Grown
<1> QED BY <1>0, <1>1, <1>2, <1>3

LEMMA GrownTo ==
    ASSUME NEW s \in Seq(Request), NEW u, NEW i, NEW r, Grown(s, u, i, r), NEW j \in 1 .. Len(s)
    PROVE  \E k \in 1 .. Len(u) : u[k] = s[j]
<1>0. Len(s) \in Nat /\ i \in 1 .. Len(s) + 1 /\ Len(u) = Len(s) + 1
  BY DEF Grown
<1>1. CASE j < i
  <2>1. j \in 1 .. Len(u) /\ u[j] = s[j]
    BY <1>0, <1>1 DEF Grown
  <2> QED BY <2>1
<1>2. CASE j >= i
  <2>1. j + 1 \in 1 .. Len(u) /\ u[j + 1] = s[j]
    BY <1>0, <1>2 DEF Grown
  <2> QED BY <2>1
<1> QED BY <1>0, <1>1, <1>2

\* What every execution does, whatever the command.
Executes(r, i) ==
    /\ phase = "serving" /\ phase' = phase /\ cmd' = cmd /\ base' = base /\ log' = log
    /\ pc[r] \notin Past /\ pc[r] # "idle" /\ pc' = [pc EXCEPT ![r] = "executed"]
    /\ Grown(lin, lin', i, r)

LEMMA ExecuteShape ==
    ASSUME Types, Shape, Counted, NEW r \in Request, NEW i, Executes(r, i),
           vectors' \in [DbName \X CollName \X Creator -> SUBSET Request]
    PROVE  /\ Shape' /\ Counted'
           /\ \A j \in 1 .. Len(lin) : lin[j] # r
           /\ \A j \in 1 .. Len(log) : log[j] # r
<1>1. \A j \in 1 .. Len(lin) : lin[j] # r
  BY DEF Counted, Executes
<1>2. \A j \in 1 .. Len(log) : log[j] # r
  BY DEF Counted, Executes, Past
<1>3. lin \in Seq(Request) /\ lin' \in Seq(Request) /\ Grown(lin, lin', i, r) /\ Len(lin) \in Nat
      /\ i \in 1 .. Len(lin) + 1
  <2>1. lin \in Seq(Request) /\ Grown(lin, lin', i, r)
    BY DEF Shape, Executes
  <2> QED BY <2>1 DEF Grown
<1>4. ASSUME NEW j \in 1 .. Len(lin'), NEW k \in 1 .. Len(lin'), lin'[j] = lin'[k] PROVE j = k
  <2>1. \A a, b \in 1 .. Len(lin) : lin[a] = lin[b] => a = b
    BY DEF Shape
  <2>2. /\ \/ j = i /\ lin'[j] = r
           \/ j < i /\ j \in 1 .. Len(lin) /\ lin'[j] = lin[j]
           \/ j > i /\ j - 1 \in 1 .. Len(lin) /\ j - 1 >= i /\ lin'[j] = lin[j - 1]
        /\ \/ k = i /\ lin'[k] = r
           \/ k < i /\ k \in 1 .. Len(lin) /\ lin'[k] = lin[k]
           \/ k > i /\ k - 1 \in 1 .. Len(lin) /\ k - 1 >= i /\ lin'[k] = lin[k - 1]
    BY <1>3, GrownFrom
  <2>3. j \in Int /\ k \in Int /\ i \in Int
    BY <1>3
  <2> QED BY <1>1, <1>4, <2>1, <2>2, <2>3
<1>5. Shape'
  BY <1>3, <1>4 DEF Shape, Executes
<1>6. ASSUME NEW j \in 1 .. Len(lin') PROVE pc'[lin'[j]] \in Past
  <2>1. lin'[j] = r \/ \E k \in 1 .. Len(lin) : lin'[j] = lin[k]
    BY <1>3, GrownFrom
  <2>2. CASE lin'[j] = r
    BY <2>2 DEF Types, Executes, Past
  <2>3. CASE \E k \in 1 .. Len(lin) : lin'[j] = lin[k]
    <3>1. PICK k \in 1 .. Len(lin) : lin'[j] = lin[k] BY <2>3
    <3>2. lin[k] \in Request /\ lin[k] # r /\ pc[lin[k]] \in Past
      BY <1>1, <1>3 DEF Counted
    <3> QED BY <3>1, <3>2 DEF Types, Executes
  <2> QED BY <2>1, <2>2, <2>3
<1>7. ASSUME NEW q \in Executed' PROVE \E j \in 1 .. Len(lin') : lin'[j] = q
  <2>1. q \in Request /\ pc'[q] = "executed"
    BY DEF Executed
  <2>2. CASE q = r
    <3>1. i \in 1 .. Len(lin') /\ lin'[i] = r
      BY <1>3 DEF Grown
    <3> QED BY <2>2, <3>1
  <2>3. CASE q # r
    <3>1. q \in Executed
      BY <2>1, <2>3 DEF Types, Executes, Executed
    <3>2. PICK k \in 1 .. Len(lin) : lin[k] = q
      BY <3>1 DEF Counted, Executes
    <3> QED BY <1>3, <3>2, GrownTo
  <2> QED BY <2>2, <2>3
<1>8. \A j \in 1 .. Len(log') : pc'[log'[j]] = "done"
  <2> SUFFICES ASSUME NEW j \in 1 .. Len(log) PROVE pc'[log[j]] = "done"
    BY DEF Executes
  <2>1. log[j] \in Request /\ pc[log[j]] = "done" /\ log[j] # r
    BY <1>2 DEF Shape, Counted
  <2> QED BY <2>1 DEF Types, Executes
<1>9. Counted'
  BY <1>6, <1>7, <1>8 DEF Counted
<1> QED BY <1>1, <1>2, <1>5, <1>9

\* A command at the end of the history, whose effect memory shows.
LEMMA AtEndTraces ==
    ASSUME OInv, NEW r \in Request, Executes(r, Len(lin) + 1), AtEnd(r), Shape', Counted', Types',
           \A q \in Request \ {r} : dbOf'[q] = dbOf[q],
           Fits(View, cmd[r]), View' = Effect(View, cmd[r], r),
           \A j \in 1 .. Len(lin) : DropsDb(lin[j]) =>
               \A c \in CollName : collections'[Db(lin[j])][c] # None <=> collections[Db(lin[j])][c] # None,
           DropsDb(r)' =>
               \A c \in CollName : HasColl(View, cmd[r].db, c) <=> collections'[<<cmd[r].db, dbOf'[r]>>][c] # None
    PROVE  (\E t : LinTrace(t)') /\ LogOK'
<1> DEFINE n == Len(lin)
<1>1. /\ lin \in Seq(Request) /\ n \in Nat /\ cmd[r] \in Command /\ View \in Catalogue
      /\ Types /\ Shape /\ Counted /\ Serving /\ LogOK
  <2>1. lin \in Seq(Request) /\ phase = "serving"
    BY DEF OInv, Shape, Executes
  <2>2. cmd[r] \in Command
    BY DEF OInv, NInv, HandlersOK, Executes
  <2> QED BY <2>1, <2>2, ViewIs DEF OInv, NInv
<1>2. lin' = Append(lin, r) /\ causes' = causes /\ base' = base /\ cmd' = cmd /\ log' = log
      /\ phase = "serving" /\ phase' = "serving"
  BY DEF Executes, AtEnd
<1>3. Len(lin') = n + 1 /\ lin'[n + 1] = r /\ \A j \in 1 .. n : lin'[j] = lin[j]
  BY <1>1, <1>2
<1>4. /\ \A j \in 1 .. n : lin[j] # r
      /\ \A j \in 1 .. Len(log) : log[j] # r
  BY <1>1, ExecuteShape DEF Shape
<1>5. \E t : LinTrace(t)'
  <2>1. PICK t : LinTrace(t)
    BY <1>1 DEF Serving
  <2>2. Trace(cmd, lin, Request, t) /\ t[0] = base /\ t[n] = View /\ \A j \in 1 .. n : Match(t, j)
    BY <2>1 DEF LinTrace
  <2>3. PICK u : /\ Trace(cmd, Append(lin, r), Request, u)
                 /\ \A j \in 0 .. n : u[j] = t[j]
                 /\ u[n + 1] = Effect(t[n], cmd[r], r)
    BY <1>1, <2>2, TraceAppend
  <2>4. u[0] = base' /\ u[Len(lin')] = View' /\ Trace(cmd', lin', Request, u)
    BY <1>1, <1>2, <1>3, <2>2, <2>3
  <2>5. ASSUME NEW j \in 1 .. n + 1 PROVE Match(u, j)'
    <3>1. CASE j = n + 1
      <4>1. u[j - 1] = View
        BY <1>1, <2>2, <2>3, <3>1
      <4> QED BY <1>2, <1>3, <3>1, <4>1 DEF Match, Db, DropsDb
    <3>2. CASE j # n + 1
      <4>1. j \in 1 .. n /\ j - 1 \in 0 .. n
        BY <1>1, <3>2
      <4>2. lin'[j] = lin[j] /\ u[j - 1] = t[j - 1] /\ lin[j] # r /\ lin[j] \in Request
        BY <1>1, <1>3, <1>4, <2>3, <4>1
      <4>3. dbOf'[lin[j]] = dbOf[lin[j]]
        BY <4>2
      <4>4. Match(t, j)
        BY <2>2, <4>1
      <4> HIDE DEF n
      <4>5. \A c \in CollName : DropsDb(lin[j]) => (collections'[Db(lin[j])][c] # None <=> collections[Db(lin[j])][c] # None)
        BY <4>1 DEF n
      <4> QED BY <1>2, <4>2, <4>3, <4>4, <4>5 DEF Match, Db, DropsDb
    <3> QED BY <3>1, <3>2
  <2> HIDE DEF n
  <2>6. LinTrace(u)'
    BY <1>3, <2>4, <2>5 DEF LinTrace
  <2> QED BY <2>6
<1>6. LogOK'
  <2> SUFFICES ASSUME causes' = {} PROVE LogOK'
    BY DEF LogOK
  <2>1. PICK l : LogTrace(l) /\ \E t : RestTrace(l, t)
    BY <1>1, <1>2 DEF LogOK
  <2>2. PICK t : RestTrace(l, t)
    BY <2>1
  <2>3. Trace(cmd, lin, Executed, t) /\ t[0] = l[Len(log)] /\ t[n] = View
    BY <2>2 DEF RestTrace
  <2>4. Executed' = Executed \cup {r}
    BY <1>1 DEF Executed, Executes, Types
  <2>5. \A j \in 1 .. n : lin[j] \in Executed' <=> lin[j] \in Executed
    BY <1>4, <2>4
  <2>6. Trace(cmd, lin, Executed', t)
    BY <2>3, <2>5 DEF Trace
  <2>7. PICK u : /\ Trace(cmd, Append(lin, r), Executed', u)
                 /\ \A j \in 0 .. n : u[j] = t[j]
                 /\ u[n + 1] = Effect(t[n], cmd[r], r)
    <3>1. r \in Executed' \cap Request
      BY <2>4
    <3> QED BY <1>1, <2>3, <2>6, <3>1, TraceAppend
  <2>8. RestTrace(l, u)'
    BY <1>1, <1>2, <1>3, <2>3, <2>7 DEF RestTrace
  <2>9. LogTrace(l)'
    BY <1>2, <2>1 DEF LogTrace
  <2> QED BY <1>2, <2>8, <2>9 DEF LogOK
<1> QED BY <1>5, <1>6

\* A command put before the drop of what its handler holds: nothing in memory
\* shows it, and the drop absorbs it.
LEMMA BeforeDropTraces ==
    ASSUME OInv, NEW r \in Request, NEW i \in 1 .. Len(lin), Executes(r, i), BeforeDrop(r, i),
           Shape', Counted', Types',
           \A q \in Request \ {r} : dbOf'[q] = dbOf[q], View' = View,
           cmd[r].op \in CollOps, cmd[lin[i]].db = cmd[r].db,
           \/ cmd[lin[i]].op = "dropDb"
           \/ /\ cmd[lin[i]].op = "dropColl" /\ cmd[lin[i]].coll = cmd[r].coll
              /\ cmd[r].op \in {"delete"} \cup Inserts,
           \A j \in 1 .. Len(lin) : j # i /\ DropsDb(lin[j]) =>
               \A c \in CollName : collections'[Db(lin[j])][c] # None <=> collections[Db(lin[j])][c] # None,
           NEW t, LinTrace(t), Fits(t[i - 1], cmd[r]),
           DropsDb(lin[i]) =>
               \A c \in CollName : HasColl(Effect(t[i - 1], cmd[r], r), cmd[r].db, c)
                                   <=> collections'[Db(lin[i])][c] # None
    PROVE  (\E u : LinTrace(u)') /\ LogOK'
<1> DEFINE n == Len(lin)
           q == lin[i]
<1>1. /\ lin \in Seq(Request) /\ n \in Nat /\ i \in 1 .. n /\ cmd[r] \in Command /\ q \in Request
      /\ cmd[q] \in Command /\ Types /\ Shape /\ Counted
  <2>1. lin \in Seq(Request)
    BY DEF OInv, Shape
  <2>2. cmd[r] \in Command
    BY DEF OInv, NInv, HandlersOK, Executes
  <2>3. q \in Request /\ pc[q] # "idle"
    BY <2>1 DEF OInv, Counted, Past
  <2> QED BY <2>1, <2>2, <2>3 DEF OInv, NInv, HandlersOK
<1>2. lin' = InsertAt(lin, i, r) /\ causes' = causes \cup {"stale"} /\ base' = base /\ cmd' = cmd
      /\ phase' = "serving"
  BY DEF Executes, BeforeDrop
<1>3. LogOK'
  BY <1>2 DEF LogOK
<1>4. /\ \A j \in 1 .. n : lin[j] # r
      /\ Grown(lin, lin', i, r)
  BY <1>1, ExecuteShape DEF Shape, Executes
<1>5. Trace(cmd, lin, Request, t) /\ t[0] = base /\ t[n] = View /\ \A j \in 1 .. n : Match(t, j)
  BY DEF LinTrace
<1>6. t[i - 1] \in Catalogue /\ Fits(t[i - 1], cmd[q]) /\ t[i] = Effect(t[i - 1], cmd[q], q)
  BY <1>1, <1>5 DEF Trace
<1>7. /\ Fits(Effect(t[i - 1], cmd[r], r), cmd[q])
      /\ Effect(Effect(t[i - 1], cmd[r], r), cmd[q], q) = t[i]
  BY <1>1, <1>6, Absorbed
<1>8. PICK u : TraceWith(cmd, lin, i, r, t, u)
  <2>1. /\ lin \in Seq(Request) /\ cmd[r] \in Command /\ Trace(cmd, lin, Request, t)
        /\ Fits(t[i - 1], cmd[r]) /\ Fits(Effect(t[i - 1], cmd[r], r), cmd[lin[i]])
        /\ Effect(Effect(t[i - 1], cmd[r], r), cmd[lin[i]], lin[i]) = t[i]
    BY <1>1, <1>5, <1>7
  <2> QED BY <2>1, TraceInsert, Zenon
<1>80. /\ Trace(cmd, InsertAt(lin, i, r), Request, u)
       /\ \A j \in 0 .. i - 1 : u[j] = t[j]
       /\ u[i] = Effect(t[i - 1], cmd[r], r)
       /\ \A j \in i .. n : u[j + 1] = t[j]
  BY <1>8 DEF TraceWith
<1>9. Len(lin') = n + 1 /\ Trace(cmd', lin', Request, u)
  BY <1>2, <1>4, <1>80 DEF Grown
<1>10. u[0] = base' /\ u[n + 1] = View'
  BY <1>1, <1>2, <1>5, <1>80
<1> HIDE DEF n
<1>11. ASSUME NEW j \in 1 .. n + 1 PROVE Match(u, j)'
  <2>1. CASE j = i
    <3>1. lin'[j] = r /\ cmd[r].op # "dropDb"
      BY <1>4, <2>1 DEF Grown, CollOps, Inserts
    <3> QED BY <1>2, <3>1 DEF Match, DropsDb
  <2>2. CASE j < i
    <3>1. j \in 1 .. n /\ j - 1 \in 0 .. i - 1 /\ lin'[j] = lin[j]
      BY <1>1, <1>4, <2>2 DEF Grown
    <3>2. u[j - 1] = t[j - 1] /\ lin[j] \in Request \ {r} /\ Match(t, j) /\ j # i
      BY <1>1, <1>4, <1>5, <1>80, <2>2, <3>1 DEF n
    <3>3. dbOf'[lin[j]] = dbOf[lin[j]]
      BY <3>2
    <3>4. \A c \in CollName : DropsDb(lin[j]) => (collections'[Db(lin[j])][c] # None <=> collections[Db(lin[j])][c] # None)
      BY <3>1, <3>2 DEF n
    <3> QED BY <1>2, <3>1, <3>2, <3>3, <3>4 DEF Match, Db, DropsDb
  <2>3. CASE j = i + 1
    <3>1. lin'[j] = q /\ j - 1 = i
      BY <1>1, <1>4, <2>3 DEF Grown, n
    <3>2. q \in Request \ {r}
      BY <1>1, <1>4
    <3>3. dbOf'[q] = dbOf[q]
      BY <3>2
    <3>4. \A c \in CollName : DropsDb(q) => (HasColl(u[i], cmd[q].db, c) <=> collections'[Db(q)][c] # None)
      BY <1>80
    <3> HIDE DEF q
    <3> QED BY <1>2, <3>1, <3>3, <3>4 DEF Match, Db, DropsDb
  <2>4. CASE j > i + 1
    <3>1. j - 1 \in i .. n /\ j - 2 \in i .. n /\ (j - 1) + 1 = j /\ (j - 2) + 1 = j - 1 /\ (j - 1) - 1 = j - 2
          /\ j - 1 \in 1 .. n /\ j - 1 # i
      BY <1>1, <2>4
    <3>2. lin'[j] = lin[j - 1] /\ u[j - 1] = t[j - 2] /\ lin[j - 1] \in Request \ {r} /\ Match(t, j - 1)
      BY <1>1, <1>4, <1>5, <1>80, <3>1 DEF Grown, n
    <3>3. dbOf'[lin[j - 1]] = dbOf[lin[j - 1]]
      BY <3>2
    <3>4. \A c \in CollName : DropsDb(lin[j - 1]) =>
             (collections'[Db(lin[j - 1])][c] # None <=> collections[Db(lin[j - 1])][c] # None)
      BY <3>1 DEF n
    <3> QED BY <1>2, <3>1, <3>2, <3>3, <3>4 DEF Match, Db, DropsDb
  <2> QED BY <1>1, <2>1, <2>2, <2>3, <2>4
<1>12. LinTrace(u)'
  BY <1>9, <1>10, <1>11 DEF LinTrace
<1> QED BY <1>3, <1>12

\* What an execution has to keep, for the handlers' pointers to keep their sense.
LEMMA ExecuteServes ==
    ASSUME OInv, NEW r \in Request, NEW i, Executes(r, i), Shape', Types',
           \A q \in Request \ {r} : dbOf'[q] = dbOf[q] /\ collOf'[q] = collOf[q],
           dbOf'[r] \in Request => pc[dbOf'[r]] \in Past,
           collOf'[r] \in Request => pc[collOf'[r]] \in Past,
           collOf'[r] # None => dbOf'[r] = Place(collOf'[r]),
           \A x \in Request \ {r} : pc[x] \notin Past =>
               \A d \in DbName, c \in CollName : vectors'[<<d, c, x>>] = {},
           \A d \in DbName, c \in CollName, o \in Creator :
               \/ collections'[<<d, o>>][c] \in {None, collections[<<d, o>>][c]}
               \/ collections'[<<d, o>>][c] = r /\ o = dbOf'[r],
           \A x \in Request \ {r} :
               pc[x] \in {"database", "collection"} /\ databases[cmd[x].db] = dbOf[x] =>
                   databases'[cmd[x].db] = dbOf[x] \/ (DropsDb(r)' /\ Db(r)' = Db(x)),
           \A x \in Request \ {r} :
               pc[x] = "collection" /\ collections[Db(x)][cmd[x].coll] = collOf[x] =>
                   \/ collections'[Db(x)][cmd[x].coll] = collOf[x]
                   \/ DropsColl(r)' /\ Coll(r)' = Coll(x),
           \A j \in 1 .. Len(lin) : DropsDb(lin[j]) =>
               databases'[cmd[lin[j]].db] # dbOf[lin[j]] /\ (Db(r)' = Db(lin[j]) => i <= j),
           \A j \in 1 .. Len(lin) : DropsColl(lin[j]) =>
               \A o \in Creator : collections'[<<cmd[lin[j]].db, o>>][cmd[lin[j]].coll] # collOf[lin[j]],
           DropsDb(r)' => databases'[cmd[r].db] # dbOf'[r] /\ i = Len(lin) + 1,
           DropsColl(r)' =>
               \A o \in Creator : collections'[<<cmd[r].db, o>>][cmd[r].coll] # collOf'[r]
    PROVE  Held' /\ Placed' /\ Fresher' /\ Gone'
<1>1. /\ Types /\ Shape /\ Counted /\ Held /\ Placed /\ Fresher /\ Gone /\ Fresh /\ HandlersOK
      /\ lin \in Seq(Request) /\ Grown(lin, lin', i, r) /\ cmd' = cmd
      /\ pc' = [pc EXCEPT ![r] = "executed"] /\ pc[r] \notin Past
  BY DEF OInv, NInv, Serving, Executes, Shape
<1>2. \A x \in Request \ {r} : pc'[x] = pc[x] /\ dbOf'[x] = dbOf[x] /\ collOf'[x] = collOf[x]
  BY <1>1 DEF Types
<1>3. pc'[r] = "executed" /\ "executed" \in Past
  BY <1>1 DEF Types, Past
<1>4. \A x \in Request : pc[x] \in Past => x # r /\ pc'[x] \in Past /\ dbOf'[x] = dbOf[x]
  BY <1>1, <1>2
<1>5. \A k : (k \in Request => pc[k] \in Past) => Place(k)' = Place(k)
  BY <1>4 DEF Place
<1>6. Held'
  <2> SUFFICES ASSUME NEW x \in Request
               PROVE  /\ pc'[x] \in {"idle", "begun"} => dbOf'[x] = None /\ collOf'[x] = None
                      /\ pc'[x] = "database" => collOf'[x] = None /\ cmd[x].op \in CollOps
                      /\ pc'[x] = "collection" =>
                           collOf'[x] \in Creator /\ cmd[x].op \in {"delete"} \cup Inserts
                      /\ dbOf'[x] \in Request => pc'[dbOf'[x]] \in Past
                      /\ collOf'[x] \in Request => pc'[collOf'[x]] \in Past
                      /\ collOf'[x] # None => dbOf'[x] = Place(collOf[x])'
                      /\ pc'[x] \notin Past =>
                           \A d \in DbName, c \in CollName : vectors'[<<d, c, x>>] = {}
    BY <1>1 DEF Held
  <2>1. CASE x = r
    BY <1>3, <1>4, <1>5, <2>1
  <2>2. CASE x # r
    <3>1. x \in Request \ {r}
      BY <2>2
    <3>2. /\ collOf[x] \in Request => pc[collOf[x]] \in Past
          /\ dbOf[x] \in Request => pc[dbOf[x]] \in Past
          /\ collOf[x] # None => dbOf[x] = Place(collOf[x])
      BY <1>1 DEF Held
    <3>3. Place(collOf[x])' = Place(collOf[x])
      <4>1. collOf'[x] = collOf[x]
        BY <1>2, <3>1
      <4>2. Place(collOf[x])' = IF collOf'[x] \in Request THEN dbOf'[collOf'[x]] ELSE Restored
        BY DEF Place
      <4> QED BY <1>4, <3>2, <4>1, <4>2 DEF Place
    <3>4. /\ pc[x] \in {"idle", "begun"} => dbOf[x] = None /\ collOf[x] = None
          /\ pc[x] = "database" => collOf[x] = None /\ cmd[x].op \in CollOps
          /\ pc[x] = "collection" => collOf[x] \in Creator /\ cmd[x].op \in {"delete"} \cup Inserts
      BY <1>1 DEF Held
    <3>5. pc'[x] \notin Past => \A d \in DbName, c \in CollName : vectors'[<<d, c, x>>] = {}
      BY <1>2, <3>1
    <3>6. collOf'[x] # None => dbOf'[x] = Place(collOf[x])'
      BY <1>2, <3>1, <3>2, <3>3
    <3> QED BY <1>2, <1>4, <3>1, <3>2, <3>4, <3>5, <3>6
  <2> QED BY <2>1, <2>2
<1>7. Placed'
  <2> SUFFICES ASSUME NEW d \in DbName, NEW c \in CollName, NEW o \in Creator, NEW k \in Creator,
                      collections'[<<d, o>>][c] = k
               PROVE  o = Place(k)'
    BY DEF Placed
  <2>1. k # None
    BY NoneIsNobody
  <2>2. CASE collections[<<d, o>>][c] = k
    <3>1. k \in Request => pc[k] \in Past
      BY <1>1, <2>2 DEF Fresh
    <3> QED BY <1>1, <1>4, <2>2, <3>1 DEF Placed, Place
  <2>3. CASE k = r /\ o = dbOf'[r]
    BY <2>3 DEF Place
  <2>4. \/ collections'[<<d, o>>][c] \in {None, collections[<<d, o>>][c]}
        \/ collections'[<<d, o>>][c] = r /\ o = dbOf'[r]
    OBVIOUS
  <2> QED BY <2>1, <2>2, <2>3, <2>4
<1>8. \A j \in 1 .. Len(lin) :
        /\ lin[j] \in Request \ {r}
        /\ dbOf'[lin[j]] = dbOf[lin[j]] /\ collOf'[lin[j]] = collOf[lin[j]]
  BY <1>1, <1>2 DEF Counted
<1>9. \A j \in 1 .. Len(lin) :
        /\ (DropsDb(lin[j]) <=> cmd[lin[j]].op = "dropDb" /\ dbOf'[lin[j]] # None)
        /\ (DropsColl(lin[j]) <=> cmd[lin[j]].op = "dropColl" /\ collOf'[lin[j]] # None)
        /\ Db(lin[j]) = <<cmd[lin[j]].db, dbOf'[lin[j]]>>
        /\ Coll(lin[j]) = <<cmd[lin[j]].db, cmd[lin[j]].coll, collOf'[lin[j]]>>
  BY <1>8 DEF DropsDb, DropsColl, Db, Coll
<1>10. i \in 1 .. Len(lin') /\ lin'[i] = r /\ Len(lin') = Len(lin) + 1 /\ Len(lin) \in Nat
  BY <1>1 DEF Grown
<1>11. Fresher'
  <2> SUFFICES ASSUME NEW x \in Request
               PROVE  /\ pc'[x] \in {"database", "collection"} =>
                           \/ databases'[cmd[x].db] = dbOf'[x]
                           \/ \E j \in 1 .. Len(lin') : DropsDb(lin[j])' /\ Db(lin[j])' = Db(x)'
                      /\ pc'[x] = "collection" =>
                           \/ collections'[<<cmd[x].db, dbOf'[x]>>][cmd[x].coll] = collOf'[x]
                           \/ \E j \in 1 .. Len(lin') : DropsColl(lin[j])' /\ Coll(lin[j])' = Coll(x)'
    BY <1>1 DEF Fresher, Db
  <2>1. CASE x = r BY <1>3, <2>1
  <2>2. CASE x # r
    <3>1. /\ pc'[x] = pc[x] /\ dbOf'[x] = dbOf[x] /\ collOf'[x] = collOf[x] /\ x \in Request \ {r}
          /\ Db(x)' = Db(x) /\ Coll(x)' = Coll(x)
      BY <1>1, <1>2, <2>2 DEF Db, Coll
    <3>2. ASSUME pc[x] \in {"database", "collection"}
          PROVE  \/ databases'[cmd[x].db] = dbOf[x]
                 \/ \E j \in 1 .. Len(lin') : DropsDb(lin[j])' /\ Db(lin[j])' = Db(x)
      <4>1. CASE databases[cmd[x].db] = dbOf[x]
        <5>1. databases'[cmd[x].db] = dbOf[x] \/ (DropsDb(r)' /\ Db(r)' = Db(x))
          BY <3>1, <3>2, <4>1
        <5> QED BY <1>10, <5>1 DEF DropsDb, Db
      <4>2. CASE \E j \in 1 .. Len(lin) : DropsDb(lin[j]) /\ Db(lin[j]) = Db(x)
        <5>1. PICK j \in 1 .. Len(lin) : DropsDb(lin[j]) /\ Db(lin[j]) = Db(x)
          BY <4>2
        <5>2. PICK k \in 1 .. Len(lin') : lin'[k] = lin[j]
          BY <1>1, GrownTo
        <5>3. DropsDb(lin[k])' /\ Db(lin[k])' = Db(x)
          BY <1>1, <1>9, <5>1, <5>2 DEF DropsDb, Db
        <5> QED BY <5>3
      <4> QED BY <1>1, <3>2, <4>1, <4>2 DEF Fresher
    <3>3. ASSUME pc[x] = "collection"
          PROVE  \/ collections'[Db(x)][cmd[x].coll] = collOf[x]
                 \/ \E j \in 1 .. Len(lin') : DropsColl(lin[j])' /\ Coll(lin[j])' = Coll(x)
      <4>1. CASE collections[Db(x)][cmd[x].coll] = collOf[x]
        <5>1. collections'[Db(x)][cmd[x].coll] = collOf[x] \/ (DropsColl(r)' /\ Coll(r)' = Coll(x))
          BY <3>1, <3>3, <4>1
        <5> QED BY <1>10, <5>1 DEF DropsColl, Coll
      <4>2. CASE \E j \in 1 .. Len(lin) : DropsColl(lin[j]) /\ Coll(lin[j]) = Coll(x)
        <5>1. PICK j \in 1 .. Len(lin) : DropsColl(lin[j]) /\ Coll(lin[j]) = Coll(x)
          BY <4>2
        <5>2. PICK k \in 1 .. Len(lin') : lin'[k] = lin[j]
          BY <1>1, GrownTo
        <5>3. DropsColl(lin[k])' /\ Coll(lin[k])' = Coll(x)
          BY <1>1, <1>9, <5>1, <5>2 DEF DropsColl, Coll
        <5> QED BY <5>3
      <4> QED BY <1>1, <3>3, <4>1, <4>2 DEF Fresher
    <3>4. <<cmd[x].db, dbOf'[x]>> = Db(x)
      BY <3>1 DEF Db
    <3> QED BY <3>1, <3>2, <3>3, <3>4
  <2> QED BY <2>1, <2>2
<1>12. Gone'
  <2> SUFFICES ASSUME NEW k \in 1 .. Len(lin')
               PROVE  /\ DropsDb(lin[k])' =>
                           /\ databases'[cmd[lin'[k]].db] # dbOf'[lin'[k]]
                           /\ \A j \in 1 .. Len(lin') : Db(lin[j])' = Db(lin[k])' => j <= k
                      /\ DropsColl(lin[k])' =>
                           \A o \in Creator :
                             collections'[<<cmd[lin'[k]].db, o>>][cmd[lin'[k]].coll] # collOf'[lin'[k]]
    BY <1>1 DEF Gone
  <2>1. CASE lin'[k] = r /\ k = i
    <3>1. DropsColl(r)' => \A o \in Creator : collections'[<<cmd[r].db, o>>][cmd[r].coll] # collOf'[r]
      OBVIOUS
    <3>2. DropsDb(r)' => databases'[cmd[r].db] # dbOf'[r] /\ \A j \in 1 .. Len(lin') : j <= i
      BY <1>10
    <3> QED BY <2>1, <3>1, <3>2 DEF DropsColl, DropsDb
  <2>2. ASSUME NEW m \in 1 .. Len(lin), lin'[k] = lin[m], k = IF m < i THEN m ELSE m + 1
        PROVE  /\ DropsDb(lin[k])' =>
                    /\ databases'[cmd[lin'[k]].db] # dbOf'[lin'[k]]
                    /\ \A j \in 1 .. Len(lin') : Db(lin[j])' = Db(lin[k])' => j <= k
               /\ DropsColl(lin[k])' =>
                    \A o \in Creator :
                      collections'[<<cmd[lin'[k]].db, o>>][cmd[lin'[k]].coll] # collOf'[lin'[k]]
    <3>1. DropsColl(lin[k])' =>
              \A o \in Creator : collections'[<<cmd[lin'[k]].db, o>>][cmd[lin'[k]].coll] # collOf'[lin'[k]]
      <4>1. DropsColl(lin[k])' => DropsColl(lin[m])
        BY <1>1, <1>9, <2>2 DEF DropsColl
      <4>2. DropsColl(lin[m]) =>
              \A o \in Creator : collections'[<<cmd[lin[m]].db, o>>][cmd[lin[m]].coll] # collOf[lin[m]]
        OBVIOUS
      <4> QED BY <1>8, <2>2, <4>1, <4>2
    <3>2. ASSUME DropsDb(lin[k])'
          PROVE  /\ databases'[cmd[lin'[k]].db] # dbOf'[lin'[k]]
                 /\ \A j \in 1 .. Len(lin') : Db(lin[j])' = Db(lin[k])' => j <= k
      <4>1. DropsDb(lin[m]) /\ Db(lin[k])' = Db(lin[m])
        BY <1>1, <1>9, <2>2, <3>2 DEF DropsDb, Db
      <4>2. databases'[cmd[lin[m]].db] # dbOf[lin[m]] /\ (Db(r)' = Db(lin[m]) => i <= m)
        BY <4>1
      <4>3. ASSUME NEW j \in 1 .. Len(lin'), Db(lin[j])' = Db(lin[m]) PROVE j <= k
        <5>1. \/ j = i /\ lin'[j] = r
              \/ j < i /\ j \in 1 .. Len(lin) /\ lin'[j] = lin[j]
              \/ j > i /\ j - 1 \in 1 .. Len(lin) /\ j - 1 >= i /\ lin'[j] = lin[j - 1]
          BY <1>1, GrownFrom
        <5>2. CASE j = i /\ lin'[j] = r
          <6>1. Db(r)' = Db(lin[m])
            BY <4>3, <5>2 DEF Db
          <6> QED BY <1>10, <2>2, <4>2, <5>2, <6>1
        <5>3. CASE j < i /\ j \in 1 .. Len(lin) /\ lin'[j] = lin[j]
          <6>1. Db(lin[j]) = Db(lin[m])
            BY <1>1, <1>9, <4>3, <5>3 DEF Db
          <6>2. j <= m
            BY <1>1, <4>1, <5>3, <6>1 DEF Gone
          <6> QED BY <1>10, <2>2, <5>3, <6>2
        <5>4. CASE j > i /\ j - 1 \in 1 .. Len(lin) /\ j - 1 >= i /\ lin'[j] = lin[j - 1]
          <6>1. Db(lin[j - 1]) = Db(lin[m])
            BY <1>1, <1>9, <4>3, <5>4 DEF Db
          <6>2. j - 1 <= m
            BY <1>1, <4>1, <5>4, <6>1 DEF Gone
          <6> QED BY <1>10, <2>2, <5>4, <6>2
        <5> QED BY <5>1, <5>2, <5>3, <5>4
      <4> QED BY <1>8, <2>2, <4>1, <4>2, <4>3
    <3> QED BY <3>1, <3>2
  <2>3. \/ lin'[k] = r /\ k = i
        \/ \E m \in 1 .. Len(lin) : lin'[k] = lin[m] /\ k = IF m < i THEN m ELSE m + 1
    <3>1. \/ k = i /\ lin'[k] = r
          \/ k < i /\ k \in 1 .. Len(lin) /\ lin'[k] = lin[k]
          \/ k > i /\ k - 1 \in 1 .. Len(lin) /\ k - 1 >= i /\ lin'[k] = lin[k - 1]
      BY <1>1, GrownFrom
    <3> QED BY <1>10, <3>1
  <2> QED BY <2>1, <2>2, <2>3
<1> QED BY <1>6, <1>7, <1>11, <1>12

LEMMA ExecutesAtEnd ==
    ASSUME NEW r \in Request, lin \in Seq(Request), AtEnd(r)
    PROVE  Grown(lin, lin', Len(lin) + 1, r)
<1>1. Len(lin) + 1 \in 1 .. Len(lin) + 1 /\ lin' = Append(lin, r)
  BY DEF AtEnd
<1> QED BY <1>1, ExecuteGrows

LEMMA ExecutesBefore ==
    ASSUME NEW r \in Request, lin \in Seq(Request), NEW i \in 1 .. Len(lin), BeforeDrop(r, i)
    PROVE  Grown(lin, lin', i, r)
<1>1. i \in 1 .. Len(lin) + 1 /\ lin' = InsertAt(lin, i, r)
  BY DEF BeforeDrop
<1> QED BY <1>1, ExecuteGrows

\* The commands of the history, and what the handlers at work hold.
LEMMA HistoryCommand ==
    ASSUME OInv, NEW j \in 1 .. Len(lin)
    PROVE  /\ lin[j] \in Request /\ pc[lin[j]] \in Past /\ cmd[lin[j]] \in Command
           /\ cmd[lin[j]].db \in DbName
           /\ DropsColl(lin[j]) => cmd[lin[j]].coll \in CollName
           /\ dbOf[lin[j]] \in Creator \cup {None} /\ collOf[lin[j]] \in Creator \cup {None}
<1>1. lin[j] \in Request /\ pc[lin[j]] \in Past /\ pc[lin[j]] # "idle"
  BY DEF OInv, Shape, Counted, Past
<1>2. cmd[lin[j]] \in Command
  BY <1>1 DEF OInv, NInv, HandlersOK
<1>3. cmd[lin[j]].db \in DbName /\ (DropsColl(lin[j]) => cmd[lin[j]].coll \in CollName)
  BY <1>2, CommandFields DEF DropsColl, CollOps
<1> QED BY <1>1, <1>2, <1>3 DEF OInv, NInv, Types

LEMMA HandlerHolds ==
    ASSUME OInv, phase = "serving", NEW x \in Request, pc[x] \in {"database", "collection"}
    PROVE  /\ cmd[x] \in Command /\ cmd[x].op \in CollOps
           /\ cmd[x].db \in DbName /\ cmd[x].coll \in CollName
           /\ dbOf[x] \in Creator
           /\ dbOf[x] \in Request => pc[dbOf[x]] \in Past
           /\ pc[x] = "database" => collOf[x] = None
           /\ pc[x] = "collection" =>
                /\ cmd[x].op \in {"delete"} \cup Inserts /\ collOf[x] \in Creator
                /\ collOf[x] \in Request => pc[collOf[x]] \in Past
                /\ dbOf[x] = Place(collOf[x])
<1>1. cmd[x] \in Command /\ dbOf[x] \in Creator
  BY DEF OInv, NInv, HandlersOK
<1>2. cmd[x].op \in CollOps
  BY DEF OInv, Serving, Held, CollOps
<1>3. cmd[x].db \in DbName /\ cmd[x].coll \in CollName
  BY <1>1, <1>2, CommandFields
<1> QED BY <1>1, <1>2, <1>3, NoneIsNobody DEF OInv, Serving, Held

LEMMA CreateDatabaseOrder ==
    ASSUME OInv, NInv', NEW r \in Request, CreateDatabase(r), ~Answer(r, "begun") PROVE OInv'
<1> DEFINE d == cmd[r].db
<1>1. /\ cmd[r].op = "createDb" /\ databases[d] = None
      /\ databases' = [databases EXCEPT ![d] = r]
      /\ collections' = [collections EXCEPT ![<<d, r>>] = NoCollections]
      /\ UNCHANGED <<vectors, closed, dbOf, collOf, cmd, phase, base, log>>
      /\ phase = "serving" /\ pc[r] = "begun" /\ pc' = [pc EXCEPT ![r] = "executed"]
      /\ Execute(r)
  BY DEF CreateDatabase, Step, Unchanged
<1>2. /\ Types /\ Shape /\ Counted /\ Held /\ Placed /\ Fresher /\ Gone /\ Fresh
      /\ Types' /\ lin \in Seq(Request)
  BY <1>1 DEF OInv, NInv, Serving, Shape
<1>3. cmd[r] \in Command /\ d \in DbName /\ r \in Creator
  <2>1. cmd[r] \in Command BY <1>1 DEF OInv, NInv, HandlersOK
  <2> QED BY <2>1, CommandFields DEF Creator
<1>4. dbOf[r] = None /\ collOf[r] = None
  BY <1>1, <1>2 DEF Held
<1>5. AtEnd(r)
  <2>1. \A i \in 1 .. Len(lin) : ~Dropper(r, i)
    BY <1>4 DEF Dropper
  <2> QED BY <1>1, <1>2, <2>1, ExecuteCases DEF BeforeDrop
<1>6. Executes(r, Len(lin) + 1)
  BY <1>1, <1>2, <1>5, ExecutesAtEnd DEF Executes, Past
<1>7. /\ \A e \in DbName, o \in Creator, c \in CollName :
           collections'[<<e, o>>][c] = IF e = d /\ o = r THEN None ELSE collections[<<e, o>>][c]
      /\ \A e \in DbName : databases'[e] = IF e = d THEN r ELSE databases[e]
  BY <1>1, <1>2, <1>3 DEF Types, NoCollections
<1>8. \A x \in Request : dbOf[x] # r /\ collOf[x] # r
  BY <1>1, <1>2 DEF Held, Past
<1>9. Shape' /\ Counted'
  BY <1>1, <1>2, <1>6, ExecuteShape DEF Shape
<1>10. Fits(View, cmd[r]) /\ View' = Effect(View, cmd[r], r)
  <2>1. View \in Catalogue /\ Sees(View, databases, collections, vectors)
    BY <1>2, ViewIs
  <2>2. Fits(View, cmd[r])
    BY <1>1, <1>3, <2>1 DEF Fits, HasDb, Sees
  <2> DEFINE new == Effect(View, cmd[r], r)
  <2>3. new \in Catalogue /\ new[d] = NoCollections /\ \A e \in DbName \ {d} : new[e] = View[e]
    <3>1. EffectIs(View, cmd[r], r)
      BY <1>3, <2>1, <2>2, EffectAt
    <3> QED BY <1>1, <3>1 DEF EffectIs
  <2> HIDE DEF new
  <2>4. NoCollections \in Maps /\ NoCollections # None /\ \A c \in CollName : NoCollections[c] = None
    BY NotNone DEF Maps, NoCollections
  <2>5. Sees(new, databases', collections', vectors')
    <3> SUFFICES ASSUME NEW e \in DbName
                 PROVE  /\ databases'[e] = None => new[e] = None
                        /\ databases'[e] # None =>
                             /\ new[e] \in Maps /\ new[e] # None
                             /\ \A c \in CollName :
                                  /\ collections'[<<e, databases'[e]>>][c] = None => new[e][c] = None
                                  /\ collections'[<<e, databases'[e]>>][c] # None =>
                                       /\ new[e][c] = vectors'[<<e, c, collections'[<<e, databases'[e]>>][c]>>]
                                       /\ new[e][c] # None
      BY DEF Sees
    <3>1. CASE e = d
      <4>1. databases'[e] = r /\ r # None /\ \A c \in CollName : collections'[<<e, r>>][c] = None
        BY <1>3, <1>7, <3>1, NoneIsNobody
      <4> QED BY <2>3, <2>4, <3>1, <4>1
    <3>2. CASE e # d
      <4>1. databases'[e] = databases[e] /\ new[e] = View[e] /\ vectors' = vectors
            /\ databases[e] \in Creator \cup {None}
        BY <1>1, <1>2, <1>7, <2>3, <3>2 DEF Types
      <4>2. databases[e] # None =>
              \A c \in CollName : collections'[<<e, databases[e]>>][c] = collections[<<e, databases[e]>>][c]
        BY <1>7, <3>2, <4>1
      <4> QED BY <2>1, <4>1, <4>2 DEF Sees
    <3> QED BY <3>1, <3>2
  <2>6. View' = new
    BY <1>2, <1>9, <2>3, <2>5, ViewAfter
  <2> QED BY <2>2, <2>6 DEF new
<1>11. ASSUME NEW j \in 1 .. Len(lin)
       PROVE  /\ lin[j] \in Request /\ cmd[lin[j]].db \in DbName
              /\ dbOf[lin[j]] \in Creator \cup {None} /\ dbOf[lin[j]] # r /\ collOf[lin[j]] # r
  BY <1>8, HistoryCommand
<1>12. ~DropsDb(r)' /\ ~DropsColl(r)'
  BY <1>1 DEF DropsDb, DropsColl
<1>13. (\E t : LinTrace(t)') /\ LogOK'
  <2>1. \A j \in 1 .. Len(lin) : DropsDb(lin[j]) =>
           \A c \in CollName : collections'[Db(lin[j])][c] # None <=> collections[Db(lin[j])][c] # None
    BY <1>7, <1>11 DEF DropsDb, Db
  <2> QED BY <1>1, <1>2, <1>5, <1>6, <1>9, <1>10, <1>12, <2>1, AtEndTraces
<1>14. Held' /\ Placed' /\ Fresher' /\ Gone'
  <2>1. \A x \in Request \ {r} : pc[x] \notin Past =>
           \A e \in DbName, c \in CollName : vectors'[<<e, c, x>>] = {}
    BY <1>1, <1>2 DEF Held
  <2>2. \A e \in DbName, c \in CollName, o \in Creator :
           collections'[<<e, o>>][c] \in {None, collections[<<e, o>>][c]}
    BY <1>7
  <2>3. \A x \in Request \ {r} :
           pc[x] \in {"database", "collection"} /\ databases[cmd[x].db] = dbOf[x] =>
               databases'[cmd[x].db] = dbOf[x]
    <3> SUFFICES ASSUME NEW x \in Request, pc[x] \in {"database", "collection"},
                        databases[cmd[x].db] = dbOf[x]
                 PROVE  databases'[cmd[x].db] = dbOf[x]
      OBVIOUS
    <3>1. cmd[x].db \in DbName /\ dbOf[x] \in Creator
      BY <1>1, HandlerHolds
    <3>2. cmd[x].db \in DbName /\ cmd[x].db # d
      BY <1>1, <3>1, NoneIsNobody
    <3> QED BY <1>7, <3>2
  <2>4. \A x \in Request \ {r} :
           pc[x] = "collection" /\ collections[Db(x)][cmd[x].coll] = collOf[x] =>
               collections'[Db(x)][cmd[x].coll] = collOf[x]
    <3> SUFFICES ASSUME NEW x \in Request, pc[x] = "collection",
                        collections[Db(x)][cmd[x].coll] = collOf[x]
                 PROVE  collections'[Db(x)][cmd[x].coll] = collOf[x]
      OBVIOUS
    <3>1. dbOf[x] \in Creator /\ dbOf[x] # r /\ cmd[x].db \in DbName /\ cmd[x].coll \in CollName
      BY <1>1, <1>8, HandlerHolds
    <3> QED BY <1>7, <3>1 DEF Db
  <2>5. \A j \in 1 .. Len(lin) : DropsDb(lin[j]) =>
           databases'[cmd[lin[j]].db] # dbOf[lin[j]] /\ (Db(r)' = Db(lin[j]) => Len(lin) + 1 <= j)
    BY <1>1, <1>2, <1>4, <1>7, <1>11 DEF Gone, DropsDb, Db
  <2>6. \A j \in 1 .. Len(lin) : DropsColl(lin[j]) =>
           \A o \in Creator : collections'[<<cmd[lin[j]].db, o>>][cmd[lin[j]].coll] # collOf[lin[j]]
    <3> SUFFICES ASSUME NEW j \in 1 .. Len(lin), DropsColl(lin[j]), NEW o \in Creator
                 PROVE  collections'[<<cmd[lin[j]].db, o>>][cmd[lin[j]].coll] # collOf[lin[j]]
      OBVIOUS
    <3>1. cmd[lin[j]].coll \in CollName
      BY HistoryCommand
    <3>2. collections[<<cmd[lin[j]].db, o>>][cmd[lin[j]].coll] # collOf[lin[j]] /\ collOf[lin[j]] # None
      BY <1>2 DEF Gone, DropsColl
    <3> QED BY <1>7, <1>11, <3>1, <3>2
  <2>7. dbOf' = dbOf /\ collOf' = collOf
    BY <1>1
  <2> QED BY <1>2, <1>4, <1>6, <1>9, <1>12, <2>1, <2>2, <2>3, <2>4, <2>5, <2>6, <2>7, ExecuteServes,
             RequestAssumption
<1> QED BY <1>9, <1>13, <1>14 DEF OInv, Serving

LEMMA DropDatabaseOrder ==
    ASSUME OInv, NInv', NEW r \in Request, DropDatabase(r), ~Answer(r, "begun") PROVE OInv'
<1> DEFINE d == cmd[r].db
           o == databases[d]
<1>1. /\ cmd[r].op = "dropDb" /\ o # None
      /\ databases' = [databases EXCEPT ![d] = None]
      /\ vectors' = [k \in DOMAIN vectors |-> IF k \in CollectionsOf(<<d, o>>) THEN {} ELSE vectors[k]]
      /\ dbOf' = [dbOf EXCEPT ![r] = o]
      /\ UNCHANGED <<collections, collOf, cmd, phase, base, log>>
      /\ phase = "serving" /\ pc[r] = "begun" /\ pc' = [pc EXCEPT ![r] = "executed"]
      /\ Execute(r)
  BY DEF DropDatabase, Step, Unchanged, Close
<1>2. /\ Types /\ Shape /\ Counted /\ Held /\ Placed /\ Fresher /\ Gone /\ Fresh
      /\ Types' /\ lin \in Seq(Request)
  BY <1>1 DEF OInv, NInv, Serving, Shape
<1>3. cmd[r] \in Command /\ d \in DbName /\ o \in Creator /\ o # r
  <2>1. cmd[r] \in Command BY <1>1 DEF OInv, NInv, HandlersOK
  <2>2. d \in DbName BY <2>1, CommandFields
  <2> QED BY <1>1, <1>2, <2>1, <2>2 DEF Types, Fresh, Past
<1> HIDE DEF o
<1>4. dbOf[r] = None /\ collOf[r] = None
  BY <1>1, <1>2 DEF Held
<1>5. AtEnd(r)
  <2>1. \A i \in 1 .. Len(lin) : ~Dropper(r, i)
    BY <1>4 DEF Dropper
  <2> QED BY <1>1, <1>2, <2>1, ExecuteCases DEF BeforeDrop
<1>6. Executes(r, Len(lin) + 1)
  BY <1>1, <1>2, <1>5, ExecutesAtEnd DEF Executes, Past
<1>7. /\ \A e \in DbName : databases'[e] = IF e = d THEN None ELSE databases[e]
      /\ dbOf'[r] = o /\ \A x \in Request \ {r} : dbOf'[x] = dbOf[x]
  BY <1>1, <1>2, <1>3 DEF Types
<1>8. /\ vectors' \in [DbName \X CollName \X Creator -> SUBSET Request]
      /\ \A e \in DbName, c \in CollName, k \in Creator :
           e # d => vectors'[<<e, c, k>>] = vectors[<<e, c, k>>]
      /\ \A e \in DbName, c \in CollName, k \in Creator :
           vectors[<<e, c, k>>] = {} => vectors'[<<e, c, k>>] = {}
  <2>1. DOMAIN vectors = DbName \X CollName \X Creator
    BY <1>2 DEF Shape
  <2>2. \A e \in DbName, c \in CollName, k \in Creator :
           vectors'[<<e, c, k>>] = IF <<e, c, k>> \in CollectionsOf(<<d, o>>) THEN {} ELSE vectors[<<e, c, k>>]
    BY <1>1, <2>1
  <2>3. \A e \in DbName, c \in CollName, k \in Creator : <<e, c, k>> \in CollectionsOf(<<d, o>>) => e = d
    BY DEF CollectionsOf
  <2>4. vectors' \in [DbName \X CollName \X Creator -> SUBSET Request]
    BY <1>1, <1>2, <2>1 DEF Shape
  <2> QED BY <2>2, <2>3, <2>4
<1>9. Shape' /\ Counted'
  BY <1>2, <1>6, <1>8, ExecuteShape
<1>10. View \in Catalogue /\ Sees(View, databases, collections, vectors) /\ databases[d] = o
  BY <1>2, ViewIs DEF o
<1>11. Fits(View, cmd[r])
  BY <1>1, <1>3, <1>10 DEF Fits, HasDb, Sees
<1>12. View' = Effect(View, cmd[r], r)
  <2> DEFINE new == Effect(View, cmd[r], r)
  <2>1. new \in Catalogue /\ new[d] = None /\ \A e \in DbName \ {d} : new[e] = View[e]
    <3>1. EffectIs(View, cmd[r], r)
      BY <1>3, <1>10, <1>11, EffectAt
    <3> QED BY <1>1, <3>1 DEF EffectIs
  <2> HIDE DEF new
  <2>2. Sees(new, databases', collections', vectors')
    <3> SUFFICES ASSUME NEW e \in DbName
                 PROVE  /\ databases'[e] = None => new[e] = None
                        /\ databases'[e] # None =>
                             /\ new[e] \in Maps /\ new[e] # None
                             /\ \A c \in CollName :
                                  /\ collections'[<<e, databases'[e]>>][c] = None => new[e][c] = None
                                  /\ collections'[<<e, databases'[e]>>][c] # None =>
                                       /\ new[e][c] = vectors'[<<e, c, collections'[<<e, databases'[e]>>][c]>>]
                                       /\ new[e][c] # None
      BY DEF Sees
    <3>1. CASE e = d
      BY <1>3, <1>7, <2>1, <3>1
    <3>2. CASE e # d
      <4>1. databases'[e] = databases[e] /\ new[e] = View[e] /\ collections' = collections
        BY <1>1, <1>7, <2>1, <3>2
      <4>2. ASSUME NEW c \in CollName, databases[e] # None, collections[<<e, databases[e]>>][c] # None
            PROVE  vectors'[<<e, c, collections[<<e, databases[e]>>][c]>>]
                     = vectors[<<e, c, collections[<<e, databases[e]>>][c]>>]
        <5>1. databases[e] \in Creator /\ collections[<<e, databases[e]>>][c] \in Creator
          BY <1>2, <4>2 DEF Types
        <5> QED BY <1>8, <3>2, <5>1
      <4> QED BY <1>10, <4>1, <4>2 DEF Sees
    <3> QED BY <3>1, <3>2
  <2>3. View' = new
    BY <1>2, <1>9, <2>1, <2>2, ViewAfter
  <2> QED BY <2>3 DEF new
<1>13. (\E t : LinTrace(t)') /\ LogOK'
  <2>1. \A j \in 1 .. Len(lin) : DropsDb(lin[j]) =>
           \A c \in CollName : collections'[Db(lin[j])][c] # None <=> collections[Db(lin[j])][c] # None
    BY <1>1
  <2>2. \A c \in CollName : HasColl(View, d, c) <=> collections'[<<d, dbOf'[r]>>][c] # None
    <3>1. databases[d] # None /\ collections' = collections
      BY <1>1, <1>10
    <3>2. <<d, dbOf'[r]>> = <<d, databases[d]>>
      BY <1>7, <1>10
    <3>3. View[d] # None /\ \A c \in CollName : View[d][c] # None <=> collections[<<d, databases[d]>>][c] # None
      BY <1>3, <1>10, <3>1 DEF Sees
    <3> QED BY <3>1, <3>2, <3>3 DEF HasColl, HasDb
  <2> QED BY <1>2, <1>5, <1>6, <1>7, <1>9, <1>11, <1>12, <2>1, <2>2, AtEndTraces
<1>14. Held' /\ Placed' /\ Fresher' /\ Gone'
  <2>1. \A x \in Request \ {r} : pc[x] \notin Past =>
           \A e \in DbName, c \in CollName : vectors'[<<e, c, x>>] = {}
    BY <1>2, <1>8 DEF Held, Creator
  <2>2. \A e \in DbName, c \in CollName, p \in Creator :
           collections'[<<e, p>>][c] \in {None, collections[<<e, p>>][c]}
    BY <1>1
  <2>3. \A x \in Request \ {r} :
           pc[x] \in {"database", "collection"} /\ databases[cmd[x].db] = dbOf[x] =>
               databases'[cmd[x].db] = dbOf[x] \/ (DropsDb(r)' /\ Db(r)' = Db(x))
    <3> SUFFICES ASSUME NEW x \in Request, pc[x] \in {"database", "collection"},
                        databases[cmd[x].db] = dbOf[x]
                 PROVE  databases'[cmd[x].db] = dbOf[x] \/ (DropsDb(r)' /\ Db(r)' = Db(x))
      OBVIOUS
    <3>1. cmd[x].db \in DbName
      BY <1>1, HandlerHolds
    <3>2. CASE cmd[x].db = d
      BY <1>1, <1>7, <3>2 DEF DropsDb, Db, o
    <3>3. CASE cmd[x].db # d
      BY <1>7, <3>1, <3>3
    <3> QED BY <3>2, <3>3
  <2>4. \A x \in Request \ {r} :
           pc[x] = "collection" /\ collections[Db(x)][cmd[x].coll] = collOf[x] =>
               collections'[Db(x)][cmd[x].coll] = collOf[x]
    BY <1>1
  <2>5. \A j \in 1 .. Len(lin) : DropsDb(lin[j]) =>
           databases'[cmd[lin[j]].db] # dbOf[lin[j]] /\ (Db(r)' = Db(lin[j]) => Len(lin) + 1 <= j)
    <3> SUFFICES ASSUME NEW j \in 1 .. Len(lin), DropsDb(lin[j])
                 PROVE  databases'[cmd[lin[j]].db] # dbOf[lin[j]] /\ Db(r)' # Db(lin[j])
      OBVIOUS
    <3>1. cmd[lin[j]].db \in DbName /\ databases[cmd[lin[j]].db] # dbOf[lin[j]] /\ dbOf[lin[j]] # None
      BY <1>2, HistoryCommand DEF Gone, DropsDb
    <3> QED BY <1>1, <1>7, <3>1 DEF Db, o
  <2>6. \A j \in 1 .. Len(lin) : DropsColl(lin[j]) =>
           \A p \in Creator : collections'[<<cmd[lin[j]].db, p>>][cmd[lin[j]].coll] # collOf[lin[j]]
    BY <1>1, <1>2 DEF Gone
  <2>7. dbOf'[r] \in Request => pc[dbOf'[r]] \in Past
    <3>1. o \in Request => pc[o] \in Past
      <4>1. \A x \in Request : pc[x] \notin Past => databases[d] # x
        BY <1>2, <1>3 DEF Fresh
      <4> QED BY <4>1, <1>10
    <3> QED BY <1>7, <3>1
  <2>8. ~DropsColl(r)' /\ collOf'[r] = None /\ collOf' = collOf /\ databases'[cmd[r].db] # dbOf'[r]
    BY <1>1, <1>3, <1>4, <1>7 DEF DropsColl
  <2> QED BY <1>6, <1>2, <1>7, <1>9, <2>1, <2>2, <2>3, <2>4, <2>5, <2>6, <2>7, <2>8, ExecuteServes,
             RequestAssumption
<1> QED BY <1>1, <1>9, <1>13, <1>14 DEF OInv, Serving

\* A command on collections, of a handler whose database has its name.
LEMMA CollectionTraces ==
    ASSUME OInv, NEW r \in Request, pc[r] \in {"database", "collection"}, phase = "serving",
           AtEnd(r), Executes(r, Len(lin) + 1), Shape', Counted', Types',
           databases' = databases, dbOf' = dbOf,
           collections[Db(r)][cmd[r].coll] = None <=> cmd[r].op = "createColl",
           pc[r] = "collection" => collections[Db(r)][cmd[r].coll] = collOf[r],
           \A e \in DbName, o \in Creator, x \in CollName :
               <<e, o>> # Db(r) \/ x # cmd[r].coll => collections'[<<e, o>>][x] = collections[<<e, o>>][x],
           cmd[r].op = "dropColl" <=> collections'[Db(r)][cmd[r].coll] = None,
           \A e \in DbName, x \in CollName, k \in Creator :
               (e # cmd[r].db \/ x # cmd[r].coll \/ k # collections'[Db(r)][cmd[r].coll])
               /\ (\E o \in Creator : collections'[<<e, o>>][x] = k) =>
                   vectors'[<<e, x, k>>] = vectors[<<e, x, k>>],
           cmd[r].op # "dropColl" =>
               vectors'[<<cmd[r].db, cmd[r].coll, collections'[Db(r)][cmd[r].coll]>>] =
                   Change(cmd[r], r, vectors[<<cmd[r].db, cmd[r].coll, collections[Db(r)][cmd[r].coll]>>])
    PROVE  (\E t : LinTrace(t)') /\ LogOK'
<1> DEFINE d == cmd[r].db
           c == cmd[r].coll
           o == dbOf[r]
           new == Effect(View, cmd[r], r)
<1>1. /\ cmd[r] \in Command /\ cmd[r].op \in CollOps /\ d \in DbName /\ c \in CollName /\ o \in Creator
      /\ Db(r) = <<d, o>>
  BY HandlerHolds DEF Db
<1>2. Types /\ Shape /\ Fresher
  BY DEF OInv, NInv, Serving
<1>3. databases[d] = o /\ o # None
  <2>1. ~ \E j \in 1 .. Len(lin) : DropsDb(lin[j]) /\ Db(lin[j]) = Db(r)
    BY <1>1, NoneIsNobody DEF AtEnd, Dropper
  <2> QED BY <1>1, <1>2, <2>1, NoneIsNobody DEF Fresher
<1>4. View \in Catalogue /\ Sees(View, databases, collections, vectors)
  BY <1>2, ViewIs
<1>5. /\ View[d] \in Maps /\ View[d] # None
      /\ \A x \in CollName :
           /\ collections[<<d, o>>][x] = None => View[d][x] = None
           /\ collections[<<d, o>>][x] # None =>
                View[d][x] = vectors[<<d, x, collections[<<d, o>>][x]>>] /\ View[d][x] # None
  BY <1>1, <1>3, <1>4 DEF Sees
<1>6. Fits(View, cmd[r])
  <2>1. View[d][c] = None <=> cmd[r].op = "createColl"
    BY <1>1, <1>5
  <2> QED BY <1>1, <1>5, <2>1 DEF Fits, HasColl, HasDb, CollOps
<1>7. EffectIs(View, cmd[r], r)
  BY <1>1, <1>4, <1>6, EffectAt
<1>8. /\ new \in Catalogue /\ \A e \in DbName \ {d} : new[e] = View[e]
      /\ new[d] \in Maps /\ new[d] = [View[d] EXCEPT ![c] = Change(cmd[r], r, View[d][c])]
  BY <1>1, <1>7 DEF EffectIs, Maps
<1>9. new[d][c] = Change(cmd[r], r, View[d][c]) /\ \A x \in CollName \ {c} : new[d][x] = View[d][x]
  BY <1>1, <1>5, <1>8 DEF Maps
<1>10. new[d][c] = None <=> cmd[r].op = "dropColl"
  <2>1. CASE cmd[r].op = "dropColl"
    BY <1>9, <2>1, Zenon DEF Change
  <2>2. CASE cmd[r].op # "dropColl"
    <3>1. cmd[r].op \in Inserts => View[d][c] \in SUBSET Request
      BY <1>1, <1>7 DEF EffectIs, Inserts
    <3>2. Change(cmd[r], r, View[d][c]) \in SUBSET Request
      <4>1. CASE cmd[r].op \in Inserts BY <2>2, <3>1, <4>1 DEF Change
      <4>2. CASE cmd[r].op \notin Inserts BY <2>2, <4>2 DEF Change
      <4> QED BY <4>1, <4>2
    <3> QED BY <1>9, <2>2, <3>2, NotNone
  <2> QED BY <2>1, <2>2
<1>11. cmd[r].op # "dropColl" =>
         new[d][c] = vectors'[<<d, c, collections'[<<d, o>>][c]>>]
  <2> SUFFICES ASSUME cmd[r].op # "dropColl" PROVE new[d][c] = vectors'[<<d, c, collections'[<<d, o>>][c]>>]
    OBVIOUS
  <2>1. vectors'[<<d, c, collections'[<<d, o>>][c]>>] =
           Change(cmd[r], r, vectors[<<d, c, collections[<<d, o>>][c]>>])
    BY <1>1
  <2>2. CASE cmd[r].op = "createColl"
    BY <1>9, <2>1, <2>2 DEF Change, Inserts
  <2>3. CASE cmd[r].op # "createColl"
    <3>1. View[d][c] = vectors[<<d, c, collections[<<d, o>>][c]>>]
      BY <1>1, <1>5, <2>3
    <3> QED BY <1>9, <2>1, <3>1
  <2> QED BY <2>2, <2>3
<1>12. Sees(new, databases', collections', vectors')
  <2> SUFFICES ASSUME NEW e \in DbName
               PROVE  /\ databases[e] = None => new[e] = None
                      /\ databases[e] # None =>
                           /\ new[e] \in Maps /\ new[e] # None
                           /\ \A x \in CollName :
                                /\ collections'[<<e, databases[e]>>][x] = None => new[e][x] = None
                                /\ collections'[<<e, databases[e]>>][x] # None =>
                                     /\ new[e][x] = vectors'[<<e, x, collections'[<<e, databases[e]>>][x]>>]
                                     /\ new[e][x] # None
    BY DEF Sees
  <2> HIDE DEF d, c, o, new
  <2>1. ASSUME NEW x \in CollName, databases[e] # None, e # d \/ x # c
        PROVE  /\ collections'[<<e, databases[e]>>][x] = collections[<<e, databases[e]>>][x]
               /\ collections'[<<e, databases[e]>>][x] # None =>
                    vectors'[<<e, x, collections'[<<e, databases[e]>>][x]>>]
                      = vectors[<<e, x, collections[<<e, databases[e]>>][x]>>]
    <3>1. databases[e] \in Creator
      BY <1>2, <2>1 DEF Types
    <3>2. collections'[<<e, databases[e]>>][x] = collections[<<e, databases[e]>>][x]
      BY <1>1, <2>1, <3>1 DEF c
    <3>3. collections[<<e, databases[e]>>][x] \in Creator \cup {None}
      BY <1>2, <3>1 DEF Types
    <3>4. ASSUME NEW k \in Creator, collections'[<<e, databases[e]>>][x] = k
          PROVE  vectors'[<<e, x, k>>] = vectors[<<e, x, k>>]
      BY <2>1, <3>1, <3>4 DEF d, c
    <3> QED BY <3>2, <3>3, <3>4
  <2>2. CASE e = d
    <3>1. new[e] \in Maps /\ new[e] # None
      BY <1>8, <2>2, NotNone DEF Maps
    <3>2. ASSUME NEW x \in CollName
          PROVE  /\ collections'[<<e, o>>][x] = None => new[e][x] = None
                 /\ collections'[<<e, o>>][x] # None =>
                      new[e][x] = vectors'[<<e, x, collections'[<<e, o>>][x]>>] /\ new[e][x] # None
      <4>1. CASE x = c
        <5>1. collections'[<<d, o>>][c] = None <=> cmd[r].op = "dropColl"
          BY <1>1 DEF c
        <5> QED BY <1>10, <1>11, <2>2, <4>1, <5>1
      <4>2. CASE x # c
        <5>1. /\ collections'[<<e, o>>][x] = collections[<<e, o>>][x]
              /\ collections'[<<e, o>>][x] # None =>
                   vectors'[<<e, x, collections'[<<e, o>>][x]>>] = vectors[<<e, x, collections[<<e, o>>][x]>>]
          BY <1>3, <2>1, <2>2, <4>2
        <5> QED BY <1>5, <1>9, <2>2, <4>2, <5>1
      <4> QED BY <4>1, <4>2
    <3> QED BY <1>3, <2>2, <3>1, <3>2
  <2>3. CASE e # d
    <3>1. new[e] = View[e]
      BY <1>8, <2>3
    <3>2. CASE databases[e] = None
      BY <1>4, <3>1, <3>2 DEF Sees
    <3>3. CASE databases[e] # None
      <4>1. /\ View[e] \in Maps /\ View[e] # None
            /\ \A x \in CollName :
                 /\ collections[<<e, databases[e]>>][x] = None => View[e][x] = None
                 /\ collections[<<e, databases[e]>>][x] # None =>
                      /\ View[e][x] = vectors[<<e, x, collections[<<e, databases[e]>>][x]>>]
                      /\ View[e][x] # None
        BY <1>4, <3>3 DEF Sees
      <4> QED BY <2>1, <2>3, <3>1, <3>3, <4>1
    <3> QED BY <3>2, <3>3
  <2> QED BY <2>2, <2>3
<1>13. View' = new
  BY <1>8, <1>12, ViewAfter
<1>14. \A j \in 1 .. Len(lin) : DropsDb(lin[j]) =>
          \A x \in CollName : collections'[Db(lin[j])][x] # None <=> collections[Db(lin[j])][x] # None
  <2> SUFFICES ASSUME NEW j \in 1 .. Len(lin), DropsDb(lin[j]), NEW x \in CollName
               PROVE  collections'[Db(lin[j])][x] = collections[Db(lin[j])][x]
    OBVIOUS
  <2>1. Db(lin[j]) # Db(r)
    BY <1>1, NoneIsNobody DEF AtEnd, Dropper
  <2>2. cmd[lin[j]].db \in DbName /\ dbOf[lin[j]] \in Creator
    BY HistoryCommand DEF DropsDb
  <2> QED BY <2>1, <2>2 DEF Db
<1>15. ~DropsDb(r)'
  BY <1>1 DEF DropsDb, CollOps, Inserts, Executes
<1> QED BY <1>6, <1>13, <1>14, <1>15, AtEndTraces

\* The collections there are after a command on collections.
LEMMA EffectHas ==
    ASSUME NEW cat \in Catalogue, NEW r \in Request, NEW m \in Command, Fits(cat, m), m.op \in CollOps,
           NEW x \in CollName
    PROVE  HasColl(Effect(cat, m, r), m.db, x) <=>
               IF x = m.coll THEN m.op # "dropColl" ELSE HasColl(cat, m.db, x)
<1> DEFINE new == Effect(cat, m, r)
           d == m.db
<1>1. EffectIs(cat, m, r) /\ d \in DbName /\ m.coll \in CollName
  BY EffectAt, CommandFields
<1>2. /\ cat[d] \in Maps /\ new[d] \in Maps /\ new[d] = [cat[d] EXCEPT ![m.coll] = Change(m, r, cat[d][m.coll])]
      /\ m.op \in Inserts => cat[d][m.coll] \in SUBSET Request
  BY <1>1 DEF EffectIs, Maps, Inserts
<1>3. cat[d] # None /\ new[d] # None
  BY <1>2, NotNone DEF Maps
<1> HIDE DEF new
<1>4. CASE x # m.coll
  BY <1>1, <1>2, <1>3, <1>4 DEF HasColl, HasDb, Maps, new
<1>5. CASE x = m.coll
  <2>1. new[d][x] = Change(m, r, cat[d][x])
    BY <1>1, <1>2, <1>5 DEF Maps
  <2>2. CASE m.op = "dropColl"
    <3>1. Change(m, r, cat[d][x]) = None
      BY <2>2, Zenon DEF Change
    <3> QED BY <1>5, <2>1, <2>2, <3>1 DEF HasColl, new
  <2>3. CASE m.op # "dropColl"
    <3>1. Change(m, r, cat[d][x]) \in SUBSET Request
      <4>1. CASE m.op \in Inserts BY <1>2, <1>5, <2>3, <4>1 DEF Change
      <4>2. CASE m.op \notin Inserts BY <2>3, <4>2 DEF Change
      <4> QED BY <4>1, <4>2
    <3>2. new[d][x] # None
      BY <2>1, <3>1, NotNone
    <3> QED BY <1>3, <1>5, <2>3, <3>2 DEF HasColl, HasDb, new
  <2> QED BY <2>2, <2>3
<1> QED BY <1>4, <1>5

\* What a command on collections changes: the place of its name in the database
\* that its handler holds, and the vectors of K, which is or was at that place.
Touches(r, K) ==
    /\ pc[r] = "database" =>
         /\ K = collections[Db(r)][cmd[r].coll]
         /\ collections[Db(r)][cmd[r].coll] = None <=> cmd[r].op = "createColl"
         /\ cmd[r].op \in {"createColl", "dropColl"}
         /\ collections'[Db(r)][cmd[r].coll] = None <=> cmd[r].op = "dropColl"
    /\ pc[r] = "collection" => K = collOf[r] /\ collections' = collections
    /\ \A e \in DbName, o \in Creator, x \in CollName :
         <<e, o>> # Db(r) \/ x # cmd[r].coll => collections'[<<e, o>>][x] = collections[<<e, o>>][x]
    /\ \A e \in DbName, x \in CollName, k \in Creator :
         e # cmd[r].db \/ x # cmd[r].coll \/ k # K => vectors'[<<e, x, k>>] = vectors[<<e, x, k>>]

\* Such a command, of a handler that holds a dropped object.
LEMMA DroppedTraces ==
    ASSUME OInv, NEW r \in Request, pc[r] \in {"database", "collection"}, phase = "serving",
           NEW i \in 1 .. Len(lin), BeforeDrop(r, i), Executes(r, i), Shape', Counted', Types',
           databases' = databases, dbOf' = dbOf, NEW K,
           Touches(r, K)
    PROVE  (\E u : LinTrace(u)') /\ LogOK'
<1> DEFINE d == cmd[r].db
           c == cmd[r].coll
           o == dbOf[r]
           q == lin[i]
<1>0. /\ pc[r] = "database" =>
           /\ K = collections[Db(r)][cmd[r].coll]
           /\ collections[Db(r)][cmd[r].coll] = None <=> cmd[r].op = "createColl"
           /\ cmd[r].op \in {"createColl", "dropColl"}
           /\ collections'[Db(r)][cmd[r].coll] = None <=> cmd[r].op = "dropColl"
      /\ pc[r] = "collection" => K = collOf[r] /\ collections' = collections
      /\ \A e \in DbName, p \in Creator, x \in CollName :
           <<e, p>> # Db(r) \/ x # cmd[r].coll => collections'[<<e, p>>][x] = collections[<<e, p>>][x]
      /\ \A e \in DbName, x \in CollName, k \in Creator :
           e # cmd[r].db \/ x # cmd[r].coll \/ k # K => vectors'[<<e, x, k>>] = vectors[<<e, x, k>>]
  BY DEF Touches
<1>1. /\ cmd[r] \in Command /\ cmd[r].op \in CollOps /\ d \in DbName /\ c \in CollName /\ o \in Creator
      /\ Db(r) = <<d, o>>
      /\ pc[r] = "database" => collOf[r] = None
      /\ pc[r] = "collection" => /\ cmd[r].op \in {"delete"} \cup Inserts /\ collOf[r] \in Creator
                                 /\ o = Place(collOf[r])
  BY HandlerHolds DEF Db
<1>2. /\ Types /\ Shape /\ Fresher /\ Gone /\ Placed /\ OnePlace /\ Held /\ lin \in Seq(Request)
      /\ Len(lin) \in Nat
  <2>1. Types /\ Shape /\ Fresher /\ Gone /\ Placed /\ OnePlace /\ Held
    BY DEF OInv, NInv, Serving
  <2> QED BY <2>1 DEF Shape
<1>3. q \in Request /\ cmd[q] \in Command
  BY HistoryCommand
<1>4. \/ DropsDb(q) /\ Db(q) = Db(r)
      \/ DropsColl(q) /\ Coll(q) = Coll(r) /\ pc[r] = "collection"
  BY <1>1 DEF BeforeDrop, Dropper
<1>5. cmd[q].db = d
  BY <1>4 DEF Db, Coll
<1>6. \/ cmd[q].op = "dropDb"
      \/ cmd[q].op = "dropColl" /\ cmd[q].coll = c /\ cmd[r].op \in {"delete"} \cup Inserts
  BY <1>1, <1>4 DEF DropsDb, DropsColl, Coll
<1>7. \A p \in Creator : databases[d] = p => collections[<<d, p>>][c] # K \/ K = None
  <2> SUFFICES ASSUME NEW p \in Creator, databases[d] = p, collections[<<d, p>>][c] = K, K # None
               PROVE  FALSE
    OBVIOUS
  <2>1. K \in Creator
    BY <1>1, <1>2 DEF Types
  <2>2. CASE DropsDb(q) /\ Db(q) = Db(r)
    <3>1. databases[d] # o
      BY <1>2, <1>5, <2>2 DEF Gone, Db
    <3>2. CASE pc[r] = "collection"
      <4>1. p = Place(K)
        <5>1. d \in DbName /\ c \in CollName /\ collections[<<d, p>>][c] = K
          BY <1>1
        <5> HIDE DEF d, c
        <5> QED BY <1>2, <2>1, <5>1 DEF Placed
      <4> QED BY <1>0, <1>1, <3>1, <3>2, <4>1
    <3>3. CASE pc[r] = "database"
      <4>1. collections[<<d, o>>][c] = K
        BY <1>0, <1>1, <3>3
      <4>2. p = o
        <5>1. d \in DbName /\ c \in CollName /\ o \in Creator /\ collections[<<d, p>>][c] = K
          BY <1>1
        <5> HIDE DEF d, c, o
        <5> QED BY <1>2, <2>1, <4>1, <5>1 DEF OnePlace
      <4> QED BY <3>1, <4>2
    <3> QED BY <3>2, <3>3
  <2>3. CASE DropsColl(q) /\ Coll(q) = Coll(r) /\ pc[r] = "collection"
    <3>1. collections[<<cmd[q].db, p>>][cmd[q].coll] # collOf[q]
      BY <1>2, <2>3 DEF Gone
    <3> QED BY <1>0, <2>3, <3>1 DEF Coll
  <2> QED BY <1>4, <2>2, <2>3
<1>8. View' = View
  <2>1. View \in Catalogue /\ Sees(View, databases, collections, vectors)
    BY <1>2, ViewIs
  <2> HIDE DEF d, c, o, q
  <2>2. ASSUME NEW e \in DbName, NEW x \in CollName, databases[e] # None
        PROVE  /\ collections'[<<e, databases[e]>>][x] = collections[<<e, databases[e]>>][x]
               /\ collections[<<e, databases[e]>>][x] # None =>
                    vectors'[<<e, x, collections[<<e, databases[e]>>][x]>>]
                      = vectors[<<e, x, collections[<<e, databases[e]>>][x]>>]
    <3>1. databases[e] \in Creator
      BY <1>2, <2>2 DEF Types
    <3>2. collections'[<<e, databases[e]>>][x] = collections[<<e, databases[e]>>][x]
      <4>1. CASE pc[r] = "collection" BY <1>0, <4>1
      <4>2. CASE pc[r] = "database"
        <5>1. DropsDb(q) /\ Db(q) = Db(r)
          BY <1>4, <4>2
        <5>2. databases[d] # o
          BY <1>2, <1>5, <5>1 DEF Gone, Db, q, o
        <5>3. <<e, databases[e]>> # Db(r)
          BY <1>1, <5>2
        <5> QED BY <1>0, <3>1, <5>3
      <4> QED BY <4>1, <4>2
    <3>3. collections[<<e, databases[e]>>][x] \in Creator \cup {None}
      BY <1>2, <3>1 DEF Types
    <3>4. ASSUME collections[<<e, databases[e]>>][x] # None
          PROVE  vectors'[<<e, x, collections[<<e, databases[e]>>][x]>>]
                   = vectors[<<e, x, collections[<<e, databases[e]>>][x]>>]
      <4>1. e # d \/ x # c \/ collections[<<e, databases[e]>>][x] # K
        BY <1>7, <3>1, <3>4
      <4> QED BY <1>0, <3>3, <3>4, <4>1 DEF d, c
    <3> QED BY <3>2, <3>4
  <2>3. Sees(View, databases', collections', vectors')
    <3> SUFFICES ASSUME NEW e \in DbName
                 PROVE  /\ databases[e] = None => View[e] = None
                        /\ databases[e] # None =>
                             /\ View[e] \in Maps /\ View[e] # None
                             /\ \A x \in CollName :
                                  /\ collections'[<<e, databases[e]>>][x] = None => View[e][x] = None
                                  /\ collections'[<<e, databases[e]>>][x] # None =>
                                       /\ View[e][x] = vectors'[<<e, x, collections'[<<e, databases[e]>>][x]>>]
                                       /\ View[e][x] # None
      BY DEF Sees
    <3>1. /\ databases[e] = None => View[e] = None
          /\ databases[e] # None =>
               /\ View[e] \in Maps /\ View[e] # None
               /\ \A x \in CollName :
                    /\ collections[<<e, databases[e]>>][x] = None => View[e][x] = None
                    /\ collections[<<e, databases[e]>>][x] # None =>
                         /\ View[e][x] = vectors[<<e, x, collections[<<e, databases[e]>>][x]>>]
                         /\ View[e][x] # None
      BY <2>1 DEF Sees
    <3> QED BY <2>2, <3>1
  <2> QED BY <2>1, <2>3, ViewAfter
<1>9. PICK t : LinTrace(t)
  BY DEF OInv, Serving
<1>10. t[i - 1] \in Catalogue /\ Fits(t[i - 1], cmd[q]) /\ Match(t, i)
  <2>1. /\ t \in [0 .. Len(lin) -> Catalogue] /\ Match(t, i)
        /\ \A j \in 1 .. Len(lin) : lin[j] \in Request => Fits(t[j - 1], cmd[lin[j]])
    BY <1>9 DEF LinTrace, Trace
  <2> QED BY <1>2, <1>3, <2>1
<1>11. DropsDb(q) /\ Db(q) = Db(r) => (pc[r] = "collection" => collections[<<d, o>>][c] = collOf[r])
  <2> SUFFICES ASSUME DropsDb(q), Db(q) = Db(r), pc[r] = "collection", collections[<<d, o>>][c] # collOf[r]
               PROVE  FALSE
    OBVIOUS
  <2>1. PICK j \in 1 .. Len(lin) : DropsColl(lin[j]) /\ Coll(lin[j]) = Coll(r)
    BY <1>1, <1>2 DEF Fresher
  <2>2. Dropper(r, j)
    BY <1>1, <2>1, NoneIsNobody DEF Dropper
  <2>3. ~(j < i)
    BY <1>2, <2>2 DEF BeforeDrop
  <2>4. Db(lin[j]) = Db(q)
    <3>1. lin[j] \in Request
      BY HistoryCommand
    <3>2. collOf[lin[j]] = collOf[r] /\ cmd[lin[j]].db = d /\ collOf[lin[j]] # None
      BY <2>1 DEF Coll, DropsColl
    <3>3. dbOf[lin[j]] = Place(collOf[lin[j]])
      BY <1>2, <3>1, <3>2 DEF Held
    <3> QED BY <1>1, <3>2, <3>3 DEF Db
  <2>5. j <= i
    BY <1>2, <2>4 DEF Gone
  <2>6. j = i
    BY <1>2, <2>3, <2>5
  <2> QED BY <2>1, <2>6 DEF DropsDb, DropsColl
<1>12. /\ HasDb(t[i - 1], d)
       /\ HasColl(t[i - 1], d, c) <=> cmd[r].op # "createColl"
  <2>1. CASE DropsDb(q) /\ Db(q) = Db(r)
    <3>1. HasDb(t[i - 1], d)
      BY <1>5, <1>10, <2>1 DEF Fits, DropsDb, HasColl, HasDb, Inserts
    <3>2. HasColl(t[i - 1], d, c) <=> collections[<<d, o>>][c] # None
      BY <1>1, <1>5, <1>10, <2>1 DEF Match
    <3>3. collections[<<d, o>>][c] # None <=> cmd[r].op # "createColl"
      <4>1. CASE pc[r] = "database" BY <1>0, <1>1, <4>1
      <4>2. CASE pc[r] = "collection"
        BY <1>1, <1>11, <2>1, <4>2, NoneIsNobody DEF Inserts
      <4> QED BY <4>1, <4>2
    <3> QED BY <3>1, <3>2, <3>3
  <2>2. CASE DropsColl(q) /\ Coll(q) = Coll(r) /\ pc[r] = "collection"
    <3>1. HasColl(t[i - 1], cmd[q].db, cmd[q].coll)
      BY <1>10, <2>2 DEF Fits, DropsColl
    <3>2. cmd[q].db = d /\ cmd[q].coll = c /\ cmd[r].op # "createColl"
      BY <1>1, <2>2 DEF Coll, Inserts
    <3> QED BY <3>1, <3>2 DEF HasColl
  <2> QED BY <1>4, <2>1, <2>2
<1>13. Fits(t[i - 1], cmd[r])
  BY <1>1, <1>12 DEF Fits, CollOps
<1>14. ASSUME DropsDb(q), NEW x \in CollName
       PROVE  HasColl(Effect(t[i - 1], cmd[r], r), d, x) <=> collections'[Db(q)][x] # None
  <2>1. Db(q) = <<d, o>> /\ Db(q) = Db(r)
    BY <1>1, <1>4, <1>14 DEF DropsDb, DropsColl
  <2>2. HasColl(Effect(t[i - 1], cmd[r], r), d, x) <=>
            IF x = c THEN cmd[r].op # "dropColl" ELSE HasColl(t[i - 1], d, x)
    BY <1>1, <1>10, <1>13, EffectHas
  <2>3. CASE x = c
    <3>1. CASE pc[r] = "database"
      BY <1>0, <2>1, <2>2, <2>3, <3>1
    <3>2. CASE pc[r] = "collection"
      <4>1. collections'[<<d, o>>][c] = collOf[r] /\ collOf[r] # None /\ cmd[r].op # "dropColl"
        BY <1>0, <1>1, <1>11, <1>14, <2>1, <3>2, NoneIsNobody DEF Inserts
      <4> QED BY <2>1, <2>2, <2>3, <4>1
    <3> QED BY <3>1, <3>2
  <2>4. CASE x # c
    <3>1. HasColl(t[i - 1], d, x) <=> collections[<<d, o>>][x] # None
      BY <1>5, <1>10, <1>14, <2>1 DEF Match
    <3>2. collections'[<<d, o>>][x] = collections[<<d, o>>][x]
      BY <1>0, <1>1, <2>4
    <3> QED BY <2>1, <2>2, <2>4, <3>1, <3>2
  <2> QED BY <2>3, <2>4
<1>15. ASSUME NEW j \in 1 .. Len(lin), j # i, DropsDb(lin[j]), NEW x \in CollName
       PROVE  collections'[Db(lin[j])][x] # None <=> collections[Db(lin[j])][x] # None
  <2>1. cmd[lin[j]].db \in DbName /\ dbOf[lin[j]] \in Creator
    BY <1>15, HistoryCommand DEF DropsDb
  <2>2. CASE pc[r] = "collection"
    BY <1>0, <2>2
  <2>3. CASE pc[r] = "database"
    <3>1. DropsDb(q) /\ Db(q) = Db(r)
      BY <1>4, <2>3
    <3>2. Db(lin[j]) # Db(r)
      <4> SUFFICES ASSUME Db(lin[j]) = Db(q) PROVE FALSE
        BY <3>1
      <4>1. j <= i /\ i <= j
        BY <1>2, <1>15, <3>1 DEF Gone
      <4> QED BY <1>2, <1>15, <4>1
    <3> QED BY <1>0, <2>1, <3>2 DEF Db
  <2> QED BY <2>2, <2>3
<1>16. \A p \in Request \ {r} : dbOf'[p] = dbOf[p]
  OBVIOUS
<1> QED BY <1>1, <1>5, <1>6, <1>8, <1>9, <1>13, <1>14, <1>15, <1>16, BeforeDropTraces

\* Where r's command goes in the history: before every drop of what it holds.
Goes(r, i) ==
    /\ Executes(r, i)
    /\ \A j \in 1 .. Len(lin) : Dropper(r, j) => i <= j
    /\ \/ i = Len(lin) + 1 /\ AtEnd(r)
       \/ i \in 1 .. Len(lin) /\ BeforeDrop(r, i)

LEMMA ExecuteGoes ==
    ASSUME OInv, NEW r \in Request, Execute(r), pc[r] \in {"begun", "database", "collection"},
           phase = "serving", UNCHANGED <<phase, cmd, base, log>>, pc' = [pc EXCEPT ![r] = "executed"]
    PROVE  \E i : Goes(r, i)
<1>1. lin \in Seq(Request) /\ Len(lin) \in Nat
  <2>1. lin \in Seq(Request) BY DEF OInv, Shape
  <2> QED BY <2>1
<1>2. CASE AtEnd(r)
  <2>1. Executes(r, Len(lin) + 1)
    BY <1>1, <1>2, ExecutesAtEnd DEF Executes, Past
  <2> QED BY <1>2, <2>1 DEF Goes, AtEnd
<1>3. ASSUME NEW i \in 1 .. Len(lin), BeforeDrop(r, i) PROVE Goes(r, i)
  <2>1. Executes(r, i)
    BY <1>1, <1>3, ExecutesBefore DEF Executes, Past
  <2>2. ASSUME NEW j \in 1 .. Len(lin), Dropper(r, j) PROVE i <= j
    <3>1. j \notin 1 .. i - 1
      BY <1>3, <2>2 DEF BeforeDrop
    <3> QED BY <1>1, <3>1
  <2> QED BY <1>3, <2>1, <2>2 DEF Goes
<1> QED BY <1>1, <1>2, <1>3, ExecuteCases

LEMMA CreateCollectionOrder ==
    ASSUME OInv, NInv', NEW r \in Request, CreateCollection(r), ~Answer(r, "database") PROVE OInv'
<1> DEFINE d == cmd[r].db
           c == cmd[r].coll
           o == dbOf[r]
<1>1. /\ cmd[r].op = "createColl" /\ collections[<<d, o>>][c] = None
      /\ collections' = [collections EXCEPT ![<<d, o>>][c] = r]
      /\ UNCHANGED <<databases, vectors, closed, dbOf, collOf, cmd, phase, base, log>>
      /\ phase = "serving" /\ pc[r] = "database" /\ pc' = [pc EXCEPT ![r] = "executed"]
      /\ Execute(r)
  BY DEF CreateCollection, Step, Unchanged, Db
<1>2. /\ NInv /\ Types /\ Shape /\ Counted /\ Held /\ Gone /\ Fresh /\ Types'
  BY <1>1 DEF OInv, NInv, Serving
<1>3. /\ d \in DbName /\ c \in CollName /\ o \in Creator /\ r \in Creator /\ collOf[r] = None
      /\ Db(r) = <<d, o>> /\ (o \in Request => pc[o] \in Past) /\ r # None
  BY <1>1, HandlerHolds, NoneIsNobody DEF Db, Creator
<1> HIDE DEF d, c, o
<1>4. \A e \in DbName, p \in Creator, x \in CollName :
          collections'[<<e, p>>][x] = IF e = d /\ p = o /\ x = c THEN r ELSE collections[<<e, p>>][x]
  <2>1. r \in Creator \cup {None} /\ collections' = [collections EXCEPT ![<<d, o>>][c] = r]
    BY <1>1, <1>3
  <2> QED BY <1>2, <1>3, <2>1 DEF Types
<1>5. PICK i : Goes(r, i)
  BY <1>1, ExecuteGoes
<1>6. Shape' /\ Counted'
  BY <1>1, <1>2, <1>5, ExecuteShape DEF Shape, Goes
<1>7. \A e \in DbName, x \in CollName : vectors[<<e, x, r>>] = {}
  BY <1>1, <1>2 DEF Held, Past
<1>8. (\E t : LinTrace(t)') /\ LogOK'
  <2>0. /\ \A e \in DbName, p \in Creator, x \in CollName :
             <<e, p>> # Db(r) \/ x # cmd[r].coll => collections'[<<e, p>>][x] = collections[<<e, p>>][x]
        /\ collections[Db(r)][cmd[r].coll] = None /\ collections'[Db(r)][cmd[r].coll] = r
    BY <1>1, <1>3, <1>4 DEF c
  <2>1. CASE i = Len(lin) + 1 /\ AtEnd(r)
    <3>1. vectors'[<<cmd[r].db, cmd[r].coll, collections'[Db(r)][cmd[r].coll]>>] =
              Change(cmd[r], r, vectors[<<cmd[r].db, cmd[r].coll, collections[Db(r)][cmd[r].coll]>>])
      BY <1>1, <1>3, <1>7, <2>0 DEF Change, Inserts, d, c
    <3> QED BY <1>1, <1>2, <1>3, <1>5, <1>6, <2>0, <2>1, <3>1, CollectionTraces DEF Goes
  <2>2. CASE i \in 1 .. Len(lin) /\ BeforeDrop(r, i)
    <3>1. Touches(r, None)
      BY <1>1, <2>0, <1>3, NoneIsNobody DEF Touches
    <3> QED BY <1>1, <1>2, <1>3, <1>5, <1>6, <2>2, <3>1, DroppedTraces DEF Goes
  <2> QED BY <1>5, <2>1, <2>2 DEF Goes
<1>9. Held' /\ Placed' /\ Fresher' /\ Gone'
  <2>1. \A x \in Request \ {r} : pc[x] \notin Past =>
           \A e \in DbName, y \in CollName : vectors'[<<e, y, x>>] = {}
    BY <1>1, <1>2 DEF Held
  <2>2. \A e \in DbName, y \in CollName, p \in Creator :
           \/ collections'[<<e, p>>][y] \in {None, collections[<<e, p>>][y]}
           \/ collections'[<<e, p>>][y] = r /\ p = dbOf'[r]
    BY <1>1, <1>4 DEF o
  <2>3. \A x \in Request \ {r} :
           pc[x] = "collection" /\ collections[Db(x)][cmd[x].coll] = collOf[x] =>
               collections'[Db(x)][cmd[x].coll] = collOf[x]
    <3> SUFFICES ASSUME NEW x \in Request, pc[x] = "collection",
                        collections[Db(x)][cmd[x].coll] = collOf[x]
                 PROVE  collections'[Db(x)][cmd[x].coll] = collOf[x]
      OBVIOUS
    <3>1. cmd[x].db \in DbName /\ cmd[x].coll \in CollName /\ dbOf[x] \in Creator /\ collOf[x] # None
      BY <1>1, HandlerHolds, NoneIsNobody
    <3> QED BY <1>1, <1>4, <3>1 DEF Db
  <2>4. \A j \in 1 .. Len(lin) : DropsDb(lin[j]) =>
           databases'[cmd[lin[j]].db] # dbOf[lin[j]] /\ (Db(r)' = Db(lin[j]) => i <= j)
    <3> SUFFICES ASSUME NEW j \in 1 .. Len(lin), DropsDb(lin[j])
                 PROVE  databases'[cmd[lin[j]].db] # dbOf[lin[j]] /\ (Db(r)' = Db(lin[j]) => i <= j)
      OBVIOUS
    <3>1. databases[cmd[lin[j]].db] # dbOf[lin[j]]
      BY <1>2 DEF Gone
    <3>2. Db(r)' = Db(r)
      BY <1>1 DEF Db
    <3>3. Db(r) = Db(lin[j]) => Dropper(r, j)
      BY <1>3, NoneIsNobody DEF Dropper, o
    <3> QED BY <1>1, <1>5, <3>1, <3>2, <3>3 DEF Goes
  <2>5. \A j \in 1 .. Len(lin) : DropsColl(lin[j]) =>
           \A p \in Creator : collections'[<<cmd[lin[j]].db, p>>][cmd[lin[j]].coll] # collOf[lin[j]]
    <3> SUFFICES ASSUME NEW j \in 1 .. Len(lin), DropsColl(lin[j]), NEW p \in Creator
                 PROVE  collections'[<<cmd[lin[j]].db, p>>][cmd[lin[j]].coll] # collOf[lin[j]]
      OBVIOUS
    <3>1. /\ cmd[lin[j]].coll \in CollName /\ cmd[lin[j]].db \in DbName /\ lin[j] \in Request
      BY HistoryCommand
    <3>2. collections[<<cmd[lin[j]].db, p>>][cmd[lin[j]].coll] # collOf[lin[j]]
      BY <1>2 DEF Gone
    <3>3. collOf[lin[j]] # r
      BY <1>1, <1>2, <3>1 DEF Held, Past
    <3> QED BY <1>4, <3>1, <3>2, <3>3
  <2>6. ~DropsDb(r)' /\ ~DropsColl(r)'
    BY <1>1 DEF DropsDb, DropsColl
  <2>7. dbOf'[r] = o /\ collOf'[r] = None /\ dbOf' = dbOf /\ collOf' = collOf /\ databases' = databases
    BY <1>1, <1>3 DEF o
  <2>8. Executes(r, i)
    BY <1>5 DEF Goes
  <2> QED BY <1>2, <1>3, <1>6, <2>1, <2>2, <2>3, <2>4, <2>5, <2>6, <2>7, <2>8, ExecuteServes,
             RequestAssumption
<1> QED BY <1>1, <1>6, <1>8, <1>9 DEF OInv, Serving

LEMMA DropCollectionOrder ==
    ASSUME OInv, NInv', NEW r \in Request, DropCollection(r), ~Answer(r, "database") PROVE OInv'
<1> DEFINE d == cmd[r].db
           c == cmd[r].coll
           o == dbOf[r]
           k == collections[<<d, o>>][c]
<1>1. /\ cmd[r].op = "dropColl" /\ k # None
      /\ collections' = [collections EXCEPT ![<<d, o>>][c] = None]
      /\ vectors' = [v \in DOMAIN vectors |-> IF v \in {<<d, c, k>>} THEN {} ELSE vectors[v]]
      /\ collOf' = [collOf EXCEPT ![r] = k]
      /\ UNCHANGED <<databases, dbOf, cmd, phase, base, log>>
      /\ phase = "serving" /\ pc[r] = "database" /\ pc' = [pc EXCEPT ![r] = "executed"]
      /\ Execute(r)
  BY DEF DropCollection, Step, Unchanged, Db, Close
<1>2. /\ NInv /\ Types /\ Shape /\ Counted /\ Held /\ Placed /\ OnePlace /\ Gone /\ Fresh /\ Types'
  BY <1>1 DEF OInv, NInv, Serving
<1>3. /\ d \in DbName /\ c \in CollName /\ o \in Creator /\ collOf[r] = None
      /\ Db(r) = <<d, o>> /\ (o \in Request => pc[o] \in Past)
  BY <1>1, HandlerHolds DEF Db
<1>30. k \in Creator /\ collections[<<d, o>>][c] = k /\ (k \in Request => pc[k] \in Past)
       /\ o = Place(k)
  <2>1. k \in Creator
    BY <1>1, <1>2, <1>3 DEF Types
  <2>2. collections[<<d, o>>][c] = k
    OBVIOUS
  <2> HIDE DEF d, c, o, k
  <2> QED BY <1>2, <1>3, <2>1, <2>2 DEF Fresh, Placed
<1> HIDE DEF d, c, o, k
<1>4. \A e \in DbName, p \in Creator, x \in CollName :
          collections'[<<e, p>>][x] = IF e = d /\ p = o /\ x = c THEN None ELSE collections[<<e, p>>][x]
  <2>1. None \in Creator \cup {None} /\ collections' = [collections EXCEPT ![<<d, o>>][c] = None]
    BY <1>1
  <2> QED BY <1>2, <1>3, <2>1 DEF Types
<1>5. PICK i : Goes(r, i)
  BY <1>1, ExecuteGoes
<1>6. /\ vectors' \in [DbName \X CollName \X Creator -> SUBSET Request]
      /\ \A e \in DbName, x \in CollName, y \in Creator :
           vectors'[<<e, x, y>>] = IF <<e, x, y>> = <<d, c, k>> THEN {} ELSE vectors[<<e, x, y>>]
  <2>1. vectors \in [DbName \X CollName \X Creator -> SUBSET Request]
    BY <1>2 DEF Shape
  <2> QED BY <1>1, <2>1
<1>7. Shape' /\ Counted'
  BY <1>2, <1>5, <1>6, ExecuteShape DEF Goes
<1>8. (\E t : LinTrace(t)') /\ LogOK'
  <2>0. /\ \A e \in DbName, p \in Creator, x \in CollName :
             <<e, p>> # Db(r) \/ x # cmd[r].coll => collections'[<<e, p>>][x] = collections[<<e, p>>][x]
        /\ collections[Db(r)][cmd[r].coll] = k /\ collections'[Db(r)][cmd[r].coll] = None
        /\ \A e \in DbName, x \in CollName, y \in Creator :
             e # cmd[r].db \/ x # cmd[r].coll \/ y # k => vectors'[<<e, x, y>>] = vectors[<<e, x, y>>]
    BY <1>3, <1>30, <1>4, <1>6 DEF c, d
  <2>1. CASE i = Len(lin) + 1 /\ AtEnd(r)
    <3>1. \A e \in DbName, x \in CollName, y \in Creator :
             (e # cmd[r].db \/ x # cmd[r].coll \/ y # collections'[Db(r)][cmd[r].coll])
             /\ (\E p \in Creator : collections'[<<e, p>>][x] = y) =>
                 vectors'[<<e, x, y>>] = vectors[<<e, x, y>>]
      <4> SUFFICES ASSUME NEW e \in DbName, NEW x \in CollName, NEW y \in Creator,
                          NEW p \in Creator, collections'[<<e, p>>][x] = y
                   PROVE  vectors'[<<e, x, y>>] = vectors[<<e, x, y>>]
        OBVIOUS
      <4>1. collections[<<e, p>>][x] = y /\ ~(e = d /\ p = o /\ x = c)
        BY <1>4, NoneIsNobody
      <4>2. <<e, x, y>> # <<d, c, k>>
        BY <1>2, <1>3, <1>30, <4>1 DEF OnePlace
      <4> QED BY <1>6, <4>2
    <3> QED BY <1>1, <1>2, <1>3, <1>5, <1>7, <2>0, <2>1, <3>1, CollectionTraces DEF Goes
  <2>2. CASE i \in 1 .. Len(lin) /\ BeforeDrop(r, i)
    <3>1. Touches(r, k)
      BY <1>1, <2>0 DEF Touches
    <3> QED BY <1>1, <1>2, <1>5, <1>7, <2>2, <3>1, DroppedTraces DEF Goes
  <2> QED BY <1>5, <2>1, <2>2 DEF Goes
<1>9. Held' /\ Placed' /\ Fresher' /\ Gone'
  <2>1. \A x \in Request \ {r} : pc[x] \notin Past =>
           \A e \in DbName, y \in CollName : vectors'[<<e, y, x>>] = {}
    <3>1. \A x \in Request : x \in Creator
      BY DEF Creator
    <3> QED BY <1>2, <1>6, <3>1 DEF Held
  <2>2. \A e \in DbName, y \in CollName, p \in Creator :
           collections'[<<e, p>>][y] \in {None, collections[<<e, p>>][y]}
    BY <1>4
  <2>3. \A x \in Request \ {r} :
           pc[x] = "collection" /\ collections[Db(x)][cmd[x].coll] = collOf[x] =>
               collections'[Db(x)][cmd[x].coll] = collOf[x] \/ (DropsColl(r)' /\ Coll(r)' = Coll(x))
    <3> SUFFICES ASSUME NEW x \in Request, pc[x] = "collection",
                        collections[Db(x)][cmd[x].coll] = collOf[x]
                 PROVE  collections'[Db(x)][cmd[x].coll] = collOf[x] \/ (DropsColl(r)' /\ Coll(r)' = Coll(x))
      OBVIOUS
    <3>1. cmd[x].db \in DbName /\ cmd[x].coll \in CollName /\ dbOf[x] \in Creator /\ collOf[x] # None
      BY <1>1, HandlerHolds, NoneIsNobody
    <3>2. CASE cmd[x].db = d /\ dbOf[x] = o /\ cmd[x].coll = c
      <4>1. collOf[x] = k
        BY <1>30, <3>2 DEF Db
      <4>2. collOf'[r] = k
        BY <1>1, <1>2 DEF Types
      <4> QED BY <1>1, <3>2, <4>1, <4>2 DEF DropsColl, Coll, d, c
    <3>3. CASE ~(cmd[x].db = d /\ dbOf[x] = o /\ cmd[x].coll = c)
      BY <1>4, <3>1, <3>3 DEF Db
    <3> QED BY <3>2, <3>3
  <2>4. \A j \in 1 .. Len(lin) : DropsDb(lin[j]) =>
           databases'[cmd[lin[j]].db] # dbOf[lin[j]] /\ (Db(r)' = Db(lin[j]) => i <= j)
    <3> SUFFICES ASSUME NEW j \in 1 .. Len(lin), DropsDb(lin[j])
                 PROVE  databases'[cmd[lin[j]].db] # dbOf[lin[j]] /\ (Db(r)' = Db(lin[j]) => i <= j)
      OBVIOUS
    <3>1. databases[cmd[lin[j]].db] # dbOf[lin[j]]
      BY <1>2 DEF Gone
    <3>2. Db(r)' = Db(r)
      BY <1>1 DEF Db
    <3>3. Db(r) = Db(lin[j]) => Dropper(r, j)
      BY <1>3, NoneIsNobody DEF Dropper, o
    <3> QED BY <1>1, <1>5, <3>1, <3>2, <3>3 DEF Goes
  <2>5. \A j \in 1 .. Len(lin) : DropsColl(lin[j]) =>
           \A p \in Creator : collections'[<<cmd[lin[j]].db, p>>][cmd[lin[j]].coll] # collOf[lin[j]]
    <3> SUFFICES ASSUME NEW j \in 1 .. Len(lin), DropsColl(lin[j]), NEW p \in Creator
                 PROVE  collections'[<<cmd[lin[j]].db, p>>][cmd[lin[j]].coll] # collOf[lin[j]]
      OBVIOUS
    <3>1. /\ cmd[lin[j]].coll \in CollName /\ cmd[lin[j]].db \in DbName /\ collOf[lin[j]] # None
      BY HistoryCommand DEF DropsColl
    <3>2. collections[<<cmd[lin[j]].db, p>>][cmd[lin[j]].coll] # collOf[lin[j]]
      BY <1>2 DEF Gone
    <3> QED BY <1>4, <3>1, <3>2
  <2>6. ~DropsDb(r)' /\ cmd' = cmd /\ collOf'[r] = k
    BY <1>1, <1>2 DEF DropsDb, Types
  <2>7. \A p \in Creator : collections'[<<cmd[r].db, p>>][cmd[r].coll] # collOf'[r]
    <3> SUFFICES ASSUME NEW p \in Creator, collections'[<<d, p>>][c] = k PROVE FALSE
      BY <2>6 DEF d, c
    <3>1. collections[<<d, p>>][c] = k /\ p # o
      BY <1>3, <1>30, <1>4, NoneIsNobody
    <3> QED BY <1>2, <1>3, <1>30, <3>1 DEF OnePlace
  <2>8. /\ dbOf'[r] = o /\ dbOf' = dbOf /\ databases' = databases
        /\ \A x \in Request \ {r} : collOf'[x] = collOf[x]
    BY <1>1, <1>2, <1>3 DEF o, Types
  <2>9. Executes(r, i)
    BY <1>5 DEF Goes
  <2> QED BY <1>2, <1>3, <1>30, <1>7, <2>1, <2>2, <2>3, <2>4, <2>5, <2>6, <2>7, <2>8, <2>9, ExecuteServes
<1> QED BY <1>1, <1>7, <1>8, <1>9 DEF OInv, Serving

LEMMA VectorsOrder ==
    ASSUME OInv, NInv', NEW r \in Request, Insert(r) \/ Delete(r) PROVE OInv'
<1> DEFINE d == cmd[r].db
           c == cmd[r].coll
           o == dbOf[r]
           k == collOf[r]
<1>1. /\ vectors' = [vectors EXCEPT ![<<d, c, k>>] = Change(cmd[r], r, @)]
      /\ UNCHANGED <<databases, collections, dbOf, collOf, cmd, phase, base, log>>
      /\ phase = "serving" /\ pc[r] = "collection" /\ pc' = [pc EXCEPT ![r] = "executed"]
      /\ Execute(r)
  <2>1. CASE Insert(r)
    <3>1. cmd[r].op \in Inserts /\ cmd[r].op # "dropColl"
          /\ vectors' = [vectors EXCEPT ![<<d, c, k>>] = @ \cup {r}]
      BY <2>1 DEF Insert, Inserts, Coll
    <3> QED BY <2>1, <3>1 DEF Insert, Step, Unchanged, Change
  <2>2. CASE Delete(r)
    BY <2>2 DEF Delete, Step, Unchanged, Coll, Change, Inserts
  <2> QED BY <2>1, <2>2
<1>2. /\ NInv /\ Types /\ Shape /\ Counted /\ Held /\ Gone /\ Fresher /\ Types'
  BY <1>1 DEF OInv, NInv, Serving
<1>3. /\ d \in DbName /\ c \in CollName /\ o \in Creator /\ k \in Creator /\ k # None /\ o # None
      /\ Db(r) = <<d, o>> /\ (o \in Request => pc[o] \in Past) /\ (k \in Request => pc[k] \in Past)
      /\ o = Place(k)
      /\ cmd[r].op \in {"delete"} \cup Inserts
  BY <1>1, HandlerHolds, NoneIsNobody DEF Db
<1>30. cmd[r].op \notin {"createColl", "dropColl", "dropDb"}
  BY <1>3 DEF Inserts
<1> HIDE DEF d, c, o, k
<1>5. PICK i : Goes(r, i)
  BY <1>1, ExecuteGoes
<1>6. /\ vectors' \in [DbName \X CollName \X Creator -> SUBSET Request]
      /\ vectors'[<<d, c, k>>] = Change(cmd[r], r, vectors[<<d, c, k>>])
      /\ \A e \in DbName, x \in CollName, y \in Creator :
           <<e, x, y>> # <<d, c, k>> => vectors'[<<e, x, y>>] = vectors[<<e, x, y>>]
  <2>1. vectors \in [DbName \X CollName \X Creator -> SUBSET Request]
    BY <1>2 DEF Shape
  <2>2. Change(cmd[r], r, vectors[<<d, c, k>>]) \in SUBSET Request
    <3>1. vectors[<<d, c, k>>] \in SUBSET Request
      BY <1>3, <2>1
    <3>2. CASE cmd[r].op \in Inserts BY <1>30, <3>1, <3>2 DEF Change
    <3>3. CASE cmd[r].op \notin Inserts BY <1>30, <3>3 DEF Change
    <3> QED BY <3>2, <3>3
  <2>3. <<d, c, k>> \in DbName \X CollName \X Creator
    BY <1>3
  <2> DEFINE new == Change(cmd[r], r, vectors[<<d, c, k>>])
  <2>4. vectors' = [vectors EXCEPT ![<<d, c, k>>] = new]
    BY <1>1 DEF d, c, k
  <2>5. new \in SUBSET Request
    BY <2>2
  <2> HIDE DEF new
  <2>6. /\ vectors' \in [DbName \X CollName \X Creator -> SUBSET Request]
        /\ vectors'[<<d, c, k>>] = new
        /\ \A e \in DbName, x \in CollName, y \in Creator :
             <<e, x, y>> # <<d, c, k>> => vectors'[<<e, x, y>>] = vectors[<<e, x, y>>]
    BY <2>1, <2>3, <2>4, <2>5
  <2> QED BY <2>6 DEF new
<1>7. Shape' /\ Counted'
  BY <1>2, <1>5, <1>6, ExecuteShape DEF Goes
<1>8. (\E t : LinTrace(t)') /\ LogOK'
  <2>1. CASE i = Len(lin) + 1 /\ AtEnd(r)
    <3>1. ~ \E j \in 1 .. Len(lin) : DropsColl(lin[j]) /\ Coll(lin[j]) = Coll(r)
      BY <1>3, <2>1 DEF AtEnd, Dropper, k
    <3>2. collections[Db(r)][cmd[r].coll] = k
      BY <1>1, <1>2, <3>1 DEF Fresher, k
    <3>3. vectors'[<<cmd[r].db, cmd[r].coll, collections'[Db(r)][cmd[r].coll]>>] =
              Change(cmd[r], r, vectors[<<cmd[r].db, cmd[r].coll, collections[Db(r)][cmd[r].coll]>>])
      BY <1>1, <1>6, <3>2 DEF d, c
    <3>4. \A e \in DbName, x \in CollName, y \in Creator :
             e # cmd[r].db \/ x # cmd[r].coll \/ y # collections'[Db(r)][cmd[r].coll] =>
                 vectors'[<<e, x, y>>] = vectors[<<e, x, y>>]
      BY <1>1, <1>6, <3>2 DEF d, c
    <3>5. collections[Db(r)][cmd[r].coll] # None /\ collections' = collections /\ k = collOf[r]
      BY <1>1, <1>3, <3>2 DEF k
    <3> QED BY <1>1, <1>2, <1>30, <1>5, <1>7, <2>1, <3>2, <3>3, <3>4, <3>5, CollectionTraces DEF Goes
  <2>2. CASE i \in 1 .. Len(lin) /\ BeforeDrop(r, i)
    <3>1. Touches(r, k)
      BY <1>1, <1>6 DEF Touches, d, c, k
    <3> QED BY <1>1, <1>2, <1>5, <1>7, <2>2, <3>1, DroppedTraces DEF Goes
  <2> QED BY <1>5, <2>1, <2>2 DEF Goes
<1>9. Held' /\ Placed' /\ Fresher' /\ Gone'
  <2>1. \A x \in Request \ {r} : pc[x] \notin Past =>
           \A e \in DbName, y \in CollName : vectors'[<<e, y, x>>] = {}
    <3>1. \A x \in Request : x \in Creator /\ (pc[x] \notin Past => x # k)
      BY <1>3 DEF Creator
    <3> QED BY <1>2, <1>6, <3>1 DEF Held
  <2>4. \A j \in 1 .. Len(lin) : DropsDb(lin[j]) =>
           databases'[cmd[lin[j]].db] # dbOf[lin[j]] /\ (Db(r)' = Db(lin[j]) => i <= j)
    <3> SUFFICES ASSUME NEW j \in 1 .. Len(lin), DropsDb(lin[j])
                 PROVE  databases'[cmd[lin[j]].db] # dbOf[lin[j]] /\ (Db(r)' = Db(lin[j]) => i <= j)
      OBVIOUS
    <3>1. databases[cmd[lin[j]].db] # dbOf[lin[j]]
      BY <1>2 DEF Gone
    <3>2. Db(r)' = Db(r)
      BY <1>1 DEF Db
    <3>3. Db(r) = Db(lin[j]) => Dropper(r, j)
      BY <1>3 DEF Dropper, o
    <3> QED BY <1>1, <1>5, <3>1, <3>2, <3>3 DEF Goes
  <2>5. \A j \in 1 .. Len(lin) : DropsColl(lin[j]) =>
           \A p \in Creator : collections'[<<cmd[lin[j]].db, p>>][cmd[lin[j]].coll] # collOf[lin[j]]
    BY <1>1, <1>2 DEF Gone
  <2>6. ~DropsDb(r)' /\ ~DropsColl(r)'
    BY <1>1, <1>30 DEF DropsDb, DropsColl
  <2>7. /\ dbOf'[r] = o /\ collOf'[r] = k /\ dbOf' = dbOf /\ collOf' = collOf /\ databases' = databases
        /\ collections' = collections
    BY <1>1 DEF o, k
  <2>8. Executes(r, i)
    BY <1>5 DEF Goes
  <2> QED BY <1>2, <1>3, <1>7, <2>1, <2>4, <2>5, <2>6, <2>7, <2>8, ExecuteServes
<1> QED BY <1>1, <1>7, <1>8, <1>9 DEF OInv, Serving

-----------------------------------------------------------------------------
(* The other steps.                                                        *)

LEMMA TraceSame ==
    ASSUME NEW j, NEW k, NEW s, NEW R, NEW T, NEW t, Trace(j, s, R, t),
           \A i \in 1 .. Len(s) : j[s[i]] = k[s[i]] /\ (s[i] \in R <=> s[i] \in T)
    PROVE  Trace(k, s, T, t)
BY DEF Trace

\* A step that changes what one handler holds, and nothing else.
LEMMA QuietOrder ==
    ASSUME OInv, NInv', NEW r \in Request, NEW to,
           phase = "serving", pc' = [pc EXCEPT ![r] = to], pc[r] \notin Past, to \notin Past,
           UNCHANGED <<databases, collections, vectors, phase, base, log, lin, causes>>,
           \A q \in Request \ {r} : cmd'[q] = cmd[q] /\ dbOf'[q] = dbOf[q] /\ collOf'[q] = collOf[q],
           to \in {"idle", "begun"} => dbOf'[r] = None /\ collOf'[r] = None,
           to = "database" => collOf'[r] = None /\ cmd'[r].op \in CollOps,
           to = "collection" => collOf'[r] \in Creator /\ cmd'[r].op \in {"delete"} \cup Inserts,
           dbOf'[r] \in Request => pc[dbOf'[r]] \in Past,
           collOf'[r] \in Request => pc[collOf'[r]] \in Past,
           collOf'[r] # None => dbOf'[r] = Place(collOf'[r]),
           to \in {"database", "collection"} =>
               \/ databases[cmd'[r].db] = dbOf'[r]
               \/ dbOf'[r] = dbOf[r] /\ cmd'[r] = cmd[r] /\ pc[r] \in {"database", "collection"},
           to = "collection" => collections[<<cmd'[r].db, dbOf'[r]>>][cmd'[r].coll] = collOf'[r]
    PROVE  OInv'
<1>1. /\ Types /\ Shape /\ Counted /\ Held /\ Placed /\ Fresher /\ Gone /\ Fresh /\ lin \in Seq(Request)
      /\ log \in Seq(Request)
  BY DEF OInv, NInv, Serving, Shape
<1>2. \A x \in Request \ {r} : pc'[x] = pc[x] /\ dbOf'[x] = dbOf[x] /\ collOf'[x] = collOf[x] /\ cmd'[x] = cmd[x]
  BY <1>1 DEF Types
<1>3. pc'[r] = to
  BY <1>1 DEF Types
<1>4. \A x \in Request : pc[x] \in Past => x # r /\ pc'[x] = pc[x] /\ dbOf'[x] = dbOf[x]
  BY <1>2
<1>5. /\ \A j \in 1 .. Len(lin) : lin[j] \in Request \ {r} /\ pc[lin[j]] \in Past
      /\ \A j \in 1 .. Len(log) : log[j] \in Request \ {r} /\ pc[log[j]] = "done"
  BY <1>1 DEF Counted, Past
<1>6. Executed' = Executed
  BY <1>2, <1>3 DEF Executed, Past
<1>7. Shape' /\ Counted'
  <2>1. Shape' BY <1>1 DEF Shape
  <2> QED BY <1>1, <1>2, <1>5, <1>6, <2>1 DEF Counted
<1>8. View' = View
  BY DEF View
<1>9. Held'
  <2> SUFFICES ASSUME NEW x \in Request
               PROVE  /\ pc'[x] \in {"idle", "begun"} => dbOf'[x] = None /\ collOf'[x] = None
                      /\ pc'[x] = "database" => collOf'[x] = None /\ cmd'[x].op \in CollOps
                      /\ pc'[x] = "collection" =>
                           collOf'[x] \in Creator /\ cmd'[x].op \in {"delete"} \cup Inserts
                      /\ dbOf'[x] \in Request => pc'[dbOf'[x]] \in Past
                      /\ collOf'[x] \in Request => pc'[collOf'[x]] \in Past
                      /\ collOf'[x] # None => dbOf'[x] = Place(collOf[x])'
                      /\ pc'[x] \notin Past =>
                           \A d \in DbName, c \in CollName : vectors'[<<d, c, x>>] = {}
    BY DEF Held
  <2>1. Place(collOf[x])' = IF collOf'[x] \in Request THEN dbOf'[collOf'[x]] ELSE Restored
    BY DEF Place
  <2>2. CASE x = r
    <3>1. \A d \in DbName, c \in CollName : vectors'[<<d, c, r>>] = {}
      BY <1>1 DEF Held
    <3>2. collOf'[r] # None => dbOf'[r] = Place(collOf[r])'
      BY <1>4, <2>1, <2>2 DEF Place
    <3> QED BY <1>3, <1>4, <2>2, <3>1, <3>2
  <2>3. CASE x # r
    <3>1. /\ pc[x] \in {"idle", "begun"} => dbOf[x] = None /\ collOf[x] = None
          /\ pc[x] = "database" => collOf[x] = None /\ cmd[x].op \in CollOps
          /\ pc[x] = "collection" => collOf[x] \in Creator /\ cmd[x].op \in {"delete"} \cup Inserts
          /\ dbOf[x] \in Request => pc[dbOf[x]] \in Past
          /\ collOf[x] \in Request => pc[collOf[x]] \in Past
          /\ collOf[x] # None => dbOf[x] = Place(collOf[x])
          /\ pc[x] \notin Past => \A d \in DbName, c \in CollName : vectors[<<d, c, x>>] = {}
      BY <1>1 DEF Held
    <3>2. pc'[x] = pc[x] /\ dbOf'[x] = dbOf[x] /\ collOf'[x] = collOf[x] /\ cmd'[x] = cmd[x]
      BY <1>2, <2>3
    <3>3. collOf'[x] # None => dbOf'[x] = Place(collOf[x])'
      BY <1>4, <2>1, <3>1, <3>2 DEF Place
    <3> QED BY <1>4, <3>1, <3>2, <3>3
  <2> QED BY <2>2, <2>3
<1>10. Placed'
  <2> SUFFICES ASSUME NEW d \in DbName, NEW c \in CollName, NEW o \in Creator, NEW k \in Creator,
                      collections[<<d, o>>][c] = k
               PROVE  o = Place(k)'
    BY DEF Placed
  <2>1. k \in Request => pc[k] \in Past
    BY <1>1 DEF Fresh
  <2> QED BY <1>1, <1>4, <2>1 DEF Placed, Place
<1>11. \A j \in 1 .. Len(lin) :
         /\ DropsDb(lin[j])' = DropsDb(lin[j]) /\ DropsColl(lin[j])' = DropsColl(lin[j])
         /\ Db(lin[j])' = Db(lin[j]) /\ Coll(lin[j])' = Coll(lin[j])
         /\ cmd'[lin[j]] = cmd[lin[j]] /\ dbOf'[lin[j]] = dbOf[lin[j]] /\ collOf'[lin[j]] = collOf[lin[j]]
  BY <1>2, <1>5 DEF DropsDb, DropsColl, Db, Coll
<1>12. Fresher'
  <2> SUFFICES ASSUME NEW x \in Request
               PROVE  /\ pc'[x] \in {"database", "collection"} =>
                           \/ databases[cmd'[x].db] = dbOf'[x]
                           \/ \E j \in 1 .. Len(lin) : DropsDb(lin[j])' /\ Db(lin[j])' = Db(x)'
                      /\ pc'[x] = "collection" =>
                           \/ collections[Db(x)'][cmd'[x].coll] = collOf'[x]
                           \/ \E j \in 1 .. Len(lin) : DropsColl(lin[j])' /\ Coll(lin[j])' = Coll(x)'
    BY DEF Fresher
  <2>1. CASE x = r
    <3>1. Db(r)' = <<cmd'[r].db, dbOf'[r]>> /\ Db(r) = <<cmd[r].db, dbOf[r]>>
      BY DEF Db
    <3>2. pc[r] \in {"database", "collection"} =>
             \/ databases[cmd[r].db] = dbOf[r]
             \/ \E j \in 1 .. Len(lin) : DropsDb(lin[j]) /\ Db(lin[j]) = Db(r)
      BY <1>1 DEF Fresher
    <3> QED BY <1>3, <1>11, <2>1, <3>1, <3>2
  <2>2. CASE x # r
    <3>1. /\ pc'[x] = pc[x] /\ dbOf'[x] = dbOf[x] /\ collOf'[x] = collOf[x] /\ cmd'[x] = cmd[x]
          /\ Db(x)' = Db(x) /\ Coll(x)' = Coll(x)
      BY <1>2, <2>2 DEF Db, Coll
    <3>2. /\ pc[x] \in {"database", "collection"} =>
               \/ databases[cmd[x].db] = dbOf[x]
               \/ \E j \in 1 .. Len(lin) : DropsDb(lin[j]) /\ Db(lin[j]) = Db(x)
          /\ pc[x] = "collection" =>
               \/ collections[Db(x)][cmd[x].coll] = collOf[x]
               \/ \E j \in 1 .. Len(lin) : DropsColl(lin[j]) /\ Coll(lin[j]) = Coll(x)
      BY <1>1 DEF Fresher
    <3> QED BY <1>11, <3>1, <3>2
  <2> QED BY <2>1, <2>2
<1>13. Gone'
  <2> SUFFICES ASSUME NEW i \in 1 .. Len(lin)
               PROVE  /\ DropsDb(lin[i])' =>
                           /\ databases[cmd'[lin[i]].db] # dbOf'[lin[i]]
                           /\ \A j \in 1 .. Len(lin) : Db(lin[j])' = Db(lin[i])' => j <= i
                      /\ DropsColl(lin[i])' =>
                           \A o \in Creator :
                             collections[<<cmd'[lin[i]].db, o>>][cmd'[lin[i]].coll] # collOf'[lin[i]]
    BY <1>1 DEF Gone
  <2>1. /\ DropsDb(lin[i]) =>
             /\ databases[cmd[lin[i]].db] # dbOf[lin[i]]
             /\ \A j \in 1 .. Len(lin) : Db(lin[j]) = Db(lin[i]) => j <= i
        /\ DropsColl(lin[i]) =>
             \A o \in Creator : collections[<<cmd[lin[i]].db, o>>][cmd[lin[i]].coll] # collOf[lin[i]]
    BY <1>1 DEF Gone
  <2>2. \A j \in 1 .. Len(lin) : Db(lin[j])' = Db(lin[i])' => Db(lin[j]) = Db(lin[i])
    BY <1>11
  <2> QED BY <1>11, <2>1, <2>2
<1>14. \E t : LinTrace(t)'
  <2>1. PICK t : LinTrace(t)
    BY DEF OInv, Serving
  <2>2. Trace(cmd', lin, Request, t)
    BY <1>2, <1>5, <2>1, TraceSame DEF LinTrace
  <2>3. ASSUME NEW j \in 1 .. Len(lin) PROVE Match(t, j)'
    BY <1>11, <2>1 DEF LinTrace, Match
  <2>4. LinTrace(t)'
    BY <1>8, <2>1, <2>2, <2>3 DEF LinTrace
  <2> QED BY <2>4
<1>15. LogOK'
  <2> SUFFICES ASSUME causes = {} PROVE LogOK'
    BY DEF LogOK
  <2>1. PICK l : LogTrace(l) /\ \E t : RestTrace(l, t)
    BY DEF OInv, LogOK
  <2>2. PICK t : RestTrace(l, t)
    BY <2>1
  <2>3. Trace(cmd', log, Request, l)
    BY <1>2, <1>5, <2>1, TraceSame DEF LogTrace
  <2>4. Trace(cmd', lin, Executed', t)
    BY <1>2, <1>5, <1>6, <2>2, TraceSame DEF RestTrace
  <2>5. LogTrace(l)' /\ RestTrace(l, t)'
    BY <1>8, <2>1, <2>2, <2>3, <2>4 DEF LogTrace, RestTrace
  <2> QED BY <2>5 DEF LogOK
<1> QED BY <1>7, <1>9, <1>10, <1>12, <1>13, <1>14, <1>15 DEF OInv, Serving

LEMMA BeginOrder ==
    ASSUME OInv, NInv', NEW r \in Request, Begin(r) PROVE OInv'
<1>1. PICK m \in Command : cmd' = [cmd EXCEPT ![r] = m]
  BY DEF Begin
<1>2. /\ UNCHANGED <<databases, collections, vectors, dbOf, collOf, phase, base, log, lin, causes>>
      /\ phase = "serving" /\ pc' = [pc EXCEPT ![r] = "begun"] /\ pc[r] = "idle"
  BY DEF Begin, Step, objects
<1>3. Types /\ dbOf[r] = None /\ collOf[r] = None
  BY <1>2 DEF OInv, NInv, Serving, Held
<1>4. \A q \in Request \ {r} : cmd'[q] = cmd[q] /\ dbOf'[q] = dbOf[q] /\ collOf'[q] = collOf[q]
  BY <1>1, <1>2, <1>3 DEF Types
<1>5. None \notin Request /\ pc[r] \notin Past /\ "begun" \notin Past
  BY <1>2, RequestAssumption DEF Past
<1> QED BY <1>2, <1>3, <1>4, <1>5, QuietOrder

LEMMA FindDatabaseOrder ==
    ASSUME OInv, NInv', NEW r \in Request, FindDatabase(r) PROVE OInv'
<1> DEFINE found == databases[cmd[r].db]
           to == IF found = None THEN "refused" ELSE "database"
<1>1. /\ UNCHANGED <<databases, collections, vectors, cmd, collOf, phase, base, log, lin, causes>>
      /\ phase = "serving" /\ pc' = [pc EXCEPT ![r] = to] /\ pc[r] = "begun"
      /\ dbOf' = [dbOf EXCEPT ![r] = found] /\ cmd[r].op \notin {"createDb", "dropDb"}
  BY DEF FindDatabase, Step, Quietly, objects
<1>2. Types /\ dbOf[r] = None /\ collOf[r] = None /\ cmd[r] \in Command /\ Fresh
  BY <1>1 DEF OInv, NInv, Serving, Held, HandlersOK
<1>3. cmd[r].op \in CollOps /\ cmd[r].db \in DbName
  BY <1>1, <1>2, CommandFields
<1>4. found \in Creator \cup {None} /\ dbOf'[r] = found /\ collOf'[r] = None /\ cmd'[r] = cmd[r]
  BY <1>1, <1>2, <1>3 DEF Types
<1>5. found \in Request => pc[found] \in Past
  BY <1>2, <1>3 DEF Fresh
<1>6. \A q \in Request \ {r} : cmd'[q] = cmd[q] /\ dbOf'[q] = dbOf[q] /\ collOf'[q] = collOf[q]
  BY <1>1, <1>2 DEF Types
<1>7. None \notin Request /\ pc[r] \notin Past
  BY <1>1, RequestAssumption DEF Past
<1>8. to \in {"refused", "database"} /\ to \notin Past /\ databases[cmd'[r].db] = dbOf'[r]
  BY <1>4 DEF Past
<1> HIDE DEF found, to
<1> QED BY <1>1, <1>3, <1>4, <1>5, <1>6, <1>7, <1>8, QuietOrder

LEMMA FindCollectionOrder ==
    ASSUME OInv, NInv', NEW r \in Request, FindCollection(r) PROVE OInv'
<1> DEFINE found == collections[Db(r)][cmd[r].coll]
           to == IF found = None THEN "refused" ELSE "collection"
<1>1. /\ UNCHANGED <<databases, collections, vectors, cmd, dbOf, phase, base, log, lin, causes>>
      /\ phase = "serving" /\ pc' = [pc EXCEPT ![r] = to] /\ pc[r] = "database"
      /\ collOf' = [collOf EXCEPT ![r] = found] /\ cmd[r].op \in {"delete"} \cup Inserts
  BY DEF FindCollection, Step, Quietly, objects
<1>2. Types /\ Fresh /\ Placed
  BY <1>1 DEF OInv, NInv, Serving
<1>3. /\ cmd[r].db \in DbName /\ cmd[r].coll \in CollName /\ dbOf[r] \in Creator
      /\ dbOf[r] \in Request => pc[dbOf[r]] \in Past
  BY <1>1, HandlerHolds
<1>4. found = collections[<<cmd[r].db, dbOf[r]>>][cmd[r].coll]
  BY DEF Db
<1>5. found \in Creator \cup {None} /\ collOf'[r] = found /\ dbOf'[r] = dbOf[r] /\ cmd'[r] = cmd[r]
  BY <1>1, <1>2, <1>3, <1>4 DEF Types
<1>6. found \in Request => pc[found] \in Past
  BY <1>2, <1>3, <1>4 DEF Fresh
<1>7. found # None => dbOf[r] = Place(found)
  BY <1>2, <1>3, <1>4, <1>5 DEF Placed
<1>8. \A q \in Request \ {r} : cmd'[q] = cmd[q] /\ dbOf'[q] = dbOf[q] /\ collOf'[q] = collOf[q]
  BY <1>1, <1>2 DEF Types
<1>9. pc[r] \notin Past /\ pc[r] \in {"database", "collection"}
  BY <1>1 DEF Past
<1>10. /\ to \in {"refused", "collection"} /\ to \notin Past /\ (to = "collection" => found # None)
       /\ collections[<<cmd'[r].db, dbOf'[r]>>][cmd'[r].coll] = collOf'[r]
  BY <1>4, <1>5 DEF Past
<1> HIDE DEF found, to
<1>11. collOf'[r] # None => dbOf'[r] = Place(collOf'[r])
  BY <1>5, <1>7
<1> QED BY <1>1, <1>3, <1>5, <1>6, <1>8, <1>9, <1>10, <1>11, QuietOrder

LEMMA AnswerOrder ==
    ASSUME OInv, NInv', NEW r \in Request, NEW from, Answer(r, from),
           from \in {"begun", "database", "collection"}
    PROVE  OInv'
<1>1. /\ UNCHANGED <<databases, collections, vectors, cmd, dbOf, collOf, phase, base, log, lin, causes>>
      /\ phase = "serving" /\ pc' = [pc EXCEPT ![r] = "refused"] /\ pc[r] \notin Past
  BY DEF Answer, Step, Unchanged, objects, Past
<1>2. /\ dbOf[r] \in Request => pc[dbOf[r]] \in Past
      /\ collOf[r] \in Request => pc[collOf[r]] \in Past
      /\ collOf[r] # None => dbOf[r] = Place(collOf[r])
  BY <1>1 DEF OInv, Serving, Held
<1>3. \A q \in Request \ {r} : cmd'[q] = cmd[q] /\ dbOf'[q] = dbOf[q] /\ collOf'[q] = collOf[q]
  BY <1>1
<1>4. "refused" \notin Past
  BY DEF Past
<1> QED BY <1>1, <1>2, <1>3, <1>4, QuietOrder

\* A handler that has executed its command answers; the history stays.
LEMMA AnsweredKeeps ==
    ASSUME OInv, NEW r \in Request, NEW to \in {"done", "failed"},
           phase = "serving", pc' = [pc EXCEPT ![r] = to], pc[r] = "executed",
           UNCHANGED <<objects, cmd, dbOf, collOf, phase, base, lin>>
    PROVE  /\ Serving' /\ Executed' = Executed \ {r} /\ View' = View
           /\ \A i \in 1 .. Len(lin) : pc'[lin[i]] \in Past
           /\ \A x \in Executed' : \E i \in 1 .. Len(lin) : lin[i] = x
           /\ \A x \in Request : pc[x] = "done" => pc'[x] = "done"
<1>1. /\ Types /\ Shape /\ Counted /\ Held /\ Placed /\ Fresher /\ Gone /\ lin \in Seq(Request)
      /\ UNCHANGED <<databases, collections, vectors>>
  BY DEF OInv, NInv, Serving, Shape, objects
<1>2. pc'[r] = to /\ \A x \in Request \ {r} : pc'[x] = pc[x]
  BY <1>1 DEF Types
<1>3. \A x \in Request : pc'[x] \in Past <=> pc[x] \in Past
  BY <1>2 DEF Past
<1>4. Executed' = Executed \ {r}
  BY <1>2 DEF Executed
<1>5. View' = View
  BY <1>1 DEF View
<1>6. \A x \in Request : pc'[x] \in {"idle", "begun", "database", "collection"} => x # r /\ pc'[x] = pc[x]
  BY <1>2
<1>7. Held' /\ Placed'
  <2>1. Placed' BY <1>1 DEF Placed, Place
  <2>2. ASSUME NEW x \in Request
        PROVE  /\ pc'[x] \in {"idle", "begun"} => dbOf'[x] = None /\ collOf'[x] = None
               /\ pc'[x] = "database" => collOf'[x] = None /\ cmd'[x].op \in CollOps
               /\ pc'[x] = "collection" =>
                    collOf'[x] \in Creator /\ cmd'[x].op \in {"delete"} \cup Inserts
               /\ dbOf'[x] \in Request => pc'[dbOf'[x]] \in Past
               /\ collOf'[x] \in Request => pc'[collOf'[x]] \in Past
               /\ collOf'[x] # None => dbOf'[x] = Place(collOf[x])'
               /\ pc'[x] \notin Past =>
                    \A d \in DbName, c \in CollName : vectors'[<<d, c, x>>] = {}
    <3>1. /\ pc[x] \in {"idle", "begun"} => dbOf[x] = None /\ collOf[x] = None
          /\ pc[x] = "database" => collOf[x] = None /\ cmd[x].op \in CollOps
          /\ pc[x] = "collection" => collOf[x] \in Creator /\ cmd[x].op \in {"delete"} \cup Inserts
          /\ dbOf[x] \in Request => pc[dbOf[x]] \in Past
          /\ collOf[x] \in Request => pc[collOf[x]] \in Past
          /\ collOf[x] # None => dbOf[x] = Place(collOf[x])
          /\ pc[x] \notin Past => \A d \in DbName, c \in CollName : vectors[<<d, c, x>>] = {}
      BY <1>1 DEF Held
    <3>2. Place(collOf[x])' = Place(collOf[x])
      BY DEF Place
    <3> QED BY <1>1, <1>3, <1>6, <3>1, <3>2
  <2> QED BY <2>1, <2>2 DEF Held
<1>8. Fresher' /\ Gone'
  <2>1. Gone' BY <1>1 DEF Gone, DropsDb, DropsColl, Db, Coll
  <2>2. ASSUME NEW x \in Request
        PROVE  /\ pc'[x] \in {"database", "collection"} =>
                    \/ databases'[cmd'[x].db] = dbOf'[x]
                    \/ \E i \in 1 .. Len(lin') : DropsDb(lin[i])' /\ Db(lin[i])' = Db(x)'
               /\ pc'[x] = "collection" =>
                    \/ collections'[Db(x)'][cmd'[x].coll] = collOf'[x]
                    \/ \E i \in 1 .. Len(lin') : DropsColl(lin[i])' /\ Coll(lin[i])' = Coll(x)'
    <3>1. /\ pc[x] \in {"database", "collection"} =>
               \/ databases[cmd[x].db] = dbOf[x]
               \/ \E i \in 1 .. Len(lin) : DropsDb(lin[i]) /\ Db(lin[i]) = Db(x)
          /\ pc[x] = "collection" =>
               \/ collections[Db(x)][cmd[x].coll] = collOf[x]
               \/ \E i \in 1 .. Len(lin) : DropsColl(lin[i]) /\ Coll(lin[i]) = Coll(x)
      BY <1>1 DEF Fresher
    <3>2. pc'[x] \in {"database", "collection"} => pc'[x] = pc[x]
      BY <1>6
    <3>3. /\ Db(x)' = Db(x) /\ Coll(x)' = Coll(x)
          /\ \A i \in 1 .. Len(lin) :
               /\ DropsDb(lin[i])' = DropsDb(lin[i]) /\ DropsColl(lin[i])' = DropsColl(lin[i])
               /\ Db(lin[i])' = Db(lin[i]) /\ Coll(lin[i])' = Coll(lin[i])
      BY DEF DropsDb, DropsColl, Db, Coll
    <3> QED BY <1>1, <3>1, <3>2, <3>3
  <2>3. Fresher' BY <2>2 DEF Fresher
  <2> QED BY <2>1, <2>3
<1>9. \E t : LinTrace(t)'
  <2>1. PICK t : LinTrace(t)
    BY DEF OInv, Serving
  <2>2. LinTrace(t)'
    BY <1>1, <1>5, <2>1 DEF LinTrace, Match, DropsDb, Db
  <2> QED BY <2>2
<1>10. \A i \in 1 .. Len(lin) : lin[i] \in Request /\ pc[lin[i]] \in Past
  BY <1>1 DEF Counted
<1>11. \A x \in Executed' : \E i \in 1 .. Len(lin) : lin[i] = x
  BY <1>1, <1>4 DEF Counted
<1> QED BY <1>2, <1>3, <1>4, <1>5, <1>7, <1>8, <1>9, <1>10, <1>11 DEF Serving

LEMMA LogOrder ==
    ASSUME OInv, NInv', NEW r \in Request, Log(r) PROVE OInv'
<1>1. /\ phase = "serving" /\ phase' = phase /\ pc' = [pc EXCEPT ![r] = "done"] /\ pc[r] = "executed"
      /\ UNCHANGED <<objects, cmd, dbOf, collOf, base, lin>> /\ vectors' = vectors
      /\ log' = Append(log, r)
      /\ causes' = causes \cup IF Ahead(r) = {} THEN {} ELSE {"reordered"}
  BY DEF Log, Step, objects
<1>2. /\ Serving' /\ Executed' = Executed \ {r} /\ View' = View
      /\ \A i \in 1 .. Len(lin) : pc'[lin[i]] \in Past
      /\ \A x \in Executed' : \E i \in 1 .. Len(lin) : lin[i] = x
      /\ \A x \in Request : pc[x] = "done" => pc'[x] = "done"
  BY <1>1, AnsweredKeeps
<1>3. /\ Types /\ Shape /\ Counted /\ lin \in Seq(Request) /\ log \in Seq(Request)
      /\ cmd[r] \in Command
  BY <1>1 DEF OInv, NInv, Shape, HandlersOK
<1>4. /\ log' \in Seq(Request) /\ Len(log') = Len(log) + 1 /\ log'[Len(log) + 1] = r
      /\ \A i \in 1 .. Len(log) : log'[i] = log[i]
      /\ Len(log) \in Nat
  BY <1>1, <1>3
<1>5. \A i \in 1 .. Len(log) : log[i] \in Request /\ pc[log[i]] = "done" /\ log[i] # r
  BY <1>1, <1>3 DEF Counted
<1>6. Shape'
  <2>1. ASSUME NEW i \in 1 .. Len(log'), NEW j \in 1 .. Len(log'), log'[i] = log'[j]
        PROVE  i = j
    <3>1. \A m \in 1 .. Len(log') : m = Len(log) + 1 \/ m \in 1 .. Len(log)
      BY <1>4
    <3>2. CASE i \in 1 .. Len(log) /\ j \in 1 .. Len(log)
      BY <1>3, <1>4, <2>1, <3>2 DEF Shape
    <3>3. CASE i = Len(log) + 1 /\ j \in 1 .. Len(log)
      BY <1>4, <1>5, <2>1, <3>3
    <3>4. CASE j = Len(log) + 1 /\ i \in 1 .. Len(log)
      BY <1>4, <1>5, <2>1, <3>4
    <3> QED BY <3>1, <3>2, <3>3, <3>4
  <2> QED BY <1>1, <1>3, <1>4, <2>1 DEF Shape
<1>7. Counted'
  <2>1. pc'[r] = "done"
    BY <1>1, <1>3 DEF Types
  <2>2. ASSUME NEW i \in 1 .. Len(log') PROVE pc'[log'[i]] = "done"
    <3>1. CASE i = Len(log) + 1 BY <1>4, <2>1, <3>1
    <3>2. CASE i # Len(log) + 1
      <4>1. i \in 1 .. Len(log)
        BY <1>4, <3>2
      <4> QED BY <1>2, <1>4, <1>5, <4>1
    <3> QED BY <3>1, <3>2
  <2> QED BY <1>1, <1>2, <2>2 DEF Counted
<1>8. LogOK'
  <2> SUFFICES ASSUME causes' = {} PROVE LogOK'
    BY DEF LogOK
  <2>1. causes = {} /\ Ahead(r) = {}
    BY <1>1
  <2>2. PICK l : LogTrace(l) /\ \E t : RestTrace(l, t)
    BY <1>1, <2>1 DEF OInv, LogOK
  <2>3. PICK t : RestTrace(l, t)
    BY <2>2
  <2>4. PICK p \in 1 .. Len(lin) : lin[p] = r
    BY <1>1, <1>3 DEF Counted, Executed
  <2>5. ASSUME NEW i \in 1 .. p - 1, lin[i] \in Executed
        PROVE  ~Clash(cmd[lin[i]], cmd[lin[p]])
    <3>1. i \in DOMAIN lin /\ p \in DOMAIN lin /\ i < p /\ lin[i] \in ToSet(lin) /\ pc[lin[i]] = "executed"
      BY <1>3, <2>5 DEF Executed, ToSet
    <3>2. lin[i] \notin Ahead(r)
      BY <2>1
    <3> QED BY <2>4, <3>1, <3>2 DEF Ahead
  <2>6. \A i \in 1 .. Len(lin) : cmd[lin[i]] \in Command
    BY HistoryCommand
  <2>7. /\ Trace(cmd, lin, Executed, t) /\ lin[p] \in Executed
        /\ \A i \in 1 .. Len(lin) : lin[i] = lin[p] => i = p
    BY <1>1, <1>3, <2>3, <2>4 DEF RestTrace, Executed, Shape
  <2>8. /\ Fits(t[0], cmd[r])
        /\ \E u : /\ Trace(cmd, lin, Executed \ {r}, u)
                  /\ u[0] = Effect(t[0], cmd[r], r) /\ u[Len(lin)] = t[Len(lin)]
    <3>1. Movable(cmd, lin, Executed, p)
      BY <2>5, <2>6, <2>7 DEF Movable
    <3>2. Fits(t[0], cmd[lin[p]]) /\ \E u : TraceWithout(cmd, lin, Executed, lin[p], t, u)
      BY <1>3, <2>4, <2>7, <3>1, TraceMove
    <3>3. PICK u : TraceWithout(cmd, lin, Executed, r, t, u)
      BY <2>4, <3>2
    <3> QED BY <2>4, <3>2, <3>3 DEF TraceWithout
  <2>9. PICK u : /\ Trace(cmd, lin, Executed \ {r}, u)
                 /\ u[0] = Effect(t[0], cmd[r], r) /\ u[Len(lin)] = t[Len(lin)]
    BY <2>8
  <2>10. Trace(cmd, log, Request, l) /\ l[0] = base /\ t[0] = l[Len(log)] /\ t[Len(lin)] = View
    BY <2>2, <2>3 DEF LogTrace, RestTrace
  <2>11. Fits(l[Len(log)], cmd[r]) /\ r \in Request \cap Request
    BY <2>8, <2>10
  <2>12. PICK w : /\ Trace(cmd, Append(log, r), Request, w)
                  /\ \A i \in 0 .. Len(log) : w[i] = l[i]
                  /\ w[Len(log) + 1] = Effect(l[Len(log)], cmd[r], r)
    BY <1>3, <2>10, <2>11, TraceAppend
  <2>13. w[0] = base
    BY <1>4, <2>10, <2>12
  <2>14. LogTrace(w)'
    BY <1>1, <2>12, <2>13 DEF LogTrace
  <2>15. RestTrace(w, u)'
    BY <1>1, <1>2, <1>4, <2>9, <2>10, <2>12 DEF RestTrace
  <2> QED BY <1>1, <2>14, <2>15 DEF LogOK
<1> QED BY <1>1, <1>2, <1>6, <1>7, <1>8 DEF OInv

LEMMA LogFailsOrder ==
    ASSUME OInv, NInv', NEW r \in Request, LogFails(r) PROVE OInv'
<1> DEFINE to == IF cmd[r].op = "embed" THEN "done" ELSE "failed"
<1>1. /\ phase = "serving" /\ phase' = phase /\ pc' = [pc EXCEPT ![r] = to] /\ pc[r] = "executed"
      /\ UNCHANGED <<objects, cmd, dbOf, collOf, base, lin>> /\ vectors' = vectors /\ log' = log
      /\ causes' # {}
  BY DEF LogFails, Step, objects
<1>2. to \in {"done", "failed"}
  OBVIOUS
<1> HIDE DEF to
<1>3. /\ Serving' /\ Executed' = Executed \ {r} /\ View' = View
      /\ \A i \in 1 .. Len(lin) : pc'[lin[i]] \in Past
      /\ \A x \in Executed' : \E i \in 1 .. Len(lin) : lin[i] = x
      /\ \A x \in Request : pc[x] = "done" => pc'[x] = "done"
  BY <1>1, <1>2, AnsweredKeeps
<1>4. Shape'
  BY <1>1 DEF OInv, Shape
<1>5. Counted'
  <2>1. \A i \in 1 .. Len(log) : log[i] \in Request /\ pc[log[i]] = "done"
    BY DEF OInv, Shape, Counted
  <2> QED BY <1>1, <1>3, <2>1 DEF Counted
<1>6. LogOK'
  BY <1>1 DEF LogOK
<1> QED BY <1>3, <1>4, <1>5, <1>6 DEF OInv

LEMMA DieOrder ==
    ASSUME OInv, NInv', phase = "serving", Die PROVE OInv'
<1>1. /\ phase' = "down" /\ vectors' = vectors
      /\ UNCHANGED <<cmd, dbOf, collOf, base, log, lin, causes>>
      /\ \A r \in Request : pc'[r] = IF pc[r] \in {"idle", "done", "refused", "failed"}
                                     THEN pc[r] ELSE "gone"
  BY DEF Die, objects
<1>2. Shape' BY <1>1 DEF OInv, Shape
<1>3. Counted'
  <2>1. /\ \A i \in 1 .. Len(log) : log[i] \in Request /\ pc[log[i]] = "done"
        /\ \A i \in 1 .. Len(lin) : lin[i] \in Request /\ pc[lin[i]] \in Past
    BY DEF OInv, Shape, Counted
  <2>2. \A r \in Request : pc[r] \in Past => pc'[r] \in Past
    BY <1>1 DEF Past
  <2> QED BY <1>1, <2>1, <2>2 DEF Counted
<1>4. LogOK'
  <2> SUFFICES ASSUME causes = {} PROVE \E l : LogTrace(l)'
    BY <1>1 DEF LogOK
  <2>1. PICK l : LogTrace(l)
    BY DEF OInv, LogOK
  <2> QED BY <1>1, <2>1 DEF LogTrace
<1> QED BY <1>1, <1>2, <1>3, <1>4 DEF OInv

\* Nothing happens to a catalogue without commands.
LEMMA StillTrace ==
    ASSUME NEW k, NEW s \in Seq(Request), NEW cat \in Catalogue
    PROVE  \E t : Trace(k, s, {}, t) /\ t[0] = cat /\ t[Len(s)] = cat
<1> DEFINE t == [i \in 0 .. Len(s) |-> cat]
<1>1. \A i \in 1 .. Len(s) : i \in 0 .. Len(s) /\ i - 1 \in 0 .. Len(s)
  OBVIOUS
<1>2. Trace(k, s, {}, t)
  BY <1>1 DEF Trace
<1>3. 0 \in 0 .. Len(s) /\ Len(s) \in 0 .. Len(s)
  OBVIOUS
<1> QED BY <1>2, <1>3

LEMMA EmptyTrace ==
    ASSUME NEW k, NEW R, NEW cat \in Catalogue
    PROVE  \E t : Trace(k, <<>>, R, t) /\ t[0] = cat
<1> DEFINE t == [i \in 0 .. 0 |-> cat]
<1>1. Trace(k, <<>>, R, t)
  BY DEF Trace
<1> QED BY <1>1

LEMMA SaveOrder ==
    ASSUME OInv, NInv', Save PROVE OInv'
<1>1. /\ phase = "serving" /\ phase' = phase /\ base' = View /\ log' = <<>> /\ lin' = <<>> /\ causes' = {}
      /\ UNCHANGED <<databases, collections, vectors, cmd, pc, dbOf, collOf>>
      /\ \A r \in Request : pc[r] \notin {"database", "collection", "executed"}
  BY DEF Save, Quiet, objects, handlers
<1>2. /\ Types /\ Shape /\ Held /\ Placed
      /\ View \in Catalogue /\ View' = View
  <2>1. Types /\ Shape /\ Held /\ Placed
    BY <1>1 DEF OInv, NInv, Serving
  <2>2. View' = View
    BY <1>1 DEF View
  <2> QED BY <2>1, <2>2, ViewIs
<1>3. <<>> \in Seq(Request) /\ Len(<<>>) = 0
  OBVIOUS
<1>4. Shape' /\ Counted'
  <2>1. Shape' BY <1>1, <1>2, <1>3 DEF Shape
  <2>2. Counted' BY <1>1, <1>3 DEF Counted, Executed
  <2> QED BY <2>1, <2>2
<1>5. PICK t : Trace(cmd, <<>>, Request, t) /\ t[0] = View
  BY <1>2, EmptyTrace
<1>6. Serving'
  <2>1. Held' BY <1>1, <1>2 DEF Held, Place
  <2>2. Placed' BY <1>1, <1>2 DEF Placed, Place
  <2>3. Fresher' /\ Gone'
    BY <1>1, <1>3 DEF Fresher, Gone
  <2>4. LinTrace(t)'
    BY <1>1, <1>2, <1>3, <1>5 DEF LinTrace
  <2> QED BY <2>1, <2>2, <2>3, <2>4 DEF Serving
<1>7. LogOK'
  <2>1. Trace(cmd, <<>>, Executed', t)
    BY <1>3, <1>5 DEF Trace
  <2>2. LogTrace(t)' /\ RestTrace(t, t)'
    BY <1>1, <1>2, <1>3, <1>5, <2>1 DEF LogTrace, RestTrace
  <2> QED BY <1>1, <2>2 DEF LogOK
<1> QED BY <1>4, <1>6, <1>7 DEF OInv

\* What a catalogue in memory looks like when it comes from a file.
LEMMA LoadSees ==
    ASSUME NEW cat \in Catalogue
    PROVE  /\ VectorsIn(cat) \in Vectors
           /\ \A d \in DbName, c \in CollName, r \in Request : VectorsIn(cat)[<<d, c, r>>] = {}
           /\ Sees(cat, DatabasesIn(cat), CollectionsIn(cat), VectorsIn(cat))
<1>1. ASSUME NEW d \in DbName, NEW c \in CollName, NEW k \in Creator
      PROVE  /\ VectorsIn(cat)[<<d, c, k>>] \in SUBSET Request
             /\ k # Restored => VectorsIn(cat)[<<d, c, k>>] = {}
             /\ k = Restored /\ HasColl(cat, d, c) => VectorsIn(cat)[<<d, c, k>>] = cat[d][c]
  <2>1. /\ <<d, c, k>> \in DbName \X CollName \X Creator
        /\ <<d, c, k>>[1] = d /\ <<d, c, k>>[2] = c /\ <<d, c, k>>[3] = k
    OBVIOUS
  <2>2. VectorsIn(cat)[<<d, c, k>>] = IF k = Restored /\ HasColl(cat, d, c) THEN cat[d][c] ELSE {}
    BY <2>1 DEF VectorsIn
  <2>3. HasColl(cat, d, c) => cat[d][c] \in SUBSET Request
    BY DEF HasColl, HasDb, Catalogue
  <2> QED BY <2>2, <2>3
<1>2. VectorsIn(cat) \in Vectors
  <2>1. VectorsIn(cat) = [k \in DbName \X CollName \X Creator |-> VectorsIn(cat)[k]]
    BY DEF VectorsIn
  <2>2. \A k \in DbName \X CollName \X Creator : VectorsIn(cat)[k] \in SUBSET Request
    BY <1>1
  <2> QED BY <2>1, <2>2 DEF Vectors
<1>3. Restored \in Creator /\ Restored # None /\ Restored \notin Request /\ Request \subseteq Creator
  BY RequestAssumption DEF Creator
<1>4. Sees(cat, DatabasesIn(cat), CollectionsIn(cat), VectorsIn(cat))
  <2> SUFFICES ASSUME NEW d \in DbName
               PROVE  /\ DatabasesIn(cat)[d] = None => cat[d] = None
                      /\ DatabasesIn(cat)[d] # None =>
                           /\ cat[d] \in Maps /\ cat[d] # None
                           /\ \A c \in CollName :
                                /\ CollectionsIn(cat)[<<d, DatabasesIn(cat)[d]>>][c] = None => cat[d][c] = None
                                /\ CollectionsIn(cat)[<<d, DatabasesIn(cat)[d]>>][c] # None =>
                                     /\ cat[d][c] = VectorsIn(cat)[<<d, c,
                                           CollectionsIn(cat)[<<d, DatabasesIn(cat)[d]>>][c]>>]
                                     /\ cat[d][c] # None
    BY DEF Sees
  <2>1. CASE cat[d] = None
    BY <2>1 DEF DatabasesIn
  <2>2. CASE cat[d] # None
    <3>1. DatabasesIn(cat)[d] = Restored /\ cat[d] \in Maps
      BY <2>2 DEF DatabasesIn, Catalogue, Maps
    <3>2. ASSUME NEW c \in CollName
          PROVE  /\ CollectionsIn(cat)[<<d, Restored>>][c] = None => cat[d][c] = None
                 /\ CollectionsIn(cat)[<<d, Restored>>][c] # None =>
                      /\ CollectionsIn(cat)[<<d, Restored>>][c] = Restored
                      /\ cat[d][c] = VectorsIn(cat)[<<d, c, Restored>>] /\ cat[d][c] # None
      <4>1. <<d, Restored>> \in DbName \X Creator /\ <<d, Restored>>[1] = d /\ <<d, Restored>>[2] = Restored
        BY <1>3
      <4>2. CollectionsIn(cat)[<<d, Restored>>][c] = IF HasColl(cat, d, c) THEN Restored ELSE None
        BY <4>1 DEF CollectionsIn
      <4>3. HasColl(cat, d, c) <=> cat[d][c] # None
        BY <2>2 DEF HasColl, HasDb
      <4>4. HasColl(cat, d, c) => cat[d][c] = VectorsIn(cat)[<<d, c, Restored>>]
        BY <1>1, <1>3
      <4> QED BY <1>3, <4>2, <4>3, <4>4
    <3> QED BY <1>3, <2>2, <3>1, <3>2
  <2> QED BY <2>1, <2>2
<1> QED BY <1>1, <1>2, <1>3, <1>4

LEMMA RestartOrder ==
    ASSUME OInv, NInv', Restart PROVE OInv'
<1> DEFINE cat == Replay(base, log)
<1>1. /\ phase = "down" /\ UNCHANGED <<cmd, pc, base, log>> /\ lin' = log
      /\ dbOf' = [r \in Request |-> None] /\ collOf' = [r \in Request |-> None]
      /\ \/ cat # Refused /\ phase' = "serving" /\ causes' = {} /\ Load(cat)
         \/ cat = Refused /\ phase' = "refused" /\ vectors' = vectors /\ causes' = causes
  BY DEF Restart, Recover, objects
<1>2. /\ Types /\ Shape /\ base \in Catalogue /\ log \in Seq(Request)
      /\ \A i \in 1 .. Len(log) : log[i] \in Request /\ pc[log[i]] = "done" /\ cmd[log[i]] \in Command
  BY DEF OInv, NInv, HandlersOK, Shape, Counted
<1>3. /\ \A r \in Request : pc[r] \in AtRest
      /\ Executed = {}
  BY <1>1 DEF OInv, NInv, HandlersOK, AtRest, Executed
<1>4. Counted'
  BY <1>1, <1>2, <1>3 DEF Counted, Executed, Past
<1>5. CASE cat = Refused
  <2>1. phase' = "refused" /\ vectors' = vectors /\ causes' = causes
    BY <1>1, <1>5
  <2>2. Shape'
    BY <1>1, <1>2, <2>1 DEF Shape
  <2>3. causes # {}
    <3> SUFFICES ASSUME causes = {} PROVE FALSE
      OBVIOUS
    <3>1. PICK l : Trace(cmd, log, Request, l) /\ l[0] = base
      BY DEF OInv, LogOK, LogTrace
    <3>2. ReplayPart(l[0], log, Request) = l[Len(log)]
      BY <1>2, <3>1, TraceReplays
    <3>3. cat = l[Len(log)]
      BY <3>1, <3>2 DEF Replay
    <3>4. l[Len(log)] \in Catalogue
      BY <1>2, <3>1 DEF Trace
    <3> QED BY <1>5, <3>3, <3>4, NotNone
  <2> QED BY <1>4, <2>1, <2>2, <2>3 DEF OInv, LogOK
<1>6. CASE cat # Refused
  <2>1. phase' = "serving" /\ causes' = {} /\ Load(cat)
    BY <1>1, <1>6
  <2>2. PICK t : Trace(cmd, log, Request, t) /\ t[0] = base
    BY <1>2, <1>6, ReplayTrace
  <2>3. cat = t[Len(log)] /\ cat \in Catalogue
    <3>1. ReplayPart(t[0], log, Request) = t[Len(log)]
      BY <1>2, <2>2, TraceReplays
    <3>2. t[Len(log)] \in Catalogue
      BY <1>2, <2>2 DEF Trace
    <3> QED BY <2>2, <3>1, <3>2 DEF Replay
  <2> HIDE DEF cat
  <2>4. /\ vectors' = VectorsIn(cat) /\ databases' = DatabasesIn(cat)
        /\ collections' = CollectionsIn(cat)
    BY <2>1 DEF Load
  <2>5. /\ vectors' \in Vectors /\ Sees(cat, databases', collections', vectors')
        /\ \A d \in DbName, c \in CollName, r \in Request : vectors'[<<d, c, r>>] = {}
    BY <2>3, <2>4, LoadSees
  <2>6. Shape'
    BY <1>1, <1>2, <2>5 DEF Shape, Vectors
  <2>7. View' = cat
    BY <2>3, <2>5, <2>6, ViewAfter DEF NInv
  <2>8. Restored \notin Request /\ None \notin Request /\ None \notin Creator
    BY RequestAssumption, NoneIsNobody
  <2>9. Held'
    BY <1>1, <1>3, <2>5, <2>8 DEF Held, AtRest
  <2>10. Placed'
    <3>1. ASSUME NEW d \in DbName, NEW o \in Creator, NEW c \in CollName
          PROVE  \/ collections'[<<d, o>>][c] = None
                 \/ o = Restored /\ collections'[<<d, o>>][c] = Restored
      BY <2>4, RestoredPlaces
    <3> QED BY <2>8, <3>1 DEF Placed, Place
  <2>11. Fresher' /\ Gone'
    <3>1. \A j \in 1 .. Len(lin') : dbOf'[lin'[j]] = None /\ collOf'[lin'[j]] = None
      BY <1>1, <1>2
    <3>2. Gone'
      BY <3>1 DEF Gone, DropsDb, DropsColl
    <3> QED BY <1>1, <1>3, <3>2 DEF Fresher, AtRest
  <2>12. LinTrace(t)'
    <3>1. \A i \in 1 .. Len(log) : ~DropsDb(lin[i])'
      BY <1>1, <1>2 DEF DropsDb
    <3> QED BY <1>1, <2>2, <2>3, <2>7, <3>1 DEF LinTrace, Match
  <2>13. LogOK'
    <3>1. Executed' = {}
      BY <1>1, <1>3 DEF Executed
    <3>2. PICK u : Trace(cmd, log, {}, u) /\ u[0] = cat /\ u[Len(log)] = cat
      BY <1>2, <2>3, StillTrace
    <3>4. LogTrace(t)' /\ RestTrace(t, u)'
      BY <1>1, <2>2, <2>3, <2>7, <3>1, <3>2 DEF LogTrace, RestTrace
    <3> QED BY <2>1, <3>4 DEF LogOK
  <2> QED BY <1>4, <2>6, <2>9, <2>10, <2>11, <2>12, <2>13 DEF OInv, Serving
<1> QED BY <1>5, <1>6

LEMMA SameOrder ==
    ASSUME OInv, NInv', UNCHANGED vars PROVE OInv'
<1>1. UNCHANGED <<databases, collections, vectors, cmd, pc, dbOf, collOf, phase, base, log, lin, causes>>
  BY DEF vars, objects, handlers
<1>2. Shape' /\ Counted' BY <1>1 DEF OInv, Shape, Counted, Executed
<1>3. View' = View /\ Executed' = Executed BY <1>1 DEF View, Executed
<1>4. phase = "serving" => Serving'
  BY <1>1, <1>3 DEF OInv, Serving, Held, Place, Placed, Fresher, Gone, LinTrace, Match, DropsDb, DropsColl,
                    Db, Coll
<1>5. LogOK'
  BY <1>1, <1>3 DEF OInv, LogOK, LogTrace, RestTrace
<1> QED BY <1>1, <1>2, <1>4, <1>5 DEF OInv

LEMMA InitOrder == Init => OInv
<1> SUFFICES ASSUME Init PROVE OInv OBVIOUS
<1>1. NInv /\ Types
  BY InitInv DEF NInv
<1>2. /\ base \in Catalogue /\ databases = DatabasesIn(base) /\ collections = CollectionsIn(base)
      /\ vectors = VectorsIn(base) /\ lin = <<>> /\ log = <<>> /\ causes = {} /\ phase = "serving"
      /\ \A r \in Request : pc[r] = "idle" /\ dbOf[r] = None /\ collOf[r] = None
  BY BasesAssumption DEF Init
<1>3. /\ vectors \in Vectors /\ Sees(base, databases, collections, vectors)
      /\ \A d \in DbName, c \in CollName, r \in Request : vectors[<<d, c, r>>] = {}
  BY <1>2, LoadSees
<1>4. <<>> \in Seq(Request) /\ Len(<<>>) = 0
  OBVIOUS
<1>5. Shape /\ Counted /\ Executed = {}
  <2>1. Shape BY <1>2, <1>3, <1>4 DEF Shape, Vectors
  <2>2. Executed = {} BY <1>2 DEF Executed
  <2> QED BY <1>2, <1>4, <2>1, <2>2 DEF Counted
<1>6. View = base
  <2>1. View \in Catalogue /\ Sees(View, databases, collections, vectors)
    BY <1>1, <1>5, ViewIs
  <2> QED BY <1>2, <1>3, <2>1, SeesOne
<1>7. Restored \notin Request /\ None \notin Request /\ None \notin Creator
  BY RequestAssumption, NoneIsNobody
<1>8. Held /\ Fresher /\ Gone
  <2>1. Held BY <1>2, <1>3, <1>7 DEF Held, Past
  <2> QED BY <1>2, <1>4, <2>1 DEF Fresher, Gone
<1>9. Placed
  <2>1. ASSUME NEW d \in DbName, NEW o \in Creator, NEW c \in CollName
        PROVE  \/ collections[<<d, o>>][c] = None
               \/ o = Restored /\ collections[<<d, o>>][c] = Restored
    BY <1>2, RestoredPlaces
  <2> QED BY <1>7, <2>1 DEF Placed, Place
<1>10. PICK t : Trace(cmd, <<>>, Request, t) /\ t[0] = base
  BY <1>2, EmptyTrace
<1>11. LinTrace(t) /\ LogTrace(t) /\ RestTrace(t, t)
  <2>1. Trace(cmd, <<>>, Executed, t)
    BY <1>4, <1>10 DEF Trace
  <2> QED BY <1>2, <1>4, <1>6, <1>10, <2>1 DEF LinTrace, LogTrace, RestTrace
<1> QED BY <1>1, <1>2, <1>5, <1>8, <1>9, <1>11 DEF OInv, Serving, LogOK

LEMMA HandleOrder ==
    ASSUME OInv, NInv', NEW r \in Request, Handle(r) PROVE OInv'
<1>1. CASE Begin(r) BY <1>1, BeginOrder
<1>2. CASE FindDatabase(r) BY <1>2, FindDatabaseOrder
<1>3. CASE FindCollection(r) BY <1>3, FindCollectionOrder
<1>4. CASE \E from \in {"begun", "database", "collection"} : Answer(r, from) BY <1>4, AnswerOrder
<1>5. CASE CreateDatabase(r) BY <1>4, <1>5, CreateDatabaseOrder
<1>6. CASE DropDatabase(r) BY <1>4, <1>6, DropDatabaseOrder
<1>7. CASE CreateCollection(r) BY <1>4, <1>7, CreateCollectionOrder
<1>8. CASE DropCollection(r) BY <1>4, <1>8, DropCollectionOrder
<1>9. CASE Insert(r) \/ Delete(r) BY <1>9, VectorsOrder
<1>10. CASE InsertRefused(r) BY <1>4, <1>10 DEF InsertRefused
<1>11. CASE InsertPanics(r) BY <1>4, <1>11, DieOrder DEF InsertPanics
<1>12. CASE Log(r) BY <1>12, LogOrder
<1>13. CASE LogFails(r) BY <1>13, LogFailsOrder
<1> QED
  BY <1>1, <1>2, <1>3, <1>5, <1>6, <1>7, <1>8, <1>9, <1>10, <1>11, <1>12, <1>13 DEF Handle

\* For any number of databases, collections and requests, and through every
\* interleaving of the handlers with crashes, panics, saves and recoveries: the
\* history lin leads from the RDB file to what memory holds, and while there is
\* no cause against it the log does so together with what is not logged (OInv).
THEOREM OrderInvariance == Spec => []OInv
<1>1. Init => OInv BY InitOrder
<1>2. OInv /\ NInv' /\ [Next]_vars => OInv'
  <2> SUFFICES ASSUME OInv, NInv', [Next]_vars PROVE OInv' OBVIOUS
  <2>1. CASE \E r \in Request : Handle(r) BY <2>1, HandleOrder
  <2>2. CASE Save BY <2>2, SaveOrder
  <2>3. CASE Crash BY <2>3, DieOrder DEF Crash
  <2>4. CASE Restart BY <2>4, RestartOrder
  <2>5. CASE UNCHANGED vars BY <2>5, SameOrder
  <2> QED BY <2>1, <2>2, <2>3, <2>4, <2>5 DEF Next
<1> QED BY <1>1, <1>2, NamesInvariance, PTL DEF Spec

\* What the engine holds under its locks is what the commands give one after the
\* other, each between its request and its answer, one on an object that was
\* dropped meanwhile as if it had come before the drop: for any number of
\* handlers, none of which holds a lock from its lookup to its change.
THEOREM CommandsLinearize == Spec => []Linearizable
<1>1. OInv => Linearizable
  <2> SUFFICES ASSUME OInv, phase = "serving" PROVE Replay(base, lin) = View
    BY DEF Linearizable
  <2>1. PICK t : Trace(cmd, lin, Request, t) /\ t[0] = base /\ t[Len(lin)] = View
    BY DEF OInv, Serving, LinTrace
  <2>2. lin \in Seq(Request)
    BY DEF OInv, Shape
  <2>3. ReplayPart(t[0], lin, Request) = t[Len(lin)]
    BY <2>1, <2>2, TraceReplays
  <2> QED BY <2>1, <2>3 DEF Replay
<1> QED BY <1>1, OrderInvariance, PTL

\* The AOF replays on the RDB file to what memory holds, together with the
\* commands that are not logged yet, unless a command was executed on a dropped
\* object, was logged before one that it should follow, or could not be logged:
\* the three causes are all there are.
THEOREM LogReplaysExactly == Spec => []ReplayExact
<1>1. OInv => ReplayExact
  <2> SUFFICES ASSUME OInv, phase = "serving", causes = {}
               PROVE  ReplayPart(Replay(base, log), lin, Executed) = View
    BY DEF ReplayExact, Executed
  <2>1. PICK l : LogTrace(l) /\ \E t : RestTrace(l, t)
    BY DEF OInv, LogOK
  <2>2. PICK t : Trace(cmd, lin, Executed, t) /\ t[0] = l[Len(log)] /\ t[Len(lin)] = View
    BY <2>1 DEF RestTrace
  <2>3. lin \in Seq(Request) /\ log \in Seq(Request)
    BY DEF OInv, Shape
  <2>4. Trace(cmd, log, Request, l) /\ l[0] = base
    BY <2>1 DEF LogTrace
  <2>5. ReplayPart(l[0], log, Request) = l[Len(log)]
    BY <2>3, <2>4, TraceReplays
  <2>6. ReplayPart(t[0], lin, Executed) = t[Len(lin)]
    BY <2>2, <2>3, TraceReplays
  <2>7. Replay(base, log) = l[Len(log)]
    BY <2>4, <2>5 DEF Replay
  <2> QED BY <2>2, <2>6, <2>7
<1> QED BY <1>1, OrderInvariance, PTL

\* A recovery that stops at an error in the AOF, and with it the server, has one
\* of the same three causes.
THEOREM RefusalHasCause == Spec => []RefusedOnlyByCause
<1>1. OInv => RefusedOnlyByCause
  BY DEF OInv, LogOK, RefusedOnlyByCause
<1> QED BY <1>1, OrderInvariance, PTL
=============================================================================
