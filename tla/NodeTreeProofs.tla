--------------------------- MODULE NodeTreeProofs ---------------------------
(***************************************************************************)
(* The invariants of NodeTree for every choice of ports, intervals, types   *)
(* and bounds.                                                              *)
(***************************************************************************)
EXTENDS NodeTree, FiniteSetTheorems, SequenceTheorems, WellFoundedInduction, TLAPS

-----------------------------------------------------------------------------
(* Lemmas on the operators the actions are built from.  A level of the tree *)
(* is a function from some of the keys of D to R.                           *)
Level(f, D, R) == DOMAIN f \subseteq D /\ f \in [DOMAIN f -> R]

LEMMA Width == UInt16 \in Nat /\ UInt16 > 1
  BY DEF UInt16

LEMMA IncType ==
  ASSUME NEW k \in Key
  PROVE  Inc(k) \in Key
  BY Width DEF Inc, Key

\* Without the wrap-around Inc is a successor.
LEMMA IncNext ==
  ASSUME NEW k \in Key, k + 1 <= KeyBound
  PROVE  Inc(k) = k + 1
  BY Width, ConstantsOK DEF Inc, Key

LEMMA PutLevel ==
  ASSUME NEW D, NEW R, NEW f, Level(f, D, R), NEW k \in D, NEW v \in R
  PROVE  /\ Level(Put(f, k, v), D, R)
         /\ DOMAIN Put(f, k, v) = DOMAIN f \cup {k}
  BY DEF Level, Put

LEMMA PutNewLevel ==
  ASSUME NEW D, NEW R, NEW f, Level(f, D, R), NEW k \in D, NEW v \in R
  PROVE  /\ Level(PutNew(f, k, v), D, R)
         /\ DOMAIN PutNew(f, k, v) = DOMAIN f \cup {k}
  BY DEF Level, Put, PutNew

LEMMA RestrictLevel ==
  ASSUME NEW D, NEW R, NEW f, Level(f, D, R), NEW S \in SUBSET DOMAIN f
  PROVE  /\ Level(Restrict(f, S), D, R)
         /\ DOMAIN Restrict(f, S) = S
         /\ \A x \in S : Restrict(f, S)[x] = f[x]
  BY DEF Level, Restrict

-----------------------------------------------------------------------------
(* Type correctness.                                                        *)
ConnData == [port : Port, wgKeyInc : Key]
GroupData == [enabled : BOOLEAN, interval : Interval, dtsKeyInc : Key]
DataSetData == [isString : BOOLEAN, varKeyInc : Key]

LEMMA TypeAsLevels ==
  TreeTypeOK <=> /\ connKeyInc \in Key
                 /\ Level(conns, Key, ConnData)
                 /\ Level(wgs, Key \X Key, GroupData)
                 /\ Level(dts, Key \X Key \X Key, DataSetData)
                 /\ Level(fields, Key \X Key \X Key \X Key, DataType)
  BY DEF TreeTypeOK, Level, ConnData, GroupData, DataSetData

LEMMA TypeInit == TreeInit => TreeTypeOK
  <1>1. 0 \in Key
    BY DEF Key, UInt16
  <1>2. \A D, R : Level(<<>>, D, R)
    BY DEF Level
  <1> QED
    BY <1>1, <1>2, TypeAsLevels DEF TreeInit

LEMMA TypeCreateConnection ==
  ASSUME TreeTypeOK, NEW port \in Port, CreateConnection(port)
  PROVE  TreeTypeOK'
  <1>1. Inc(connKeyInc) \in Key
    BY IncType, TypeAsLevels
  <1>2. NewConnection(port) \in ConnData
    BY DEF NewConnection, ConnData, Key, UInt16
  <1>3. Level(conns', Key, ConnData)
    BY <1>1, <1>2, PutNewLevel, TypeAsLevels DEF CreateConnection
  <1> QED
    BY <1>1, <1>3 DEF CreateConnection, TreeTypeOK, Level, ConnData

LEMMA TypeAddWritergroup ==
  ASSUME TreeTypeOK, NEW c \in DOMAIN conns, AddWritergroup(c)
  PROVE  TreeTypeOK'
  <1>1. c \in Key /\ conns[c] \in ConnData
    BY DEF TreeTypeOK, ConnData
  <1>2. Inc(conns[c].wgKeyInc) \in Key
    BY <1>1, IncType DEF ConnData
  <1>3. Level(conns', Key, ConnData)
    BY <1>1, <1>2 DEF AddWritergroup, TreeTypeOK, Level, ConnData
  <1>4. NewGroup \in GroupData
    BY ConstantsOK DEF NewGroup, GroupData, Key, UInt16
  <1>5. Level(wgs', Key \X Key, GroupData)
    BY <1>1, <1>2, <1>4, PutNewLevel, TypeAsLevels DEF AddWritergroup
  <1> QED
    BY <1>3, <1>5 DEF AddWritergroup, TreeTypeOK, Level, ConnData, GroupData

LEMMA TypeAddDataset ==
  ASSUME TreeTypeOK, NEW g \in DOMAIN wgs, NEW isString \in BOOLEAN, AddDataset(g, isString)
  PROVE  TreeTypeOK'
  <1>1. g \in Key \X Key /\ wgs[g] \in GroupData
    BY DEF TreeTypeOK, GroupData
  <1>2. Inc(wgs[g].dtsKeyInc) \in Key
    BY <1>1, IncType DEF GroupData
  <1>3. Level(wgs', Key \X Key, GroupData)
    BY <1>1, <1>2 DEF AddDataset, TreeTypeOK, Level, GroupData
  <1>4. NewDataSet(isString) \in DataSetData
    BY Width DEF NewDataSet, DataSetData, Key
  <1>5. <<g[1], g[2], Inc(wgs[g].dtsKeyInc)>> \in Key \X Key \X Key
    BY <1>1, <1>2
  <1>6. Level(dts', Key \X Key \X Key, DataSetData)
    BY <1>4, <1>5, PutNewLevel, TypeAsLevels DEF AddDataset
  <1> QED
    BY <1>3, <1>6 DEF AddDataset, TreeTypeOK, Level, GroupData, DataSetData

LEMMA TypeAddData ==
  ASSUME TreeTypeOK, NEW p \in DOMAIN dts, NEW type \in DataType, AddData(p, type)
  PROVE  TreeTypeOK'
  <1>1. p \in Key \X Key \X Key /\ dts[p] \in DataSetData
    BY DEF TreeTypeOK, DataSetData
  <1>2. Inc(dts[p].varKeyInc) \in Key
    BY <1>1, IncType DEF DataSetData
  <1>3. Level(dts', Key \X Key \X Key, DataSetData)
    BY <1>1, <1>2 DEF AddData, TreeTypeOK, Level, DataSetData
  <1>4. <<p[1], p[2], p[3], Inc(dts[p].varKeyInc)>> \in Key \X Key \X Key \X Key
    BY <1>1, <1>2
  <1>5. Level(fields', Key \X Key \X Key \X Key, DataType)
    BY <1>4, PutNewLevel, TypeAsLevels DEF AddData
  <1> QED
    BY <1>3, <1>5 DEF AddData, TreeTypeOK, Level, DataSetData

\* All removals restrict the four levels to what stays.
LEMMA TypeRestricted ==
  ASSUME TreeTypeOK, connKeyInc' \in Key,
         NEW C \in SUBSET DOMAIN conns, conns' = Restrict(conns, C),
         NEW G \in SUBSET DOMAIN wgs, wgs' = Restrict(wgs, G),
         NEW P \in SUBSET DOMAIN dts, dts' = Restrict(dts, P),
         NEW Q \in SUBSET DOMAIN fields, fields' = Restrict(fields, Q)
  PROVE  TreeTypeOK'
  <1>1. Level(conns', Key, ConnData)
    BY RestrictLevel, TypeAsLevels
  <1>2. Level(wgs', Key \X Key, GroupData)
    BY RestrictLevel, TypeAsLevels
  <1>3. Level(dts', Key \X Key \X Key, DataSetData)
    BY RestrictLevel, TypeAsLevels
  <1>4. Level(fields', Key \X Key \X Key \X Key, DataType)
    BY RestrictLevel, TypeAsLevels
  <1> QED
    BY <1>1, <1>2, <1>3, <1>4 DEF TreeTypeOK, Level, ConnData, GroupData, DataSetData

LEMMA RestrictAll ==
  ASSUME NEW D, NEW R, NEW f, Level(f, D, R)
  PROVE  Restrict(f, DOMAIN f) = f
  BY DEF Level, Restrict

LEMMA TypeUnchangedLevels ==
  ASSUME TreeTypeOK
  PROVE  /\ conns = Restrict(conns, DOMAIN conns)
         /\ wgs = Restrict(wgs, DOMAIN wgs)
         /\ dts = Restrict(dts, DOMAIN dts)
  BY RestrictAll, TypeAsLevels

LEMMA TypeRemoveData ==
  ASSUME TreeTypeOK, NEW p, NEW f, RemoveData(p, f)
  PROVE  TreeTypeOK'
  BY TypeRestricted, TypeUnchangedLevels, TypeAsLevels DEF RemoveData

LEMMA TypeRemoveDataset ==
  ASSUME TreeTypeOK, NEW p, RemoveDataset(p)
  PROVE  TreeTypeOK'
  BY TypeRestricted, TypeUnchangedLevels, TypeAsLevels DEF RemoveDataset

LEMMA TypeRemoveWritergroup ==
  ASSUME TreeTypeOK, NEW g, RemoveWritergroup(g)
  PROVE  TreeTypeOK'
  BY TypeRestricted, TypeUnchangedLevels, TypeAsLevels DEF RemoveWritergroup

LEMMA TypeDeleteConnection ==
  ASSUME TreeTypeOK, NEW c, DeleteConnection(c)
  PROVE  TreeTypeOK'
  BY TypeRestricted, TypeAsLevels DEF DeleteConnection

LEMMA TypeDeleteAll ==
  ASSUME DeleteAllConnections
  PROVE  TreeTypeOK'
  BY Width DEF DeleteAllConnections, TreeTypeOK, Key

LEMMA TypeSetEnabled ==
  ASSUME TreeTypeOK, NEW S, NEW on \in BOOLEAN, SetEnabled(S, on)
  PROVE  TreeTypeOK'
  <1>1. Level(wgs', Key \X Key, GroupData)
    BY DEF SetEnabled, TreeTypeOK, Level, GroupData
  <1> QED
    BY <1>1 DEF SetEnabled, TreeTypeOK, Level, GroupData

LEMMA TypeUpdateInterval ==
  ASSUME TreeTypeOK, NEW S, NEW i \in Interval, UpdateInterval(S, i)
  PROVE  TreeTypeOK'
  <1>1. Level(wgs', Key \X Key, GroupData)
    BY DEF UpdateInterval, TreeTypeOK, Level, GroupData
  <1> QED
    BY <1>1 DEF UpdateInterval, TreeTypeOK, Level, GroupData

\* A Field key of a DataSet names a Field, and the converse.
LEMMA FieldPath ==
  ASSUME TreeTypeOK, NEW p, NEW f \in FieldKeys(p)
  PROVE  <<p[1], p[2], p[3], f>> \in DOMAIN fields
  <1>1. PICK q \in DOMAIN fields : DataSetOf(q) = p /\ q[4] = f
    BY DEF FieldKeys
  <1>2. q = <<q[1], q[2], q[3], q[4]>>
    BY DEF TreeTypeOK
  <1>3. q[1] = p[1] /\ q[2] = p[2] /\ q[3] = p[3]
    BY <1>1 DEF DataSetOf
  <1> QED
    BY <1>1, <1>2, <1>3

LEMMA PathField ==
  ASSUME TreeTypeOK, NEW p \in DOMAIN dts, NEW f,
         <<p[1], p[2], p[3], f>> \in DOMAIN fields
  PROVE  f \in FieldKeys(p)
  <1>1. DataSetOf(<<p[1], p[2], p[3], f>>) = p
    BY DEF DataSetOf, TreeTypeOK
  <1> QED
    BY <1>1 DEF FieldKeys

-----------------------------------------------------------------------------
(* The inductive invariant.  ParentsExist alone is inductive up to the key  *)
(* an add takes; that the key is free is KeysBelowCounter, and that a new   *)
(* DataSet has no Fields yet is ParentsExist again.  The type of a string's *)
(* counter needs StringsContiguous: writeString computes it from the number *)
(* of Fields.                                                               *)
IInv == TreeTypeOK /\ ParentsExist /\ KeysBelowCounter /\ StringsContiguous

LEMMA InvInit == TreeInit => IInv
  BY TypeInit DEF TreeInit, IInv, ParentsExist, KeysBelowCounter, StringsContiguous

LEMMA InvCreateConnection ==
  ASSUME IInv, Room(connKeyInc, 1), NEW port \in Port, CreateConnection(port)
  PROVE  IInv'
  <1> DEFINE c == Inc(connKeyInc)
  <1>1. TreeTypeOK'
    BY TypeCreateConnection DEF IInv
  <1>2. c = connKeyInc + 1
    BY IncNext DEF IInv, TreeTypeOK, Room
  <1>3. connKeyInc \in Nat /\ DOMAIN conns \subseteq Nat
    BY DEF IInv, TreeTypeOK, Key
  <1>4. c \notin DOMAIN conns
    BY <1>2, <1>3 DEF IInv, KeysBelowCounter
  <1>5. conns' = Put(conns, c, NewConnection(port))
    BY <1>4 DEF CreateConnection, PutNew
  <1>6. ParentsExist'
    BY <1>5 DEF CreateConnection, IInv, ParentsExist, Put
  <1>7. KeysBelowCounter'
    BY <1>2, <1>3, <1>4, <1>5 DEF CreateConnection, IInv, KeysBelowCounter, ParentsExist, Put
  <1>8. StringsContiguous'
    BY DEF CreateConnection, IInv, StringsContiguous, FieldKeys
  <1> QED
    BY <1>1, <1>6, <1>7, <1>8 DEF IInv

LEMMA InvAddWritergroup ==
  ASSUME IInv, NEW c \in DOMAIN conns, Room(conns[c].wgKeyInc, 1), AddWritergroup(c)
  PROVE  IInv'
  <1> DEFINE w == Inc(conns[c].wgKeyInc)
  <1>1. TreeTypeOK'
    BY TypeAddWritergroup DEF IInv
  <1>2. w = conns[c].wgKeyInc + 1 /\ conns[c].wgKeyInc \in Nat
    BY IncNext DEF IInv, TreeTypeOK, Room, Key
  <1>3. <<c, w>> \notin DOMAIN wgs
    BY <1>2 DEF IInv, KeysBelowCounter
  <1>4. wgs' = Put(wgs, <<c, w>>, NewGroup)
    BY <1>3 DEF AddWritergroup, PutNew
  <1>5. /\ DOMAIN wgs' = DOMAIN wgs \cup {<<c, w>>}
        /\ \A g \in DOMAIN wgs : wgs'[g] = wgs[g]
    BY <1>3, <1>4 DEF Put
  <1>6. /\ DOMAIN conns' = DOMAIN conns
        /\ conns'[c].wgKeyInc = w
        /\ \A d \in DOMAIN conns : d # c => conns'[d] = conns[d]
    BY DEF AddWritergroup, IInv, TreeTypeOK
  <1>7. ParentsExist'
    BY <1>5, <1>6 DEF AddWritergroup, IInv, ParentsExist
  <1>8. KeysBelowCounter'
    <2>1. \A g \in DOMAIN wgs' : g[2] <= conns'[g[1]].wgKeyInc
      BY <1>2, <1>5, <1>6 DEF IInv, KeysBelowCounter, ParentsExist, TreeTypeOK, Key
    <2>2. \A p \in DOMAIN dts' : p[3] <= wgs'[GroupOf(p)].dtsKeyInc
      BY <1>5 DEF AddWritergroup, IInv, KeysBelowCounter, ParentsExist
    <2> QED
      BY <1>6, <2>1, <2>2 DEF AddWritergroup, IInv, KeysBelowCounter
  <1>9. StringsContiguous'
    BY DEF AddWritergroup, IInv, StringsContiguous, FieldKeys
  <1> QED
    BY <1>1, <1>7, <1>8, <1>9 DEF IInv

LEMMA InvAddDataset ==
  ASSUME IInv, NEW g \in DOMAIN wgs, Room(wgs[g].dtsKeyInc, 1),
         NEW isString \in BOOLEAN, AddDataset(g, isString)
  PROVE  IInv'
  <1> DEFINE d == Inc(wgs[g].dtsKeyInc)
             p == <<g[1], g[2], d>>
  <1>1. TreeTypeOK'
    BY TypeAddDataset DEF IInv
  <1>2. d = wgs[g].dtsKeyInc + 1 /\ wgs[g].dtsKeyInc \in Nat
    BY IncNext DEF IInv, TreeTypeOK, Room, Key
  <1>3. g = GroupOf(p)
    BY DEF IInv, TreeTypeOK, GroupOf
  <1>4. p \notin DOMAIN dts
    BY <1>2, <1>3 DEF IInv, KeysBelowCounter
  <1>5. dts' = Put(dts, p, NewDataSet(isString))
    BY <1>4 DEF AddDataset, PutNew
  <1>6. /\ DOMAIN dts' = DOMAIN dts \cup {p}
        /\ \A q \in DOMAIN dts : dts'[q] = dts[q]
        /\ dts'[p] = NewDataSet(isString)
    BY <1>4, <1>5 DEF Put
  <1>7. /\ DOMAIN wgs' = DOMAIN wgs
        /\ wgs'[g].dtsKeyInc = d
        /\ \A h \in DOMAIN wgs : h # g => wgs'[h] = wgs[h]
    BY DEF AddDataset, IInv, TreeTypeOK
  <1>8. ParentsExist'
    BY <1>3, <1>6, <1>7 DEF AddDataset, IInv, ParentsExist
  <1>9. KeysBelowCounter'
    <2>1. \A q \in DOMAIN dts' : q[3] <= wgs'[GroupOf(q)].dtsKeyInc
      <3>1. p[3] <= wgs'[GroupOf(p)].dtsKeyInc
        BY <1>2, <1>3, <1>7
      <3>2. ASSUME NEW q \in DOMAIN dts
            PROVE  q[3] <= wgs'[GroupOf(q)].dtsKeyInc
        <4>1. q[3] \in Nat /\ q[3] <= wgs[GroupOf(q)].dtsKeyInc
          BY DEF IInv, TreeTypeOK, KeysBelowCounter, Key
        <4>2. GroupOf(q) \in DOMAIN wgs
          BY DEF IInv, ParentsExist
        <4> QED
          BY <1>2, <1>7, <4>1, <4>2
      <3> QED
        BY <1>6, <3>1, <3>2
    <2>2. \A q \in DOMAIN fields' : q[4] <= dts'[DataSetOf(q)].varKeyInc
      BY <1>6 DEF AddDataset, IInv, KeysBelowCounter, ParentsExist
    <2> QED
      BY <1>7, <2>1, <2>2 DEF AddDataset, IInv, KeysBelowCounter
  <1>10. StringsContiguous'
    <2>1. FieldKeys(p) = {}
      BY <1>4 DEF FieldKeys, IInv, ParentsExist
    <2>2. 1 .. NewDataSet(isString).varKeyInc = {}
      BY DEF NewDataSet
    <2>3. \A q : FieldKeys(q)' = FieldKeys(q)
      BY DEF AddDataset, FieldKeys
    <2> QED
      BY <1>6, <2>1, <2>2, <2>3 DEF AddDataset, IInv, StringsContiguous
  <1> QED
    BY <1>1, <1>8, <1>9, <1>10 DEF IInv

LEMMA InvAddField ==
  ASSUME IInv, NEW p \in DOMAIN dts, Room(dts[p].varKeyInc, 1),
         NEW type \in DataType, AddField(p, type)
  PROVE  IInv'
  <1> DEFINE f == Inc(dts[p].varKeyInc)
             q == <<p[1], p[2], p[3], f>>
  <1>1. TreeTypeOK'
    BY TypeAddData DEF IInv, AddField
  <1>2. f = dts[p].varKeyInc + 1 /\ dts[p].varKeyInc \in Nat
    BY IncNext DEF IInv, TreeTypeOK, Room, Key
  <1>3. p = DataSetOf(q)
    BY DEF IInv, TreeTypeOK, DataSetOf
  <1>4. q \notin DOMAIN fields
    BY <1>2, <1>3 DEF IInv, KeysBelowCounter
  <1>5. DOMAIN fields' = DOMAIN fields \cup {q} /\ \A r \in DOMAIN fields : fields'[r] = fields[r]
    BY <1>4 DEF AddField, AddData, PutNew, Put
  <1>6. /\ DOMAIN dts' = DOMAIN dts
        /\ dts'[p].varKeyInc = f
        /\ dts'[p].isString = FALSE
        /\ \A r \in DOMAIN dts : r # p => dts'[r] = dts[r]
    BY DEF AddField, AddData, IInv, TreeTypeOK
  <1>7. ParentsExist'
    BY <1>3, <1>5, <1>6 DEF AddField, AddData, IInv, ParentsExist
  <1>8. KeysBelowCounter'
    <2>1. q[4] <= dts'[DataSetOf(q)].varKeyInc
      BY <1>2, <1>3, <1>6
    <2>2. ASSUME NEW r \in DOMAIN fields
          PROVE  r[4] <= dts'[DataSetOf(r)].varKeyInc
      <3>1. r[4] \in Nat /\ r[4] <= dts[DataSetOf(r)].varKeyInc
        BY DEF IInv, TreeTypeOK, KeysBelowCounter, Key
      <3>2. DataSetOf(r) \in DOMAIN dts
        BY DEF IInv, ParentsExist
      <3> QED
        BY <1>2, <1>6, <3>1, <3>2
    <2> QED
      BY <1>5, <1>6, <2>1, <2>2 DEF AddField, AddData, IInv, KeysBelowCounter
  <1>9. StringsContiguous'
    <2>1. ASSUME NEW r \in DOMAIN dts, r # p
          PROVE  FieldKeys(r)' = FieldKeys(r)
      BY <1>3, <1>5, <2>1 DEF FieldKeys
    <2>2. ASSUME NEW r \in DOMAIN dts, r # p, dts'[r].isString
          PROVE  /\ FieldKeys(r)' = 1 .. dts'[r].varKeyInc
                 /\ \A k \in FieldKeys(r)' : fields'[<<r[1], r[2], r[3], k>>] = Byte
      <3>1. FieldKeys(r)' = FieldKeys(r) /\ dts'[r] = dts[r]
        BY <1>6, <2>1, <2>2
      <3>2. \A k \in FieldKeys(r) : <<r[1], r[2], r[3], k>> \in DOMAIN fields
        BY FieldPath DEF IInv
      <3>3. /\ FieldKeys(r) = 1 .. dts[r].varKeyInc
            /\ \A k \in FieldKeys(r) : fields[<<r[1], r[2], r[3], k>>] = Byte
        BY <2>2, <3>1 DEF IInv, StringsContiguous
      <3>4. FieldKeys(r)' = 1 .. dts'[r].varKeyInc
        BY <3>1, <3>3
      <3>5. ASSUME NEW k \in FieldKeys(r)
            PROVE  fields'[<<r[1], r[2], r[3], k>>] = Byte
        BY <1>5, <3>2, <3>3
      <3> QED
        BY <3>1, <3>4, <3>5
    <2> QED
      BY <1>6, <2>2 DEF StringsContiguous
  <1> QED
    BY <1>1, <1>7, <1>8, <1>9 DEF IInv

-----------------------------------------------------------------------------
(* Removals: what is left satisfies the invariant if whole subtrees went.   *)
LEMMA InvRestricted ==
  ASSUME IInv, TreeTypeOK', connKeyInc' = connKeyInc,
         NEW C \in SUBSET DOMAIN conns, conns' = Restrict(conns, C),
         NEW G \in SUBSET DOMAIN wgs, wgs' = Restrict(wgs, G),
         NEW P \in SUBSET DOMAIN dts, dts' = Restrict(dts, P),
         NEW Q \in SUBSET DOMAIN fields, fields' = Restrict(fields, Q),
         \A g \in G : g[1] \in C,
         \A p \in P : GroupOf(p) \in G,
         \A q \in Q : DataSetOf(q) \in P,
         \A q \in DOMAIN fields \ Q : DataSetOf(q) \in P => ~ dts[DataSetOf(q)].isString
  PROVE  IInv'
  <1>1. /\ DOMAIN conns' = C /\ \A c \in C : conns'[c] = conns[c]
        /\ DOMAIN wgs' = G /\ \A g \in G : wgs'[g] = wgs[g]
        /\ DOMAIN dts' = P /\ \A p \in P : dts'[p] = dts[p]
        /\ DOMAIN fields' = Q /\ \A q \in Q : fields'[q] = fields[q]
    BY DEF Restrict
  <1>2. ParentsExist'
    BY <1>1 DEF ParentsExist
  <1>3. KeysBelowCounter'
    BY <1>1 DEF IInv, KeysBelowCounter
  <1>4. StringsContiguous'
    <2> SUFFICES ASSUME NEW p \in P, dts[p].isString
                 PROVE  /\ FieldKeys(p)' = 1 .. dts[p].varKeyInc
                        /\ \A f \in FieldKeys(p)' : fields'[<<p[1], p[2], p[3], f>>] = Byte
      BY <1>1 DEF StringsContiguous
    <2>1. \A q \in DOMAIN fields : DataSetOf(q) = p => q \in Q
      OBVIOUS
    <2>2. FieldKeys(p)' = FieldKeys(p)
      BY <1>1, <2>1 DEF FieldKeys
    <2>3. \A f \in FieldKeys(p) : <<p[1], p[2], p[3], f>> \in Q
      <3> SUFFICES ASSUME NEW f \in FieldKeys(p)
                   PROVE  <<p[1], p[2], p[3], f>> \in Q
        OBVIOUS
      <3>1. <<p[1], p[2], p[3], f>> \in DOMAIN fields
        BY FieldPath DEF IInv
      <3>2. DataSetOf(<<p[1], p[2], p[3], f>>) = p
        BY DEF DataSetOf, IInv, TreeTypeOK
      <3> QED
        BY <2>1, <3>1, <3>2
    <2>4. /\ FieldKeys(p) = 1 .. dts[p].varKeyInc
          /\ \A f \in FieldKeys(p) : fields[<<p[1], p[2], p[3], f>>] = Byte
      BY DEF IInv, StringsContiguous
    <2>5. ASSUME NEW f \in FieldKeys(p)
          PROVE  fields'[<<p[1], p[2], p[3], f>>] = Byte
      BY <1>1, <2>3, <2>4
    <2> QED
      BY <2>2, <2>4, <2>5
  <1> QED
    BY <1>2, <1>3, <1>4 DEF IInv

LEMMA InvRemoveField ==
  ASSUME IInv, NEW p \in DOMAIN dts, NEW f \in FieldKeys(p), RemoveField(p, f)
  PROVE  IInv'
  <1> DEFINE C == DOMAIN conns
             G == DOMAIN wgs
             P == DOMAIN dts
             Q == DOMAIN fields \ {<<p[1], p[2], p[3], f>>}
  <1>1. TreeTypeOK' /\ connKeyInc' = connKeyInc
    BY TypeRemoveData DEF IInv, RemoveField, RemoveData
  <1>2. /\ conns' = Restrict(conns, C) /\ C \subseteq DOMAIN conns
        /\ wgs' = Restrict(wgs, G) /\ G \subseteq DOMAIN wgs
        /\ dts' = Restrict(dts, P) /\ P \subseteq DOMAIN dts
        /\ fields' = Restrict(fields, Q) /\ Q \subseteq DOMAIN fields
    BY TypeUnchangedLevels DEF IInv, RemoveField, RemoveData
  <1>3. /\ \A g \in G : g[1] \in C
        /\ \A r \in P : GroupOf(r) \in G
        /\ \A q \in Q : DataSetOf(q) \in P
    BY DEF IInv, ParentsExist
  <1>4. \A q \in DOMAIN fields \ Q : DataSetOf(q) \in P => ~ dts[DataSetOf(q)].isString
    BY DEF DataSetOf, IInv, TreeTypeOK, RemoveField
  <1> HIDE DEF C, G, P, Q
  <1> QED
    BY <1>1, <1>2, <1>3, <1>4, InvRestricted

LEMMA InvRemoveDataset ==
  ASSUME IInv, NEW p \in DOMAIN dts, RemoveDataset(p)
  PROVE  IInv'
  <1> DEFINE C == DOMAIN conns
             G == DOMAIN wgs
             P == DOMAIN dts \ {p}
             Q == {q \in DOMAIN fields : DataSetOf(q) # p}
  <1>1. TreeTypeOK' /\ connKeyInc' = connKeyInc
    BY TypeRemoveDataset DEF IInv, RemoveDataset
  <1>2. /\ conns' = Restrict(conns, C) /\ C \subseteq DOMAIN conns
        /\ wgs' = Restrict(wgs, G) /\ G \subseteq DOMAIN wgs
        /\ dts' = Restrict(dts, P) /\ P \subseteq DOMAIN dts
        /\ fields' = Restrict(fields, Q) /\ Q \subseteq DOMAIN fields
    BY TypeUnchangedLevels DEF IInv, RemoveDataset
  <1>3. /\ \A g \in G : g[1] \in C
        /\ \A r \in P : GroupOf(r) \in G
        /\ \A q \in Q : DataSetOf(q) \in P
    BY DEF IInv, ParentsExist
  <1>4. \A q \in DOMAIN fields \ Q : DataSetOf(q) \in P => ~ dts[DataSetOf(q)].isString
    BY DEF IInv, ParentsExist
  <1> HIDE DEF C, G, P, Q
  <1> QED
    BY <1>1, <1>2, <1>3, <1>4, InvRestricted

LEMMA InvRemoveWritergroup ==
  ASSUME IInv, NEW g \in DOMAIN wgs, RemoveWritergroup(g)
  PROVE  IInv'
  <1> DEFINE C == DOMAIN conns
             G == DOMAIN wgs \ {g}
             P == {q \in DOMAIN dts : GroupOf(q) # g}
             Q == {q \in DOMAIN fields : GroupOf(q) # g}
  <1>1. TreeTypeOK' /\ connKeyInc' = connKeyInc
    BY TypeRemoveWritergroup DEF IInv, RemoveWritergroup
  <1>2. /\ conns' = Restrict(conns, C) /\ C \subseteq DOMAIN conns
        /\ wgs' = Restrict(wgs, G) /\ G \subseteq DOMAIN wgs
        /\ dts' = Restrict(dts, P) /\ P \subseteq DOMAIN dts
        /\ fields' = Restrict(fields, Q) /\ Q \subseteq DOMAIN fields
    BY TypeUnchangedLevels DEF IInv, RemoveWritergroup
  <1>3. /\ \A h \in G : h[1] \in C
        /\ \A p \in P : GroupOf(p) \in G
        /\ \A q \in Q : DataSetOf(q) \in P
    BY DEF IInv, ParentsExist, GroupOf, DataSetOf
  <1>4. \A q \in DOMAIN fields \ Q : DataSetOf(q) \in P => ~ dts[DataSetOf(q)].isString
    BY DEF GroupOf, DataSetOf
  <1> HIDE DEF C, G, P, Q
  <1> QED
    BY <1>1, <1>2, <1>3, <1>4, InvRestricted

LEMMA InvDeleteConnection ==
  ASSUME IInv, NEW c \in DOMAIN conns, DeleteConnection(c)
  PROVE  IInv'
  <1> DEFINE C == DOMAIN conns \ {c}
             G == {q \in DOMAIN wgs : q[1] # c}
             P == {q \in DOMAIN dts : q[1] # c}
             Q == {q \in DOMAIN fields : q[1] # c}
  <1>1. TreeTypeOK' /\ connKeyInc' = connKeyInc
    BY TypeDeleteConnection DEF IInv, DeleteConnection
  <1>2. /\ conns' = Restrict(conns, C) /\ C \subseteq DOMAIN conns
        /\ wgs' = Restrict(wgs, G) /\ G \subseteq DOMAIN wgs
        /\ dts' = Restrict(dts, P) /\ P \subseteq DOMAIN dts
        /\ fields' = Restrict(fields, Q) /\ Q \subseteq DOMAIN fields
    BY DEF IInv, DeleteConnection
  <1>3. /\ \A g \in G : g[1] \in C
        /\ \A p \in P : GroupOf(p) \in G
        /\ \A q \in Q : DataSetOf(q) \in P
    BY DEF IInv, ParentsExist, GroupOf, DataSetOf
  <1>4. \A q \in DOMAIN fields \ Q : DataSetOf(q) \in P => ~ dts[DataSetOf(q)].isString
    BY DEF DataSetOf
  <1> HIDE DEF C, G, P, Q
  <1> QED
    BY <1>1, <1>2, <1>3, <1>4, InvRestricted

LEMMA InvDeleteAll ==
  ASSUME DeleteAllConnections
  PROVE  IInv'
  BY TypeDeleteAll DEF DeleteAllConnections, IInv, ParentsExist, KeysBelowCounter, StringsContiguous

-----------------------------------------------------------------------------
(* writeString: of a string without gaps, exactly the Fields 1..n are left. *)
LEMMA StringSize ==
  ASSUME IInv, NEW p \in DOMAIN dts, dts[p].isString
  PROVE  /\ dts[p].varKeyInc \in Nat
         /\ Cardinality(FieldKeys(p)) = dts[p].varKeyInc
  <1>1. dts[p].varKeyInc \in Nat
    BY DEF IInv, TreeTypeOK, Key
  <1>2. FieldKeys(p) = 1 .. dts[p].varKeyInc
    BY DEF IInv, StringsContiguous
  <1>3. Cardinality(1 .. dts[p].varKeyInc) = dts[p].varKeyInc
    BY <1>1, FS_Interval
  <1> QED
    BY <1>1, <1>2, <1>3

LEMMA StringKeys ==
  ASSUME IInv, NEW p \in DOMAIN dts, dts[p].isString, NEW n \in Nat
  PROVE  /\ Shorter(p, n) = n
         /\ {f \in FieldKeys(p) \cup (dts[p].varKeyInc + 1 .. Longer(p, n)) :
               f <= Shorter(p, n)} = 1 .. n
  <1> DEFINE inc == dts[p].varKeyInc
  <1>1. inc \in Nat
    BY StringSize
  <1>2. Longer(p, n) = IF n > inc THEN n ELSE inc
    BY <1>1, StringSize DEF Longer
  <1>3. Shorter(p, n) = n
    BY <1>1, <1>2 DEF Shorter
  <1>4. FieldKeys(p) = 1 .. inc
    BY DEF IInv, StringsContiguous
  <1>5. {f \in (1 .. inc) \cup (inc + 1 .. Longer(p, n)) : f <= n} = 1 .. n
    BY <1>1, <1>2
  <1> QED
    BY <1>3, <1>4, <1>5

LEMMA InvWriteString ==
  ASSUME IInv, NEW p \in DOMAIN dts, NEW n \in 0 .. MaxString, WriteString(p, n)
  PROVE  IInv'
  <1> DEFINE path(f) == <<p[1], p[2], p[3], f>>
             other == {q \in DOMAIN fields : DataSetOf(q) # p}
             written == {path(f) : f \in 1 .. n}
  <1>1. n \in Nat /\ n \in Key /\ 1 .. n \subseteq Key
    BY ConstantsOK, Width DEF Key
  <1>2. p = <<p[1], p[2], p[3]>> /\ p[1] \in Key /\ p[2] \in Key /\ p[3] \in Key
    BY DEF IInv, TreeTypeOK
  <1>3. dts[p].isString
    BY DEF WriteString
  <1>4. dts' = [dts EXCEPT ![p].varKeyInc = n]
    <2>1. Shorter(p, n) = n
      BY <1>1, <1>3, StringKeys
    <2> QED
      BY <2>1 DEF WriteString
  <1>5. fields' = [q \in other \cup written |->
                     IF q \in DOMAIN fields THEN fields[q] ELSE Byte]
    BY <1>1, <1>3, StringKeys DEF WriteString, Key
  <1>6. /\ DOMAIN dts' = DOMAIN dts
        /\ dts'[p] = [dts[p] EXCEPT !.varKeyInc = n]
        /\ dts'[p].varKeyInc = n /\ dts'[p].isString
        /\ \A r \in DOMAIN dts : r # p => dts'[r] = dts[r]
    BY <1>3, <1>4 DEF IInv, TreeTypeOK
  <1>7. /\ DOMAIN fields' = other \cup written
        /\ \A q \in other : fields'[q] = fields[q]
    BY <1>5
  <1>8. \A q \in written : DataSetOf(q) = p /\ q \in Key \X Key \X Key \X Key /\ q[4] \in 1 .. n
    BY <1>1, <1>2 DEF DataSetOf
  <1>9. UNCHANGED <<connKeyInc, conns, wgs>>
    BY DEF WriteString
  <1> HIDE DEF written
  <1>10. TreeTypeOK'
    <2>1. Level(dts', Key \X Key \X Key, DataSetData)
      BY <1>1, <1>4 DEF IInv, TreeTypeOK, Level, DataSetData
    <2>2. Level(fields', Key \X Key \X Key \X Key, DataType)
      <3>1. \A q \in DOMAIN fields : q \in Key \X Key \X Key \X Key /\ fields[q] \in DataType
        BY DEF IInv, TreeTypeOK
      <3> QED
        BY <1>5, <1>8, <3>1, ConstantsOK DEF Level
    <2> QED
      BY <1>9, <2>1, <2>2 DEF IInv, TreeTypeOK, Level, DataSetData
  <1>11. ParentsExist'
    <2>1. \A q \in DOMAIN fields' : DataSetOf(q) \in DOMAIN dts'
      BY <1>6, <1>7, <1>8 DEF IInv, ParentsExist
    <2> QED
      BY <1>6, <1>9, <2>1 DEF IInv, ParentsExist
  <1>12. KeysBelowCounter'
    <2>1. ASSUME NEW q \in DOMAIN fields'
          PROVE  q[4] <= dts'[DataSetOf(q)].varKeyInc
      <3>1. CASE q \in written
        <4>1. q[4] <= n /\ DataSetOf(q) = p
          BY <1>1, <1>8, <3>1
        <4> QED
          BY <1>6, <4>1
      <3>2. CASE q \in other
        BY <1>6, <3>2 DEF IInv, KeysBelowCounter, ParentsExist
      <3> QED
        BY <1>7, <3>1, <3>2
    <2> QED
      BY <1>6, <1>9, <2>1 DEF IInv, KeysBelowCounter
  <1>13. StringsContiguous'
    <2>1. FieldKeys(p)' = 1 .. n
      <3>1. ASSUME NEW q \in DOMAIN fields', DataSetOf(q) = p
            PROVE  q[4] \in 1 .. n
        BY <1>7, <1>8, <3>1
      <3>2. ASSUME NEW f \in 1 .. n
            PROVE  path(f) \in DOMAIN fields' /\ DataSetOf(path(f)) = p /\ path(f)[4] = f
        BY <1>2, <1>7 DEF written, DataSetOf
      <3> HIDE DEF path
      <3> QED
        BY <3>1, <3>2 DEF FieldKeys
    <2>2. ASSUME NEW f \in 1 .. n
          PROVE  fields'[path(f)] = Byte
      <3>1. path(f) \in written
        BY DEF written
      <3>2. CASE path(f) \in DOMAIN fields
        <4>1. f \in FieldKeys(p)
          BY <3>2, PathField DEF IInv
        <4>2. fields[path(f)] = Byte
          BY <1>3, <4>1 DEF IInv, StringsContiguous
        <4> QED
          BY <1>5, <3>1, <3>2, <4>2
      <3>3. CASE path(f) \notin DOMAIN fields
        BY <1>5, <3>1, <3>3
      <3> QED
        BY <3>2, <3>3
    <2>3. ASSUME NEW r \in DOMAIN dts, r # p
          PROVE  FieldKeys(r)' = FieldKeys(r)
      BY <1>7, <1>8, <2>3 DEF FieldKeys
    <2>4. ASSUME NEW r \in DOMAIN dts, r # p, dts[r].isString
          PROVE  /\ FieldKeys(r)' = 1 .. dts'[r].varKeyInc
                 /\ \A f \in FieldKeys(r)' : fields'[<<r[1], r[2], r[3], f>>] = Byte
      <3>1. FieldKeys(r)' = FieldKeys(r) /\ dts'[r] = dts[r]
        BY <1>6, <2>3, <2>4
      <3>2. /\ FieldKeys(r) = 1 .. dts[r].varKeyInc
            /\ \A f \in FieldKeys(r) : fields[<<r[1], r[2], r[3], f>>] = Byte
        BY <2>4 DEF IInv, StringsContiguous
      <3>3. ASSUME NEW f \in FieldKeys(r)
            PROVE  fields'[<<r[1], r[2], r[3], f>>] = Byte
        <4>1. <<r[1], r[2], r[3], f>> \in DOMAIN fields
          BY FieldPath DEF IInv
        <4>2. DataSetOf(<<r[1], r[2], r[3], f>>) # p
          BY <2>4 DEF DataSetOf, IInv, TreeTypeOK
        <4> QED
          BY <1>7, <3>2, <4>1, <4>2
      <3>4. FieldKeys(r)' = 1 .. dts'[r].varKeyInc
        BY <3>1, <3>2
      <3> QED
        BY <3>1, <3>3, <3>4
    <2>5. \A f \in FieldKeys(p)' : fields'[<<p[1], p[2], p[3], f>>] = Byte
      BY <2>1, <2>2
    <2> QED
      BY <1>6, <2>1, <2>4, <2>5 DEF StringsContiguous
  <1> QED
    BY <1>10, <1>11, <1>12, <1>13 DEF IInv

-----------------------------------------------------------------------------
(* on, off and intv leave everything the invariant speaks of alone.         *)
LEMMA InvGroupData ==
  ASSUME IInv, TreeTypeOK', UNCHANGED <<connKeyInc, conns, dts, fields>>,
         DOMAIN wgs' = DOMAIN wgs,
         \A g \in DOMAIN wgs : wgs'[g].dtsKeyInc = wgs[g].dtsKeyInc
  PROVE  IInv'
  <1>1. ParentsExist'
    BY DEF IInv, ParentsExist
  <1>2. KeysBelowCounter'
    BY DEF IInv, KeysBelowCounter, ParentsExist
  <1>3. StringsContiguous'
    BY DEF IInv, StringsContiguous, FieldKeys
  <1> QED
    BY <1>1, <1>2, <1>3 DEF IInv

LEMMA InvSetEnabled ==
  ASSUME IInv, NEW S, NEW on \in BOOLEAN, SetEnabled(S, on)
  PROVE  IInv'
  <1>1. TreeTypeOK'
    BY TypeSetEnabled DEF IInv
  <1>2. /\ DOMAIN wgs' = DOMAIN wgs
        /\ \A g \in DOMAIN wgs : wgs'[g].dtsKeyInc = wgs[g].dtsKeyInc
    BY DEF SetEnabled, IInv, TreeTypeOK
  <1> QED
    BY <1>1, <1>2, InvGroupData DEF SetEnabled

LEMMA InvUpdateInterval ==
  ASSUME IInv, NEW S, NEW i \in Interval, UpdateInterval(S, i)
  PROVE  IInv'
  <1>1. TreeTypeOK'
    BY TypeUpdateInterval DEF IInv
  <1>2. /\ DOMAIN wgs' = DOMAIN wgs
        /\ \A g \in DOMAIN wgs : wgs'[g].dtsKeyInc = wgs[g].dtsKeyInc
    BY DEF UpdateInterval, IInv, TreeTypeOK
  <1> QED
    BY <1>1, <1>2, InvGroupData DEF UpdateInterval

-----------------------------------------------------------------------------
(* Every call of the console keeps the invariant.                           *)
LEMMA InvNext == IInv /\ [TreeNext]_treeVars => IInv'
  <1> SUFFICES ASSUME IInv, [TreeNext]_treeVars
               PROVE  IInv'
    OBVIOUS
  <1>1. ASSUME NEW port \in Port, Room(connKeyInc, 1), CreateConnection(port)
        PROVE  IInv'
    BY <1>1, InvCreateConnection
  <1>2. ASSUME NEW c \in DOMAIN conns, Room(conns[c].wgKeyInc, 1), AddWritergroup(c)
        PROVE  IInv'
    BY <1>2, InvAddWritergroup
  <1>3. ASSUME NEW c \in DOMAIN conns, DeleteConnection(c)
        PROVE  IInv'
    BY <1>3, InvDeleteConnection
  <1>4. ASSUME NEW g \in DOMAIN wgs, Room(wgs[g].dtsKeyInc, 1),
               NEW isString \in BOOLEAN, AddDataset(g, isString)
        PROVE  IInv'
    BY <1>4, InvAddDataset
  <1>5. ASSUME NEW g \in DOMAIN wgs, RemoveWritergroup(g)
        PROVE  IInv'
    BY <1>5, InvRemoveWritergroup
  <1>6. ASSUME NEW p \in DOMAIN dts, Room(dts[p].varKeyInc, 1),
               NEW type \in DataType, AddField(p, type)
        PROVE  IInv'
    BY <1>6, InvAddField
  <1>7. ASSUME NEW p \in DOMAIN dts, NEW f \in FieldKeys(p), RemoveField(p, f)
        PROVE  IInv'
    BY <1>7, InvRemoveField
  <1>8. ASSUME NEW p \in DOMAIN dts, NEW n \in 0 .. MaxString, WriteString(p, n)
        PROVE  IInv'
    BY <1>8, InvWriteString
  <1>9. ASSUME NEW p \in DOMAIN dts, RemoveDataset(p)
        PROVE  IInv'
    BY <1>9, InvRemoveDataset
  <1>10. CASE DeleteAllConnections
    BY <1>10, InvDeleteAll
  <1>11. ASSUME NEW S, NEW on \in BOOLEAN, SetEnabled(S, on)
         PROVE  IInv'
    BY <1>11, InvSetEnabled
  <1>12. ASSUME NEW S, NEW i \in Interval, UpdateInterval(S, i)
         PROVE  IInv'
    BY <1>12, InvUpdateInterval
  <1>13. CASE UNCHANGED treeVars
    BY <1>13 DEF treeVars, IInv, TreeTypeOK, ParentsExist, KeysBelowCounter,
                 StringsContiguous, FieldKeys
  <1> QED
    BY <1>1, <1>2, <1>3, <1>4, <1>5, <1>6, <1>7, <1>8, <1>9, <1>10, <1>11, <1>12, <1>13
       DEF TreeNext

LEMMA Invariance == TreeSpec => []IInv
  BY InvInit, InvNext, PTL DEF TreeSpec

(* Every variable of the tree keeps its type: no counter, key or record of   *)
(* the nested maps (TreeTrunk.h, BranchConnection.h, BranchWriterGroup.h,    *)
(* BranchDataSet.h) ever leaves the UInt16 range or its shape.               *)
THEOREM TypeCorrect == TreeSpec => []TreeTypeOK
  BY Invariance, PTL DEF IInv

(* No node outlives its parent, whatever the console asks for: what the      *)
(* cascades of deleteConnection, removeWritergroup and removeDataset owe.    *)
THEOREM NoOrphans == TreeSpec => []ParentsExist
  BY Invariance, PTL DEF IInv

(* No key is ahead of its counter, so "already exists" is never reported and *)
(* the removal loops from 1 to the counter reach every node.                 *)
THEOREM CountersAhead == TreeSpec => []KeysBelowCounter
  BY Invariance, PTL DEF IInv

(* A string keeps its Fields without a gap over every add, removal and       *)
(* rewrite, which is what the last loop of writeString needs to end.         *)
THEOREM StringsWhole == TreeSpec => []StringsContiguous
  BY Invariance, PTL DEF IInv

-----------------------------------------------------------------------------
(* Keys are not given out again.  With the invariant, a counter is a number *)
(* and the key an add takes is its successor.                               *)
KeysGoUp == NewKeysAbove /\ CountersKept

LEMMA CountersNat ==
  ASSUME IInv
  PROVE  /\ connKeyInc \in Nat
         /\ \A c \in DOMAIN conns : conns[c].wgKeyInc \in Nat
         /\ \A g \in DOMAIN wgs : wgs[g].dtsKeyInc \in Nat
         /\ \A p \in DOMAIN dts : dts[p].varKeyInc \in Nat
  BY DEF IInv, TreeTypeOK, Key

LEMMA KeysCreateConnection ==
  ASSUME IInv, Room(connKeyInc, 1), NEW port \in Port, CreateConnection(port)
  PROVE  KeysGoUp
  <1>1. Inc(connKeyInc) = connKeyInc + 1
    BY IncNext DEF IInv, TreeTypeOK, Room
  <1>2. /\ DOMAIN conns' = DOMAIN conns \cup {connKeyInc + 1}
        /\ connKeyInc' = connKeyInc + 1
        /\ \A c \in DOMAIN conns : conns'[c] = conns[c]
    BY <1>1 DEF CreateConnection, PutNew, Put
  <1>3. NewKeysAbove
    BY <1>2, CountersNat DEF NewKeysAbove, CreateConnection
  <1>4. CountersKept
    BY <1>2, CountersNat DEF CountersKept, CreateConnection
  <1> QED
    BY <1>3, <1>4 DEF KeysGoUp

LEMMA KeysAddWritergroup ==
  ASSUME IInv, NEW c \in DOMAIN conns, Room(conns[c].wgKeyInc, 1), AddWritergroup(c)
  PROVE  KeysGoUp
  <1> DEFINE w == conns[c].wgKeyInc + 1
  <1>1. Inc(conns[c].wgKeyInc) = w
    BY IncNext DEF IInv, TreeTypeOK, Room
  <1>2. /\ DOMAIN wgs' = DOMAIN wgs \cup {<<c, w>>}
        /\ \A g \in DOMAIN wgs : wgs'[g] = wgs[g]
    BY <1>1 DEF AddWritergroup, PutNew, Put
  <1>3. /\ DOMAIN conns' = DOMAIN conns
        /\ conns'[c].wgKeyInc = w
        /\ \A d \in DOMAIN conns : d # c => conns'[d] = conns[d]
    BY <1>1 DEF AddWritergroup, IInv, TreeTypeOK
  <1>4. NewKeysAbove
    BY <1>2, <1>3, CountersNat DEF NewKeysAbove, AddWritergroup
  <1>5. CountersKept
    <2>1. UNCHANGED <<connKeyInc, dts, fields>>
      BY DEF AddWritergroup
    <2>2. \A d \in DOMAIN conns : conns[d].wgKeyInc <= conns'[d].wgKeyInc
      BY <1>3, CountersNat
    <2> QED
      BY <1>2, <2>1, <2>2, CountersNat DEF CountersKept
  <1> QED
    BY <1>4, <1>5 DEF KeysGoUp

LEMMA KeysAddDataset ==
  ASSUME IInv, NEW g \in DOMAIN wgs, Room(wgs[g].dtsKeyInc, 1),
         NEW isString \in BOOLEAN, AddDataset(g, isString)
  PROVE  KeysGoUp
  <1> DEFINE d == wgs[g].dtsKeyInc + 1
             p == <<g[1], g[2], d>>
  <1>1. Inc(wgs[g].dtsKeyInc) = d
    BY IncNext DEF IInv, TreeTypeOK, Room
  <1>2. GroupOf(p) = g /\ p[3] = d
    BY DEF IInv, TreeTypeOK, GroupOf
  <1>3. /\ DOMAIN dts' = DOMAIN dts \cup {p}
        /\ \A r \in DOMAIN dts : dts'[r] = dts[r]
    BY <1>1 DEF AddDataset, PutNew, Put
  <1>4. /\ DOMAIN wgs' = DOMAIN wgs
        /\ wgs'[g].dtsKeyInc = d
        /\ \A h \in DOMAIN wgs : h # g => wgs'[h] = wgs[h]
    BY <1>1 DEF AddDataset, IInv, TreeTypeOK
  <1>5. UNCHANGED <<connKeyInc, conns, fields>>
    BY DEF AddDataset
  <1>6. d > wgs[g].dtsKeyInc
    BY CountersNat
  <1> HIDE DEF p
  <1>7. NewKeysAbove
    BY <1>2, <1>3, <1>4, <1>5, <1>6 DEF NewKeysAbove
  <1>8. CountersKept
    BY <1>3, <1>4, <1>5, CountersNat DEF CountersKept
  <1> QED
    BY <1>7, <1>8 DEF KeysGoUp

LEMMA KeysAddField ==
  ASSUME IInv, NEW p \in DOMAIN dts, Room(dts[p].varKeyInc, 1),
         NEW type \in DataType, AddField(p, type)
  PROVE  KeysGoUp
  <1> DEFINE f == dts[p].varKeyInc + 1
             q == <<p[1], p[2], p[3], f>>
  <1>1. Inc(dts[p].varKeyInc) = f
    BY IncNext DEF IInv, TreeTypeOK, Room
  <1>2. DataSetOf(q) = p /\ q[4] = f
    BY DEF IInv, TreeTypeOK, DataSetOf
  <1>3. DOMAIN fields' = DOMAIN fields \cup {q}
    BY <1>1 DEF AddField, AddData, PutNew, Put
  <1>4. /\ DOMAIN dts' = DOMAIN dts
        /\ dts'[p].varKeyInc = f
        /\ \A r \in DOMAIN dts : r # p => dts'[r] = dts[r]
    BY <1>1 DEF AddField, AddData, IInv, TreeTypeOK
  <1>5. UNCHANGED <<connKeyInc, conns, wgs>>
    BY DEF AddField, AddData
  <1>6. f > dts[p].varKeyInc
    BY CountersNat
  <1> HIDE DEF q
  <1>7. NewKeysAbove
    BY <1>2, <1>3, <1>4, <1>5, <1>6 DEF NewKeysAbove
  <1>8. CountersKept
    BY <1>4, <1>5, CountersNat DEF CountersKept
  <1> QED
    BY <1>7, <1>8 DEF KeysGoUp

\* A removal takes nodes away and leaves the counters of the others alone.
LEMMA KeysRestricted ==
  ASSUME IInv, connKeyInc' = connKeyInc,
         DOMAIN conns' \subseteq DOMAIN conns, \A c \in DOMAIN conns' : conns'[c] = conns[c],
         DOMAIN wgs' \subseteq DOMAIN wgs, \A g \in DOMAIN wgs' : wgs'[g] = wgs[g],
         DOMAIN dts' \subseteq DOMAIN dts, \A p \in DOMAIN dts' : dts'[p] = dts[p],
         DOMAIN fields' \subseteq DOMAIN fields
  PROVE  KeysGoUp
  <1>1. NewKeysAbove
    BY DEF NewKeysAbove
  <1>2. CountersKept
    BY CountersNat DEF CountersKept
  <1> QED
    BY <1>1, <1>2 DEF KeysGoUp

LEMMA KeysRemoveField ==
  ASSUME IInv, NEW p \in DOMAIN dts, NEW f \in FieldKeys(p), RemoveField(p, f)
  PROVE  KeysGoUp
  BY KeysRestricted DEF RemoveField, RemoveData, Restrict

LEMMA KeysRemoveDataset ==
  ASSUME IInv, NEW p \in DOMAIN dts, RemoveDataset(p)
  PROVE  KeysGoUp
  BY KeysRestricted DEF RemoveDataset, Restrict

LEMMA KeysRemoveWritergroup ==
  ASSUME IInv, NEW g \in DOMAIN wgs, RemoveWritergroup(g)
  PROVE  KeysGoUp
  BY KeysRestricted DEF RemoveWritergroup, Restrict

LEMMA KeysDeleteConnection ==
  ASSUME IInv, NEW c \in DOMAIN conns, DeleteConnection(c)
  PROVE  KeysGoUp
  BY KeysRestricted DEF DeleteConnection, Restrict

LEMMA KeysDeleteAll ==
  ASSUME DeleteAllConnections
  PROVE  KeysGoUp
  BY DEF DeleteAllConnections, KeysGoUp, NewKeysAbove, CountersKept

LEMMA KeysWriteString ==
  ASSUME IInv, NEW p \in DOMAIN dts, NEW n \in 0 .. MaxString, WriteString(p, n)
  PROVE  KeysGoUp
  <1> DEFINE inc == dts[p].varKeyInc
             other == {q \in DOMAIN fields : DataSetOf(q) # p}
             written == {<<p[1], p[2], p[3], f>> : f \in 1 .. n}
  <1>1. n \in Nat /\ inc \in Nat
    BY ConstantsOK, CountersNat
  <1>2. dts[p].isString
    BY DEF WriteString
  <1>3. DOMAIN fields' = other \cup written
    <2>1. {f \in FieldKeys(p) \cup (inc + 1 .. Longer(p, n)) : f <= Shorter(p, n)} = 1 .. n
      BY <1>1, <1>2, StringKeys
    <2> QED
      BY <2>1 DEF WriteString
  <1>4. /\ DOMAIN dts' = DOMAIN dts
        /\ \A r \in DOMAIN dts : r # p => dts'[r] = dts[r]
    BY DEF WriteString, IInv, TreeTypeOK
  <1>5. UNCHANGED <<connKeyInc, conns, wgs>>
    BY DEF WriteString
  <1>6. ASSUME NEW q \in written \ DOMAIN fields
        PROVE  DataSetOf(q) = p /\ q[4] > inc
    <2>1. PICK f \in 1 .. n : q = <<p[1], p[2], p[3], f>>
      OBVIOUS
    <2>2. FieldKeys(p) = 1 .. inc
      BY <1>2 DEF IInv, StringsContiguous
    <2>3. f \notin 1 .. inc
      <3> SUFFICES ASSUME f \in FieldKeys(p) PROVE FALSE
        BY <2>2
      <3>1. q \in DOMAIN fields
        BY <2>1, FieldPath DEF IInv
      <3> QED
        BY <3>1
    <2> QED
      BY <1>1, <2>1, <2>3 DEF DataSetOf, IInv, TreeTypeOK
  <1> HIDE DEF written
  <1>7. NewKeysAbove
    BY <1>3, <1>4, <1>5, <1>6 DEF NewKeysAbove
  <1>8. CountersKept
    BY <1>2, <1>4, <1>5, CountersNat DEF CountersKept
  <1> QED
    BY <1>7, <1>8 DEF KeysGoUp

LEMMA KeysGroupData ==
  ASSUME IInv, NEW S,
         \/ \E on \in BOOLEAN : SetEnabled(S, on)
         \/ \E i \in Interval : UpdateInterval(S, i)
  PROVE  KeysGoUp
  <1>1. UNCHANGED <<connKeyInc, conns, dts, fields>>
    BY DEF SetEnabled, UpdateInterval
  <1>2. /\ DOMAIN wgs' = DOMAIN wgs
        /\ \A g \in DOMAIN wgs : wgs'[g].dtsKeyInc = wgs[g].dtsKeyInc
    BY DEF SetEnabled, UpdateInterval, IInv, TreeTypeOK
  <1>3. NewKeysAbove
    BY <1>1, <1>2 DEF NewKeysAbove
  <1>4. CountersKept
    BY <1>1, <1>2, CountersNat DEF CountersKept
  <1> QED
    BY <1>3, <1>4 DEF KeysGoUp

LEMMA KeysNext == IInv /\ TreeNext => KeysGoUp
  BY KeysCreateConnection, KeysAddWritergroup, KeysAddDataset, KeysAddField,
     KeysRemoveField, KeysRemoveDataset, KeysRemoveWritergroup, KeysDeleteConnection,
     KeysDeleteAll, KeysWriteString, KeysGroupData DEF TreeNext

(* No key the user knows comes to denote another node, as long as its parent *)
(* lives: createConnection, addWritergroup, addDataset and addData only hand *)
(* out keys above the counter, and no operation but rm all and a shorter     *)
(* string takes a counter back.                                              *)
THEOREM NoReissue == TreeSpec => KeysNotReissued
  <1>1. IInv /\ [TreeNext]_treeVars => [NewKeysAbove /\ CountersKept]_treeVars
    BY KeysNext DEF KeysGoUp
  <1> QED
    BY Invariance, <1>1, PTL DEF TreeSpec, KeysNotReissued
-----------------------------------------------------------------------------
(* Keys start at 1, the first key above a counter, so a key that is 0 means *)
(* that there is no node.                                                   *)
KeysFromOne ==
  /\ \A c \in DOMAIN conns : c >= 1
  /\ \A g \in DOMAIN wgs : g[2] >= 1
  /\ \A p \in DOMAIN dts : p[3] >= 1
  /\ \A q \in DOMAIN fields : q[4] >= 1

\* New nodes are made below nodes that were there.
OldParents ==
  /\ \A g \in DOMAIN wgs' \ DOMAIN wgs : g[1] \in DOMAIN conns
  /\ \A p \in DOMAIN dts' \ DOMAIN dts : GroupOf(p) \in DOMAIN wgs
  /\ \A q \in DOMAIN fields' \ DOMAIN fields : DataSetOf(q) \in DOMAIN dts

LEMMA NewBelowOld ==
  ASSUME IInv, TreeNext
  PROVE  OldParents
  <1>1. ASSUME NEW port \in Port, CreateConnection(port)
        PROVE  OldParents
    BY <1>1 DEF CreateConnection, OldParents
  <1>2. ASSUME NEW c \in DOMAIN conns, AddWritergroup(c)
        PROVE  OldParents
    BY <1>2 DEF AddWritergroup, PutNew, Put, OldParents
  <1>3. ASSUME NEW g \in DOMAIN wgs, NEW isString \in BOOLEAN, AddDataset(g, isString)
        PROVE  OldParents
    <2>1. g = <<g[1], g[2]>>
      BY DEF IInv, TreeTypeOK
    <2>2. DOMAIN dts' \subseteq DOMAIN dts \cup {<<g[1], g[2], Inc(wgs[g].dtsKeyInc)>>}
      BY <1>3 DEF AddDataset, PutNew, Put
    <2>3. UNCHANGED <<conns, fields>> /\ DOMAIN wgs' = DOMAIN wgs
      BY <1>3 DEF AddDataset
    <2> QED
      BY <2>1, <2>2, <2>3 DEF GroupOf, OldParents
  <1>4. ASSUME NEW p \in DOMAIN dts, NEW type \in DataType, AddField(p, type)
        PROVE  OldParents
    <2>1. p = <<p[1], p[2], p[3]>>
      BY DEF IInv, TreeTypeOK
    <2>2. DOMAIN fields' \subseteq DOMAIN fields \cup {<<p[1], p[2], p[3], Inc(dts[p].varKeyInc)>>}
      BY <1>4 DEF AddField, AddData, PutNew, Put
    <2>3. UNCHANGED <<conns, wgs>> /\ DOMAIN dts' = DOMAIN dts
      BY <1>4 DEF AddField, AddData
    <2> QED
      BY <2>1, <2>2, <2>3 DEF DataSetOf, OldParents
  <1>5. ASSUME NEW p \in DOMAIN dts, NEW n, WriteString(p, n)
        PROVE  OldParents
    <2>1. p = <<p[1], p[2], p[3]>>
      BY DEF IInv, TreeTypeOK
    <2>2. \A q \in DOMAIN fields' \ DOMAIN fields : \E f : q = <<p[1], p[2], p[3], f>>
      BY <1>5 DEF WriteString
    <2>3. UNCHANGED <<conns, wgs>> /\ DOMAIN dts' = DOMAIN dts
      BY <1>5 DEF WriteString
    <2> QED
      BY <2>1, <2>2, <2>3 DEF DataSetOf, OldParents
  <1>6. ASSUME DOMAIN wgs' \subseteq DOMAIN wgs, DOMAIN dts' \subseteq DOMAIN dts,
               DOMAIN fields' \subseteq DOMAIN fields
        PROVE  OldParents
    BY <1>6 DEF OldParents
  <1>7. ASSUME NEW p, NEW f, RemoveField(p, f)
        PROVE  OldParents
    BY <1>6, <1>7 DEF RemoveField, RemoveData, Restrict
  <1>8. ASSUME NEW p, RemoveDataset(p)
        PROVE  OldParents
    BY <1>6, <1>8 DEF RemoveDataset, Restrict
  <1>9. ASSUME NEW g, RemoveWritergroup(g)
        PROVE  OldParents
    BY <1>6, <1>9 DEF RemoveWritergroup, Restrict
  <1>10. ASSUME NEW c, DeleteConnection(c)
         PROVE  OldParents
    BY <1>6, <1>10 DEF DeleteConnection, Restrict
  <1>11. CASE DeleteAllConnections
    BY <1>11 DEF DeleteAllConnections, OldParents
  <1>12. ASSUME NEW S, NEW i, SetEnabled(S, i) \/ UpdateInterval(S, i)
         PROVE  OldParents
    BY <1>6, <1>12 DEF SetEnabled, UpdateInterval
  <1> QED
    BY <1>1, <1>2, <1>3, <1>4, <1>5, <1>7, <1>8, <1>9, <1>10, <1>11, <1>12 DEF TreeNext

LEMMA KeysStart ==
  ASSUME IInv, IInv', KeysFromOne, [TreeNext]_treeVars
  PROVE  KeysFromOne'
  <1>1. CASE UNCHANGED treeVars
    BY <1>1 DEF treeVars, KeysFromOne
  <1>2. CASE TreeNext
    <2>1. NewKeysAbove /\ OldParents
      BY <1>2, KeysNext, NewBelowOld DEF KeysGoUp
    <2>2. /\ DOMAIN conns' \subseteq Key /\ DOMAIN wgs' \subseteq Key \X Key
          /\ DOMAIN dts' \subseteq Key \X Key \X Key
          /\ DOMAIN fields' \subseteq Key \X Key \X Key \X Key
          /\ Key \subseteq Int
      BY DEF IInv, TreeTypeOK, Key
    <2>3. ASSUME NEW c \in DOMAIN conns'
          PROVE  c >= 1
      <3>1. CASE c \in DOMAIN conns
        BY <3>1 DEF KeysFromOne
      <3>2. CASE c \notin DOMAIN conns
        <4>1. c > connKeyInc /\ connKeyInc \in Nat /\ c \in Int
          BY <2>1, <2>2, <3>2, CountersNat DEF NewKeysAbove
        <4> QED
          BY <4>1
      <3> QED
        BY <3>1, <3>2
    <2>4. ASSUME NEW g \in DOMAIN wgs'
          PROVE  g[2] >= 1
      <3>1. CASE g \in DOMAIN wgs
        BY <3>1 DEF KeysFromOne
      <3>2. CASE g \notin DOMAIN wgs
        <4>1. g[1] \in DOMAIN conns
          BY <2>1, <3>2 DEF OldParents
        <4>2. g[2] > conns[g[1]].wgKeyInc /\ conns[g[1]].wgKeyInc \in Nat
          BY <2>1, <3>2, <4>1, CountersNat DEF NewKeysAbove
        <4>3. g[2] \in Int
          BY <2>2
        <4> QED
          BY <4>2, <4>3
      <3> QED
        BY <3>1, <3>2
    <2>5. ASSUME NEW p \in DOMAIN dts'
          PROVE  p[3] >= 1
      <3>1. CASE p \in DOMAIN dts
        BY <3>1 DEF KeysFromOne
      <3>2. CASE p \notin DOMAIN dts
        <4>1. GroupOf(p) \in DOMAIN wgs
          BY <2>1, <3>2 DEF OldParents
        <4>2. p[3] > wgs[GroupOf(p)].dtsKeyInc /\ wgs[GroupOf(p)].dtsKeyInc \in Nat
          BY <2>1, <3>2, <4>1, CountersNat DEF NewKeysAbove
        <4>3. p[3] \in Int
          BY <2>2
        <4> QED
          BY <4>2, <4>3
      <3> QED
        BY <3>1, <3>2
    <2>6. ASSUME NEW q \in DOMAIN fields'
          PROVE  q[4] >= 1
      <3>1. CASE q \in DOMAIN fields
        BY <3>1 DEF KeysFromOne
      <3>2. CASE q \notin DOMAIN fields
        <4>1. DataSetOf(q) \in DOMAIN dts
          BY <2>1, <3>2 DEF OldParents
        <4>2. q[4] > dts[DataSetOf(q)].varKeyInc /\ dts[DataSetOf(q)].varKeyInc \in Nat
          BY <2>1, <3>2, <4>1, CountersNat DEF NewKeysAbove
        <4>3. q[4] \in Int
          BY <2>2
        <4> QED
          BY <4>2, <4>3
      <3> QED
        BY <3>1, <3>2
    <2> QED
      BY <2>3, <2>4, <2>5, <2>6 DEF KeysFromOne
  <1> QED
    BY <1>1, <1>2

-----------------------------------------------------------------------------
(* Numbers, sequences and the paths of nodes, for the proofs about the      *)
(* components that use the tree.                                            *)
LEMMA Remainder ==
  ASSUME NEW n \in Int, NEW m \in Nat, m > 0
  PROVE  n % m \in 0 .. m - 1
  OBVIOUS

LEMMA Multiples ==
  ASSUME NEW m \in Nat, m > 0, NEW d \in Int
  PROVE  (d >= 1 => m * d >= m) /\ (d <= -1 => m * d <= -m)
  <1>1. ASSUME NEW e \in Int, e >= 1 PROVE m * e >= m
    BY <1>1
  <1>2. ASSUME d <= -1 PROVE m * d <= -m
    <2>1. m * (-d) >= m
      BY <1>1, <1>2
    <2>2. m * (-d) = -(m * d)
      OBVIOUS
    <2> QED
      BY <2>1, <2>2
  <1> QED
    BY <1>1, <1>2

LEMMA RemainderIs ==
  ASSUME NEW m \in Nat, m > 0, NEW q \in Int, NEW r \in 0 .. m - 1
  PROVE  (m * q + r) % m = r
  <1> DEFINE x == m * q + r
             p == x \div m
             s == x % m
  <1>0. m * q \in Int /\ x \in Int
    OBVIOUS
  <1> HIDE DEF x
  <1>1. p \in Int /\ s \in 0 .. m - 1 /\ x = m * p + s
    BY <1>0, Remainder
  <1> HIDE DEF p, s
  <1>2. m * (p - q) = r - s
    <2>1. m * (p - q) = m * p - m * q
      BY <1>1
    <2>2. m * p \in Int
      BY <1>1
    <2> QED
      BY <1>0, <1>1, <2>1, <2>2 DEF x
  <1>3. p - q \in Int /\ r - s < m /\ r - s > -m
    BY <1>1
  <1>4. m * (p - q) \in Int
    BY <1>3
  <1>5. ~ (p - q >= 1) /\ ~ (p - q <= -1)
    BY <1>2, <1>3, Multiples
  <1>6. p = q
    BY <1>1, <1>5
  <1>7. x = m * q + s
    BY <1>1, <1>6
  <1>8. r = s
    BY <1>0, <1>1, <1>7 DEF x
  <1> QED
    BY <1>8 DEF x, s

LEMMA Quotient ==
  ASSUME NEW m \in Nat, m > 0, NEW n \in Int, n % m = 0
  PROVE  \E p \in Int : n = m * p
  <1>1. PICK p \in Int : p = n \div m
    OBVIOUS
  <1>2. n = m * p + (n % m)
    BY <1>1
  <1>3. m * p \in Int
    OBVIOUS
  <1>4. n = m * p
    BY <1>2, <1>3
  <1> QED
    BY <1>4

LEMMA SmallRemainder ==
  ASSUME NEW m \in Nat, m > 0, NEW r \in 0 .. m - 1
  PROVE  r % m = r /\ (r - m) % m = r
  <1>1. m * 0 + r = r /\ m * (-1) + r = r - m
    OBVIOUS
  <1> QED
    BY <1>1, RemainderIs

(* Sequences of sequences put behind each other: g[i] is made of the first  *)
(* i of ss.                                                                 *)
LEMMA LeastNumber ==
  ASSUME NEW S, S \subseteq Nat, S # {}
  PROVE  \E m \in S : \A n \in S : m <= n
  <1>1. PICK R : R = {p \in Nat \X Nat : p[1] < p[2]}
    OBVIOUS
  <1>2. IsWellFoundedOn(R, Nat)
    BY <1>1, NatLessThanWellFounded DEF OpToRel
  <1>3. PICK m \in S : \A n \in S : ~ (<<n, m>> \in R)
    BY <1>2, WFMin
  <1>4. ASSUME NEW n \in S PROVE m <= n
    <2>1. n \in Nat /\ m \in Nat /\ <<n, m>> \notin R
      BY <1>3
    <2>2. <<n, m>> \in Nat \X Nat
      BY <2>1
    <2> QED BY <1>1, <2>1, <2>2
  <1> QED BY <1>3, <1>4

LEMMA Induct ==
  ASSUME NEW S, 0 \in S, \A n \in S \cap Nat : n + 1 \in S
  PROVE  Nat \subseteq S
  <1>1. SUFFICES ASSUME Nat \ S # {} PROVE FALSE
    OBVIOUS
  <1>2. PICK m \in Nat \ S : \A n \in Nat \ S : m <= n
    BY <1>1, LeastNumber
  <1>3. m # 0 /\ m - 1 \in Nat
    BY <1>2
  <1>4. m - 1 \in S
    BY <1>2, <1>3
  <1>5. (m - 1) + 1 \in S
   BY <1>3, <1>4
  <1> QED BY <1>2, <1>5

Joins(g, ss, n) == \A i \in 1 .. n : g[i] = IF i = 1 THEN ss[i] ELSE g[i - 1] \o ss[i]

\* There is a function that satisfies the definition.
LEMMA JoinExists ==
  ASSUME NEW ss, NEW n \in Nat
  PROVE  \E g : g = [i \in 1 .. n |-> IF i = 1 THEN ss[i] ELSE g[i - 1] \o ss[i]]
  <1> DEFINE S == {m \in Nat : \E g : Joins(g, ss, m)}
  <1>1. 0 \in S
    BY DEF Joins
  <1>2. ASSUME NEW m \in S \cap Nat PROVE m + 1 \in S
    <2>1. PICK g : Joins(g, ss, m)
      OBVIOUS
    <2> DEFINE h == [i \in 1 .. m + 1 |-> IF i = m + 1 THEN (IF i = 1 THEN ss[i] ELSE g[m] \o ss[i]) ELSE g[i]]
    <2>2. ASSUME NEW i \in 1 .. m + 1
          PROVE  h[i] = IF i = 1 THEN ss[i] ELSE h[i - 1] \o ss[i]
      <3>1. CASE i = m + 1
        <4>1. CASE i = 1
          BY <3>1, <4>1
        <4>2. CASE i # 1
          <5>1. i - 1 = m /\ m \in 1 .. m + 1 /\ m # m + 1
            BY <3>1, <4>2
          <5>2. h[i - 1] = g[m]
            BY <5>1
          <5> QED
            BY <3>1, <4>2, <5>2
        <4> QED
          BY <4>1, <4>2
      <3>2. CASE i # m + 1
        <4>1. i \in 1 .. m /\ h[i] = g[i]
          BY <3>2
        <4>2. i # 1 => h[i - 1] = g[i - 1]
          BY <4>1
        <4> QED
          BY <2>1, <4>1, <4>2 DEF Joins
      <3> QED
        BY <3>1, <3>2
    <2> HIDE DEF h
    <2>3. Joins(h, ss, m + 1)
      BY <2>2 DEF Joins
    <2> QED
      BY <2>3
  <1>3. PICK g : Joins(g, ss, n)
    BY <1>1, <1>2, Induct
  <1> HIDE DEF S
  <1> DEFINE h == [i \in 1 .. n |-> g[i]]
  <1>4. ASSUME NEW i \in 1 .. n
        PROVE  h[i] = IF i = 1 THEN ss[i] ELSE h[i - 1] \o ss[i]
    BY <1>3 DEF Joins
  <1>5. h = [i \in 1 .. n |-> IF i = 1 THEN ss[i] ELSE h[i - 1] \o ss[i]]
    <2>1. h = [i \in 1 .. n |-> h[i]]
      OBVIOUS
    <2> HIDE DEF h
    <2> QED
      BY <1>4, <2>1
  <1> QED
    BY <1>5

LEMMA JoinsStep ==
  ASSUME NEW g, NEW ss, NEW n \in Nat, Joins(g, ss, n), NEW m \in Nat, m + 1 \in 1 .. n
  PROVE  g[m + 1] = IF m = 0 THEN ss[m + 1] ELSE g[m] \o ss[m + 1]
  <1>1. g[m + 1] = IF m + 1 = 1 THEN ss[m + 1] ELSE g[m + 1 - 1] \o ss[m + 1]
    BY DEF Joins
  <1>2. m + 1 - 1 = m /\ (m + 1 = 1 <=> m = 0)
    OBVIOUS
  <1> QED
    BY <1>1, <1>2

LEMMA MappedLen ==
  ASSUME NEW S, NEW T, NEW s \in Seq(S), NEW f, f = [k \in DOMAIN s |-> f[k]], \A k \in DOMAIN s : f[k] \in T
  PROVE  f \in Seq(T) /\ Len(f) = Len(s)
  <1>1. Len(s) \in Nat /\ DOMAIN s = 1 .. Len(s) /\ DOMAIN f = 1 .. Len(s)
    BY LenProperties
  <1>2. f \in Seq(T)
    <2>1. f \in [1 .. Len(s) -> T]
      BY <1>1
    <2> QED
      BY <1>1, <2>1, SeqDef
  <1>3. Len(f) \in Nat /\ DOMAIN f = 1 .. Len(f)
    BY <1>2, LenProperties
  <1> QED
    BY <1>1, <1>2, <1>3

LEMMA InFront ==
  ASSUME NEW S, NEW x \in S, NEW u \in Seq(S), NEW v \in Seq(S)
  PROVE  /\ (<<x>> \o u) \o v = <<x>> \o (u \o v) /\ u \o v \in Seq(S)
         /\ <<>> \o v = v
         /\ Head(<<x>> \o u) = x /\ Tail(<<x>> \o u) = u /\ <<x>> \o u # <<>>
  <1>1. <<x>> \in Seq(S)
    OBVIOUS
  <1>2. (<<x>> \o u) \o v = <<x>> \o (u \o v)
    BY <1>1, ConcatAssociative
  <1>3. u \o v \in Seq(S) /\ <<>> \o v = v
    BY ConcatProperties, ConcatEmptySeq
  <1>4. <<x>> \o u \in Seq(S) /\ Len(<<x>> \o u) = Len(u) + 1 /\ (<<x>> \o u)[1] = x
        /\ \A n \in 1 .. Len(u) : (<<x>> \o u)[n + 1] = u[n]
    BY <1>1, ConcatProperties, LenProperties
  <1>5. <<x>> \o u # <<>>
    BY <1>4, LenProperties, EmptySeq
  <1>6. Head(<<x>> \o u) = x
    BY <1>4, <1>5
  <1>7. Tail(<<x>> \o u) = u
    <2>1. PICK s : s = <<x>> \o u
      OBVIOUS
    <2>2. /\ s \in Seq(S) /\ s # <<>> /\ Len(s) = Len(u) + 1 /\ Len(u) \in Nat
          /\ \A n \in 1 .. Len(u) : s[n + 1] = u[n]
      BY <1>4, <1>5, <2>1, LenProperties
    <2>3. Tail(s) \in Seq(S) /\ Len(Tail(s)) = Len(u) /\ \A n \in 1 .. Len(u) : Tail(s)[n] = s[n + 1]
      BY <2>2, HeadTailProperties
    <2>4. Tail(s) = u
      BY <2>2, <2>3, SeqEqual
    <2> QED
      BY <2>1, <2>4
  <1> QED
    BY <1>2, <1>3, <1>5, <1>6, <1>7

LEMMA Prefixed ==
  ASSUME NEW S, NEW x \in S, NEW u \in Seq(S), NEW s \in Seq(S), Len(s) = Len(u) + 1, s[1] = x,
         \A n \in 1 .. Len(u) : s[n + 1] = u[n]
  PROVE  s = <<x>> \o u
  <1>1. PICK v : v = <<x>> \o u
    OBVIOUS
  <1>2. <<x>> \in Seq(S) /\ Len(u) \in Nat /\ Len(<<x>>) = 1
    BY LenProperties
  <1>3. v \in Seq(S) /\ Len(v) = Len(u) + 1 /\ v[1] = x /\ \A n \in 1 .. Len(u) : v[n + 1] = u[n]
    BY <1>1, <1>2, ConcatProperties
  <1>4. \A n \in 1 .. Len(s) : s[n] = v[n]
    <2>1. ASSUME NEW n \in 1 .. Len(s), n # 1
          PROVE  s[n] = v[n]
      <3>1. n - 1 \in 1 .. Len(u) /\ n = (n - 1) + 1
        BY <1>2, <2>1
      <3> QED
        BY <1>3, <3>1
    <2> QED
      BY <1>3, <2>1
  <1> QED
    BY <1>1, <1>3, <1>4, SeqEqual

LEMMA LastIs ==
  ASSUME NEW S, NEW s \in Seq(S), NEW x
  PROVE  /\ s # <<>> => (<<x>> \o s)[Len(<<x>> \o s)] = s[Len(s)] /\ Len(<<x>> \o s) # 1
         /\ Len(<<x>>) = 1 /\ <<x>> \o <<>> = <<x>> /\ Head(<<x>>) = x /\ <<x>>[1] = x
         /\ s # <<>> /\ Tail(s) # <<>> => Tail(s)[Len(Tail(s))] = s[Len(s)]
         /\ s # <<>> => /\ (Tail(s) = <<>> <=> Len(s) = 1) /\ Len(<<x>> \o Tail(s)) = Len(s)
                        /\ (Tail(s) # <<>> => (<<x>> \o Tail(s))[Len(s)] = s[Len(s)])
                        /\ (Tail(s) = <<>> => s[Len(s)] = Head(s)) /\ <<x>> \o Tail(s) # <<>>
  <1>1. PICK T : T = S \cup {x}
    OBVIOUS
  <1>2. s \in Seq(T) /\ <<x>> \in Seq(T) /\ x \in T
    BY <1>1, SeqMonotonic
  <1>3. s # <<>> => (<<x>> \o s)[Len(<<x>> \o s)] = s[Len(s)] /\ Len(<<x>> \o s) # 1
    BY <1>2
  <1>4. Len(<<x>>) = 1 /\ <<x>> \o <<>> = <<x>> /\ Head(<<x>>) = x /\ <<x>>[1] = x
    BY <1>2
  <1>5. ASSUME s # <<>>
        PROVE  /\ Tail(s) \in Seq(T) /\ Len(Tail(s)) = Len(s) - 1 /\ (Tail(s) = <<>> <=> Len(s) = 1)
               /\ Tail(s) # <<>> => Tail(s)[Len(Tail(s))] = s[Len(s)] /\ Len(Tail(s)) \in 1 .. Len(Tail(s))
    <2>1. PICK u : u = Tail(s)
      OBVIOUS
    <2>2. u \in Seq(T) /\ Len(u) = Len(s) - 1 /\ Len(s) \in Nat /\ Len(u) \in Nat
      BY <1>2, <1>5, <2>1
    <2>3. \A n \in 1 .. Len(u) : u[n] = s[n + 1]
      BY <1>2, <1>5, <2>1, <2>2
    <2>4. u = <<>> <=> Len(u) = 0
      BY <2>2
    <2>5. u # <<>> => Len(u) \in 1 .. Len(u)
      BY <2>2, <2>4
    <2>6. u # <<>> => u[Len(u)] = s[Len(u) + 1] /\ Len(u) + 1 = Len(s)
      BY <2>2, <2>3, <2>5
    <2> QED
      BY <2>1, <2>2, <2>4, <2>5, <2>6
  <1>6. PICK u : u = Tail(s)
    OBVIOUS
  <1>7. ASSUME s # <<>>
        PROVE  /\ Len(<<x>> \o u) = Len(u) + 1 /\ (u # <<>> => (<<x>> \o u)[Len(u) + 1] = u[Len(u)])
               /\ <<x>> \o u # <<>>
    BY <1>2, <1>5, <1>6, <1>7
  <1>8. ASSUME s # <<>>
        PROVE  Len(u) + 1 = Len(s) /\ (u = <<>> => s[Len(s)] = Head(s))
    BY <1>2, <1>5, <1>6, <1>8
  <1> QED
    BY <1>3, <1>4, <1>5, <1>6, <1>7, <1>8

\* Paths are tuples of keys.
LEMMA PathTuple ==
  /\ \A f \in [1 .. 1 -> Key] : f = <<f[1]>> /\ f[1] \in Key
  /\ \A f \in [1 .. 2 -> Key] : f = <<f[1], f[2]>> /\ f[1] \in Key /\ f[2] \in Key
  /\ \A f \in [1 .. 3 -> Key] : f = <<f[1], f[2], f[3]>> /\ f[1] \in Key /\ f[2] \in Key /\ f[3] \in Key
  /\ \A f \in [1 .. 4 -> Key] : /\ f = <<f[1], f[2], f[3], f[4]>>
                                /\ f[1] \in Key /\ f[2] \in Key /\ f[3] \in Key /\ f[4] \in Key
  OBVIOUS

LEMMA PathIsSeq ==
  ASSUME NEW k \in 1 .. 4, NEW f \in [1 .. k -> Key]
  PROVE  f \in Seq(Key) /\ Len(f) = k
  <1>1. f \in Seq(Key)
    BY SeqDef
  <1>2. DOMAIN f = 1 .. Len(f) /\ Len(f) \in Nat
    BY <1>1, LenProperties
  <1>3. 1 .. k = 1 .. Len(f)
    BY <1>2
  <1> QED
    BY <1>1, <1>2, <1>3

\* The beginnings of a path.
LEMMA Beginnings ==
  ASSUME NEW n \in 1 .. 4, NEW f \in [1 .. n -> Key]
  PROVE  /\ SubSeq(f, 1, 0) = <<>>
         /\ n >= 1 => SubSeq(f, 1, 1) = <<f[1]>>
         /\ n >= 2 => SubSeq(f, 1, 2) = <<f[1], f[2]>>
         /\ n >= 3 => SubSeq(f, 1, 3) = <<f[1], f[2], f[3]>>
  <1>1. SubSeq(f, 1, 0) = <<>>
    BY SubSeqEmpty
  <1>2. ASSUME NEW k \in 1 .. n
        PROVE  SubSeq(f, 1, k) \in [1 .. k -> Key] /\ \A i \in 1 .. k : SubSeq(f, 1, k)[i] = f[i]
    <2>1. \A i \in 1 .. k : f[i] \in Key
      OBVIOUS
    <2>2. /\ SubSeq(f, 1, k) \in Seq(Key)
          /\ Len(SubSeq(f, 1, k)) = IF 1 <= k THEN k - 1 + 1 ELSE 0
          /\ \A i \in 1 .. k - 1 + 1 : SubSeq(f, 1, k)[i] = f[1 + i - 1]
      BY <2>1, SubSeqProperties
    <2> DEFINE s == SubSeq(f, 1, k)
    <2>3. s \in Seq(Key) /\ Len(s) = k /\ \A i \in 1 .. k : s[i] = f[i]
      BY <2>2
    <2> HIDE DEF s
    <2>4. s \in [1 .. Len(s) -> Key]
      BY <2>3, LenProperties
    <2>5. s \in [1 .. k -> Key] /\ \A i \in 1 .. k : s[i] = f[i]
      BY <2>3, <2>4
    <2> QED
      BY <2>5 DEF s
  <1>3. ASSUME NEW s \in [1 .. 1 -> Key], \A i \in 1 .. 1 : s[i] = f[i]
        PROVE  s = <<f[1]>>
    BY <1>3, PathTuple
  <1>4. ASSUME NEW s \in [1 .. 2 -> Key], \A i \in 1 .. 2 : s[i] = f[i]
        PROVE  s = <<f[1], f[2]>>
    BY <1>4, PathTuple
  <1>5. ASSUME NEW s \in [1 .. 3 -> Key], \A i \in 1 .. 3 : s[i] = f[i]
        PROVE  s = <<f[1], f[2], f[3]>>
    BY <1>5, PathTuple
  <1>6. n >= 1 => SubSeq(f, 1, 1) = <<f[1]>>
    <2>1. PICK s : s = SubSeq(f, 1, 1)
      OBVIOUS
    <2>2. n >= 1 => s \in [1 .. 1 -> Key] /\ \A i \in 1 .. 1 : s[i] = f[i]
      BY <1>2, <2>1
    <2> QED
      BY <2>1, <2>2, <1>3
  <1>7. n >= 2 => SubSeq(f, 1, 2) = <<f[1], f[2]>>
    <2>1. PICK s : s = SubSeq(f, 1, 2)
      OBVIOUS
    <2>2. n >= 2 => s \in [1 .. 2 -> Key] /\ \A i \in 1 .. 2 : s[i] = f[i]
      BY <1>2, <2>1
    <2> QED
      BY <2>1, <2>2, <1>4
  <1>8. n >= 3 => SubSeq(f, 1, 3) = <<f[1], f[2], f[3]>>
    <2>1. PICK s : s = SubSeq(f, 1, 3)
      OBVIOUS
    <2>2. n >= 3 => s \in [1 .. 3 -> Key] /\ \A i \in 1 .. 3 : s[i] = f[i]
      BY <1>2, <2>1
    <2> QED
      BY <2>1, <2>2, <1>5
  <1> QED
    BY <1>1, <1>6, <1>7, <1>8

LEMMA PathsAre ==
  ASSUME NEW s
  PROVE  /\ [n \in 1 .. 1 |-> s[n]] = <<s[1]>>
         /\ [n \in 1 .. 2 |-> s[n]] = <<s[1], s[2]>>
         /\ [n \in 1 .. 3 |-> s[n]] = <<s[1], s[2], s[3]>>
         /\ [n \in 1 .. 4 |-> s[n]] = <<s[1], s[2], s[3], s[4]>>
  OBVIOUS

LEMMA Appended ==
  /\ \A c \in Key, k \in Key : Append(<<c>>, k) = <<c, k>>
  /\ \A c \in Key, w \in Key, k \in Key : Append(<<c, w>>, k) = <<c, w, k>>
  /\ \A c \in Key, w \in Key, d \in Key, k \in Key : Append(<<c, w, d>>, k) = <<c, w, d, k>>
  <1> DEFINE Extended(t, s, k) == /\ t \in [1 .. Len(s) + 1 -> Key]
                                  /\ \A i \in 1 .. Len(s) : t[i] = s[i]
                                  /\ t[Len(s) + 1] = k
  <1> HIDE DEF Extended
  <1>1. ASSUME NEW s \in Seq(Key), NEW k \in Key
        PROVE  Extended(Append(s, k), s, k)
    <2>1. PICK t : t = Append(s, k)
      OBVIOUS
    <2>2. /\ t \in Seq(Key) /\ Len(t) = Len(s) + 1
          /\ \A i \in 1 .. Len(s) : t[i] = s[i]
          /\ t[Len(s) + 1] = k
      BY <2>1, AppendProperties
    <2>3. t \in [1 .. Len(t) -> Key]
      BY <2>2, LenProperties
    <2>4. Extended(t, s, k)
      BY <2>2, <2>3 DEF Extended
    <2> QED
      BY <2>1, <2>4
  <1>2. ASSUME NEW c \in Key, NEW k \in Key
        PROVE  Append(<<c>>, k) = <<c, k>>
    <2>1. PICK s : s = <<c>>
      OBVIOUS
    <2>2. s \in Seq(Key) /\ Len(s) = 1 /\ s[1] = c
      BY <2>1
    <2>3. PICK t : t = Append(s, k)
      OBVIOUS
    <2>4. Extended(t, s, k)
      BY <1>1, <2>2, <2>3
    <2>5. t \in [1 .. 2 -> Key] /\ t[2] = k /\ t[1] = s[1]
      BY <2>2, <2>4 DEF Extended
    <2>6. t = <<c, k>>
      BY <2>2, <2>5, PathTuple
    <2> QED
      BY <2>1, <2>3, <2>6
  <1>3. ASSUME NEW c \in Key, NEW w \in Key, NEW k \in Key
        PROVE  Append(<<c, w>>, k) = <<c, w, k>>
    <2>1. PICK s : s = <<c, w>>
      OBVIOUS
    <2>2. s \in Seq(Key) /\ Len(s) = 2 /\ s[1] = c /\ s[2] = w
      BY <2>1
    <2>3. PICK t : t = Append(s, k)
      OBVIOUS
    <2>4. Extended(t, s, k)
      BY <1>1, <2>2, <2>3
    <2>5. t \in [1 .. 3 -> Key] /\ t[3] = k /\ t[1] = s[1] /\ t[2] = s[2]
      BY <2>2, <2>4 DEF Extended
    <2>6. t = <<c, w, k>>
      BY <2>2, <2>5, PathTuple
    <2> QED
      BY <2>1, <2>3, <2>6
  <1>4. ASSUME NEW c \in Key, NEW w \in Key, NEW d \in Key, NEW k \in Key
        PROVE  Append(<<c, w, d>>, k) = <<c, w, d, k>>
    <2>1. PICK s : s = <<c, w, d>>
      OBVIOUS
    <2>2. s \in Seq(Key) /\ Len(s) = 3 /\ s[1] = c /\ s[2] = w /\ s[3] = d
      BY <2>1
    <2>3. PICK t : t = Append(s, k)
      OBVIOUS
    <2>4. Extended(t, s, k)
      BY <1>1, <2>2, <2>3
    <2>5. t \in [1 .. 4 -> Key] /\ t[4] = k /\ t[1] = s[1] /\ t[2] = s[2] /\ t[3] = s[3]
      BY <2>2, <2>4 DEF Extended
    <2>6. t = <<c, w, d, k>>
      BY <2>2, <2>5, PathTuple
    <2> QED
      BY <2>1, <2>3, <2>6
  <1> QED
    BY <1>2, <1>3, <1>4

LEMMA PutNewDomain ==
  ASSUME NEW f, NEW k, NEW v
  PROVE  DOMAIN PutNew(f, k, v) = DOMAIN f \cup {k}
  BY DEF PutNew, Put

LEMMA RestrictedIs ==
  ASSUME NEW f, NEW S \in SUBSET DOMAIN f
  PROVE  DOMAIN Restrict(f, S) = S /\ \A x \in S : Restrict(f, S)[x] = f[x]
  BY DEF Restrict

LEMMA FiniteKeys ==
  ASSUME NEW K \in SUBSET Key
  PROVE  IsFiniteSet(K) /\ Cardinality(K) \in Nat
  <1>1. 0 \in Int /\ UInt16 - 1 \in Int
    BY Width
  <1>2. IsFiniteSet(Key)
    BY <1>1, FS_Interval DEF Key
  <1> QED
    BY <1>2, FS_Subset, FS_CardinalityType

-----------------------------------------------------------------------------
(* What an add does.  Within the bounds a counter is below its width, so    *)
(* the key it gives out next is not in use and not 0.                       *)
LEMMA NextKey ==
  ASSUME NEW k \in Key, Room(k, 1)
  PROVE  Inc(k) = k + 1 /\ Inc(k) \in Key /\ k \in Nat /\ Inc(k) # 0 /\ ~ (Inc(k) <= k)
  <1>1. k \in Nat
    BY DEF Key
  <1>2. Inc(k) = k + 1
    BY IncNext DEF Room
  <1>3. Inc(k) \in Key
    BY IncType
  <1> QED
    BY <1>1, <1>2, <1>3

LEMMA FreeKeys ==
  ASSUME IInv
  PROVE  /\ Room(connKeyInc, 1) => /\ Inc(connKeyInc) \in Key /\ Inc(connKeyInc) # 0
                                   /\ Inc(connKeyInc) \notin DOMAIN conns
         /\ \A c \in DOMAIN conns : Room(conns[c].wgKeyInc, 1) =>
              /\ Inc(conns[c].wgKeyInc) \in Key /\ Inc(conns[c].wgKeyInc) # 0
              /\ <<c, Inc(conns[c].wgKeyInc)>> \notin DOMAIN wgs
         /\ \A g \in DOMAIN wgs : Room(wgs[g].dtsKeyInc, 1) =>
              /\ Inc(wgs[g].dtsKeyInc) \in Key /\ Inc(wgs[g].dtsKeyInc) # 0
              /\ <<g[1], g[2], Inc(wgs[g].dtsKeyInc)>> \notin DOMAIN dts
         /\ \A p \in DOMAIN dts : Room(dts[p].varKeyInc, 1) =>
              /\ Inc(dts[p].varKeyInc) \in Key /\ Inc(dts[p].varKeyInc) # 0
              /\ <<p[1], p[2], p[3], Inc(dts[p].varKeyInc)>> \notin DOMAIN fields
  <1>1. connKeyInc \in Key
    BY DEF IInv, TreeTypeOK
  <1>2. ASSUME Room(connKeyInc, 1)
        PROVE  /\ Inc(connKeyInc) \in Key /\ Inc(connKeyInc) # 0
               /\ Inc(connKeyInc) \notin DOMAIN conns
    <2>1. /\ Inc(connKeyInc) \in Key /\ Inc(connKeyInc) # 0
          /\ ~ (Inc(connKeyInc) <= connKeyInc)
      BY <1>1, <1>2, NextKey
    <2>2. \A c \in DOMAIN conns : c <= connKeyInc
      BY DEF IInv, KeysBelowCounter
    <2> QED
      BY <2>1, <2>2
  <1>3. ASSUME NEW c \in DOMAIN conns, Room(conns[c].wgKeyInc, 1)
        PROVE  /\ Inc(conns[c].wgKeyInc) \in Key /\ Inc(conns[c].wgKeyInc) # 0
               /\ <<c, Inc(conns[c].wgKeyInc)>> \notin DOMAIN wgs
    <2>1. PICK k : k = conns[c].wgKeyInc
      OBVIOUS
    <2>2. k \in Key
      BY <2>1 DEF IInv, TreeTypeOK
    <2>3. Inc(k) \in Key /\ Inc(k) # 0 /\ ~ (Inc(k) <= k)
      BY <1>3, <2>1, <2>2, NextKey
    <2>4. \A g \in DOMAIN wgs : g[1] = c => g[2] <= k
      BY <2>1 DEF IInv, KeysBelowCounter
    <2> QED
      BY <2>1, <2>3, <2>4
  <1>4. ASSUME NEW g \in DOMAIN wgs, Room(wgs[g].dtsKeyInc, 1)
        PROVE  /\ Inc(wgs[g].dtsKeyInc) \in Key /\ Inc(wgs[g].dtsKeyInc) # 0
               /\ <<g[1], g[2], Inc(wgs[g].dtsKeyInc)>> \notin DOMAIN dts
    <2>1. PICK k : k = wgs[g].dtsKeyInc
      OBVIOUS
    <2>2. k \in Key /\ g = <<g[1], g[2]>>
      BY <2>1 DEF IInv, TreeTypeOK
    <2>3. Inc(k) \in Key /\ Inc(k) # 0 /\ ~ (Inc(k) <= k)
      BY <1>4, <2>1, <2>2, NextKey
    <2>4. \A p \in DOMAIN dts : <<p[1], p[2]>> = g => p[3] <= k
      BY <2>1 DEF IInv, KeysBelowCounter, GroupOf
    <2> QED
      BY <2>1, <2>2, <2>3, <2>4
  <1>5. ASSUME NEW p \in DOMAIN dts, Room(dts[p].varKeyInc, 1)
        PROVE  /\ Inc(dts[p].varKeyInc) \in Key /\ Inc(dts[p].varKeyInc) # 0
               /\ <<p[1], p[2], p[3], Inc(dts[p].varKeyInc)>> \notin DOMAIN fields
    <2>1. PICK k : k = dts[p].varKeyInc
      OBVIOUS
    <2>2. k \in Key /\ p = <<p[1], p[2], p[3]>>
      BY <2>1 DEF IInv, TreeTypeOK
    <2>3. Inc(k) \in Key /\ Inc(k) # 0 /\ ~ (Inc(k) <= k)
      BY <1>5, <2>1, <2>2, NextKey
    <2>4. \A q \in DOMAIN fields : <<q[1], q[2], q[3]>> = p => q[4] <= k
      BY <2>1 DEF IInv, KeysBelowCounter, DataSetOf
    <2> QED
      BY <2>1, <2>2, <2>3, <2>4
  <1> QED
    BY <1>2, <1>3, <1>4, <1>5

\* A node's Channel has a key that was given.
LEMMA RootKeys ==
  ASSUME IInv
  PROVE  /\ connKeyInc \in Nat /\ \A x \in DOMAIN conns : x <= connKeyInc
         /\ \A x \in DOMAIN wgs : x[1] <= connKeyInc
         /\ \A x \in DOMAIN dts : x[1] <= connKeyInc
         /\ \A x \in DOMAIN fields : x[1] <= connKeyInc
  <1>1. connKeyInc \in Nat /\ \A x \in DOMAIN conns : x <= connKeyInc
    BY Width DEF IInv, TreeTypeOK, KeysBelowCounter, Key
  <1>2. \A x \in DOMAIN wgs : x[1] \in DOMAIN conns
    BY DEF IInv, ParentsExist
  <1>3. \A x \in DOMAIN dts : GroupOf(x) \in DOMAIN wgs
    BY DEF IInv, ParentsExist
  <1>4. \A x \in DOMAIN fields : DataSetOf(x) \in DOMAIN dts
    BY DEF IInv, ParentsExist
  <1>5. \A x \in DOMAIN dts : x[1] \in DOMAIN conns
    BY <1>2, <1>3 DEF GroupOf
  <1>6. \A x \in DOMAIN fields : x[1] \in DOMAIN conns
    BY <1>4, <1>5 DEF DataSetOf
  <1> QED
    BY <1>1, <1>2, <1>5, <1>6

\* A Field that stays keeps its type.
TypesStay == \A q \in DOMAIN fields \cap DOMAIN fields' : fields'[q] = fields[q]

LEMMA TypesKept == [TreeNext]_treeVars => TypesStay
  <1> SUFFICES ASSUME [TreeNext]_treeVars
               PROVE  TypesStay
    OBVIOUS
  <1>1. CASE UNCHANGED fields
    BY <1>1 DEF TypesStay
  <1>2. ASSUME NEW p, NEW type, AddData(p, type)
        PROVE  TypesStay
    BY <1>2 DEF AddData, PutNew, Put, TypesStay
  <1>3. ASSUME NEW S \in SUBSET DOMAIN fields, fields' = Restrict(fields, S)
        PROVE  TypesStay
    BY <1>3, RestrictedIs DEF TypesStay
  <1>4. ASSUME NEW p, NEW n, WriteString(p, n)
        PROVE  TypesStay
    BY <1>4 DEF WriteString, TypesStay
  <1>5. CASE DeleteAllConnections
    BY <1>5 DEF DeleteAllConnections, TypesStay
  <1>6. ASSUME NEW p, NEW f, RemoveData(p, f)
        PROVE  TypesStay
    <2>1. DOMAIN fields \ {<<p[1], p[2], p[3], f>>} \in SUBSET DOMAIN fields
      OBVIOUS
    <2> QED
      BY <1>3, <1>6, <2>1 DEF RemoveData
  <1>7. ASSUME NEW x, DeleteConnection(x) \/ RemoveWritergroup(x) \/ RemoveDataset(x)
        PROVE  TypesStay
    <2>1. /\ {q \in DOMAIN fields : q[1] # x} \in SUBSET DOMAIN fields
          /\ {q \in DOMAIN fields : GroupOf(q) # x} \in SUBSET DOMAIN fields
          /\ {q \in DOMAIN fields : DataSetOf(q) # x} \in SUBSET DOMAIN fields
      OBVIOUS
    <2> QED
      BY <1>3, <1>7, <2>1 DEF DeleteConnection, RemoveWritergroup, RemoveDataset
  <1> QED
    BY <1>1, <1>2, <1>4, <1>5, <1>6, <1>7
       DEF TreeNext, treeVars, CreateConnection, AddWritergroup, AddDataset, AddField, RemoveField, SetEnabled, UpdateInterval

\* The strings of the tree are none longer than the longest.
StringsFit == \A p \in DOMAIN dts : dts[p].isString => dts[p].varKeyInc <= MaxString

LEMMA StringsStayFit ==
  ASSUME IInv, StringsFit, [TreeNext]_treeVars
  PROVE  StringsFit'
  <1>1. CASE UNCHANGED dts
    BY <1>1 DEF StringsFit
  <1>2. ASSUME NEW g \in DOMAIN wgs, NEW isString \in BOOLEAN, AddDataset(g, isString)
        PROVE  StringsFit'
    <2>1. PICK d : dts' = PutNew(dts, d, NewDataSet(isString))
      BY <1>2 DEF AddDataset
    <2>2. NewDataSet(isString).varKeyInc <= MaxString
      BY ConstantsOK DEF NewDataSet, ConstantsOK
    <2>3. PICK x : x = NewDataSet(isString)
      OBVIOUS
    <2> QED
      BY <2>1, <2>2, <2>3 DEF PutNew, Put, StringsFit
  <1>3. ASSUME NEW p \in DOMAIN dts, NEW type, AddField(p, type)
        PROVE  StringsFit'
    <2>1. PICK f : dts' = [dts EXCEPT ![p].varKeyInc = f] /\ ~ dts[p].isString
      BY <1>3 DEF AddField, AddData
    <2>2. DOMAIN dts' = DOMAIN dts /\ \A x \in DOMAIN dts : x # p => dts'[x] = dts[x]
      BY <2>1
    <2>3. dts[p] \in [isString : BOOLEAN, varKeyInc : Key]
      BY DEF IInv, TreeTypeOK
    <2>4. dts'[p].isString = dts[p].isString
      BY <2>1, <2>3
    <2> QED
      BY <2>1, <2>2, <2>4 DEF StringsFit
  <1>4. ASSUME NEW S \in SUBSET DOMAIN dts, dts' = Restrict(dts, S)
        PROVE  StringsFit'
    <2>1. DOMAIN dts' = S /\ \A x \in S : dts'[x] = dts[x]
      BY <1>4, RestrictedIs
    <2> QED
      BY <2>1 DEF StringsFit
  <1>5. ASSUME NEW p \in DOMAIN dts, NEW n \in 0 .. MaxString, WriteString(p, n)
        PROVE  StringsFit'
    <2>1. dts' = [dts EXCEPT ![p].varKeyInc = Shorter(p, n)] /\ dts[p].isString
      BY <1>5 DEF WriteString
    <2>2. n \in Nat /\ n <= MaxString
      BY ConstantsOK DEF ConstantsOK
    <2>3. Shorter(p, n) = n
      BY <2>1, <2>2, StringKeys
    <2>4. DOMAIN dts' = DOMAIN dts /\ \A x \in DOMAIN dts : x # p => dts'[x] = dts[x]
      BY <2>1
    <2>5. dts[p] \in [isString : BOOLEAN, varKeyInc : Key]
      BY DEF IInv, TreeTypeOK
    <2>6. dts'[p].varKeyInc = n
      BY <2>1, <2>3, <2>5
    <2> QED
      BY <2>2, <2>4, <2>6 DEF StringsFit
  <1>6. CASE DeleteAllConnections
    BY <1>6 DEF DeleteAllConnections, StringsFit
  <1>7. ASSUME NEW x, DeleteConnection(x) \/ RemoveWritergroup(x) \/ RemoveDataset(x)
        PROVE  StringsFit'
    <2>1. /\ {q \in DOMAIN dts : q[1] # x} \in SUBSET DOMAIN dts
          /\ {q \in DOMAIN dts : GroupOf(q) # x} \in SUBSET DOMAIN dts
          /\ DOMAIN dts \ {x} \in SUBSET DOMAIN dts
      OBVIOUS
    <2> QED
      BY <1>4, <1>7, <2>1 DEF DeleteConnection, RemoveWritergroup, RemoveDataset
  <1> QED
    BY <1>1, <1>2, <1>3, <1>5, <1>6, <1>7
       DEF TreeNext, treeVars, CreateConnection, AddWritergroup, RemoveField, RemoveData, SetEnabled, UpdateInterval

LEMMA ChannelAdded ==
  ASSUME IInv, Room(connKeyInc, 1), NEW port, CreateConnection(port), NEW n, n = connKeyInc + 1
  PROVE  /\ connKeyInc' = n /\ n \notin DOMAIN conns /\ DOMAIN conns' = DOMAIN conns \cup {n}
         /\ Extends(conns, conns') /\ conns'[n].port = port /\ conns'[n].wgKeyInc = 0
         /\ UNCHANGED <<wgs, dts, fields>>
  <1>1. connKeyInc \in Key
    BY DEF IInv, TreeTypeOK
  <1>2. Inc(connKeyInc) = n
    BY <1>1, NextKey
  <1>3. n \notin DOMAIN conns
    BY <1>2, FreeKeys
  <1>4. PICK v : v = NewConnection(port)
    OBVIOUS
  <1>5. conns' = PutNew(conns, n, v) /\ connKeyInc' = n /\ UNCHANGED <<wgs, dts, fields>>
    BY <1>2, <1>4 DEF CreateConnection
  <1>6. DOMAIN conns' = DOMAIN conns \cup {n} /\ conns'[n] = v /\ Extends(conns, conns')
    BY <1>3, <1>5 DEF PutNew, Put, Extends
  <1> QED
    BY <1>3, <1>4, <1>5, <1>6 DEF NewConnection

LEMMA GroupAdded ==
  ASSUME IInv, NEW x \in DOMAIN conns, Room(conns[x].wgKeyInc, 1), AddWritergroup(x), NEW n, n = conns[x].wgKeyInc + 1
  PROVE  /\ UNCHANGED <<connKeyInc, dts, fields>> /\ DOMAIN conns' = DOMAIN conns
         /\ \A y \in DOMAIN conns : y # x => conns'[y] = conns[y]
         /\ conns'[x].port = conns[x].port /\ conns'[x].wgKeyInc = n
         /\ <<x, n>> \notin DOMAIN wgs /\ DOMAIN wgs' = DOMAIN wgs \cup {<<x, n>>} /\ Extends(wgs, wgs')
         /\ wgs'[<<x, n>>].enabled = TRUE /\ wgs'[<<x, n>>].interval = DefaultInterval /\ wgs'[<<x, n>>].dtsKeyInc = 0
  <1>1. conns[x] \in [port : Port, wgKeyInc : Key]
    BY DEF IInv, TreeTypeOK
  <1>2. Inc(conns[x].wgKeyInc) = n
    BY <1>1, NextKey
  <1>3. <<x, n>> \notin DOMAIN wgs
    BY <1>2, FreeKeys
  <1>4. PICK v : v = NewGroup
    OBVIOUS
  <1>5. /\ conns' = [conns EXCEPT ![x].wgKeyInc = n] /\ wgs' = PutNew(wgs, <<x, n>>, v)
        /\ UNCHANGED <<connKeyInc, dts, fields>>
    BY <1>2, <1>4 DEF AddWritergroup
  <1>6. DOMAIN wgs' = DOMAIN wgs \cup {<<x, n>>} /\ wgs'[<<x, n>>] = v /\ Extends(wgs, wgs')
    BY <1>3, <1>5 DEF PutNew, Put, Extends
  <1>7. DOMAIN conns' = DOMAIN conns /\ conns'[x].port = conns[x].port /\ conns'[x].wgKeyInc = n
    BY <1>1, <1>5
  <1>8. \A y \in DOMAIN conns : y # x => conns'[y] = conns[y]
    BY <1>5
  <1> QED
    BY <1>3, <1>4, <1>5, <1>6, <1>7, <1>8 DEF NewGroup

FieldIsNew(x, n, q, type) ==
  /\ UNCHANGED <<connKeyInc, conns, wgs>> /\ DOMAIN dts' = DOMAIN dts
  /\ \A y \in DOMAIN dts : y # x => dts'[y] = dts[y]
  /\ dts'[x] = [dts[x] EXCEPT !.varKeyInc = n]
  /\ q \notin DOMAIN fields /\ DOMAIN fields' = DOMAIN fields \cup {q} /\ Extends(fields, fields')
  /\ fields'[q] = type

LEMMA FieldAdded ==
  ASSUME NEW x \in DOMAIN dts, NEW type, NEW n, NEW q, IInv, Room(dts[x].varKeyInc, 1), AddData(x, type),
         n = dts[x].varKeyInc + 1, q = <<x[1], x[2], x[3], n>>
  PROVE  FieldIsNew(x, n, q, type)
  <1>1. dts[x] \in [isString : BOOLEAN, varKeyInc : Key]
    BY DEF IInv, TreeTypeOK
  <1>2. Inc(dts[x].varKeyInc) = n
    BY <1>1, NextKey
  <1>3. q \notin DOMAIN fields
    BY <1>2, FreeKeys
  <1>4. /\ dts' = [dts EXCEPT ![x].varKeyInc = n] /\ fields' = PutNew(fields, q, type)
        /\ UNCHANGED <<connKeyInc, conns, wgs>>
    BY <1>2 DEF AddData
  <1>5. DOMAIN fields' = DOMAIN fields \cup {q} /\ fields'[q] = type /\ Extends(fields, fields')
    BY <1>3, <1>4 DEF PutNew, Put, Extends
  <1>6. DOMAIN dts' = DOMAIN dts /\ dts'[x] = [dts[x] EXCEPT !.varKeyInc = n]
    BY <1>1, <1>4
  <1>7. \A y \in DOMAIN dts : y # x => dts'[y] = dts[y]
    BY <1>4
  <1> QED
    BY <1>3, <1>4, <1>5, <1>6, <1>7 DEF FieldIsNew

StringHas(x, n) ==
  /\ UNCHANGED <<connKeyInc, conns, wgs>> /\ DOMAIN dts' = DOMAIN dts
  /\ \A y \in DOMAIN dts : y # x => dts'[y] = dts[y]
  /\ dts'[x] = [dts[x] EXCEPT !.varKeyInc = n] /\ dts[x].isString
  /\ \A q : DataSetOf(q) # x => (q \in DOMAIN fields' <=> q \in DOMAIN fields)
  /\ \A q \in DOMAIN fields' : q \in DOMAIN fields => fields'[q] = fields[q]
  /\ \A q \in DOMAIN fields' : DataSetOf(q) = x \/ q \in DOMAIN fields

LEMMA StringSet ==
  ASSUME NEW x \in DOMAIN dts, NEW n \in 0 .. MaxString, IInv, WriteString(x, n)
  PROVE  StringHas(x, n)
  <1>1. dts[x] \in [isString : BOOLEAN, varKeyInc : Key] /\ dts[x].isString /\ x = <<x[1], x[2], x[3]>>
    BY DEF IInv, TreeTypeOK, WriteString
  <1>2. n \in Nat /\ n <= MaxString
    BY ConstantsOK DEF ConstantsOK
  <1>3. Shorter(x, n) = n
    BY <1>1, <1>2, StringKeys
  <1>4. dts' = [dts EXCEPT ![x].varKeyInc = n] /\ UNCHANGED <<connKeyInc, conns, wgs>>
    BY <1>3 DEF WriteString
  <1>5. DOMAIN dts' = DOMAIN dts /\ dts'[x] = [dts[x] EXCEPT !.varKeyInc = n]
    BY <1>1, <1>4
  <1>6. \A y \in DOMAIN dts : y # x => dts'[y] = dts[y]
    BY <1>4
  <1>7. PICK S : fields' = [q \in {q \in DOMAIN fields : DataSetOf(q) # x} \cup {<<x[1], x[2], x[3], f>> : f \in S} |->
                              IF q \in DOMAIN fields THEN fields[q] ELSE Byte]
    BY DEF WriteString
  <1>8. \A f : DataSetOf(<<x[1], x[2], x[3], f>>) = x
    BY <1>1 DEF DataSetOf
  <1>9. /\ \A q : DataSetOf(q) # x => (q \in DOMAIN fields' <=> q \in DOMAIN fields)
        /\ \A q \in DOMAIN fields' : q \in DOMAIN fields => fields'[q] = fields[q]
        /\ \A q \in DOMAIN fields' : DataSetOf(q) = x \/ q \in DOMAIN fields
    BY <1>7, <1>8
  <1> QED
    BY <1>1, <1>4, <1>5, <1>6, <1>9 DEF StringHas

\* A new DataSet has the next key of its WriterGroup.
LEMMA DataSetKey ==
  ASSUME IInv, NEW x \in DOMAIN wgs, Room(wgs[x].dtsKeyInc, 1), AddDataset(x, TRUE) \/ AddDataset(x, FALSE),
         NEW a, NEW e, x = <<a, e>>, a \in Key, e \in Key, NEW n, n = wgs[x].dtsKeyInc + 1
  PROVE  Append(x, wgs'[x].dtsKeyInc) = <<a, e, n>> /\ <<a, e, n>> \notin DOMAIN dts
  <1>1. wgs[x] \in [enabled : BOOLEAN, interval : Interval, dtsKeyInc : Key]
    BY DEF IInv, TreeTypeOK
  <1>2. Inc(wgs[x].dtsKeyInc) = n /\ n \in Key
    BY <1>1, NextKey
  <1>3. wgs' = [wgs EXCEPT ![x].dtsKeyInc = n]
    BY <1>2 DEF AddDataset
  <1>4. wgs'[x].dtsKeyInc = n
    BY <1>1, <1>3
  <1>5. <<x[1], x[2], n>> \notin DOMAIN dts
    BY <1>2, FreeKeys
  <1> QED
    BY <1>2, <1>4, <1>5, Appended

=============================================================================
