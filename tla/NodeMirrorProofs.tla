-------------------------- MODULE NodeMirrorProofs --------------------------
(***************************************************************************)
(* The server shows the tree: the invariants of NodeMirror for every choice *)
(* of ids, ports, intervals, types and bounds.                              *)
(***************************************************************************)
EXTENDS NodeMirror, NodeTreeProofs

-----------------------------------------------------------------------------
(* One level of the tree on the server.  V is what the nodes of the level   *)
(* show, I their ids, T the server's table: every node has an id of its own *)
(* and the table holds what the nodes show under these ids, nothing else.   *)
Mirrors(I, T, V) ==
  /\ I \in [DOMAIN V -> NodeId]
  /\ IsInjective(I)
  /\ T = [id \in Range(I) |-> T[id]]
  /\ \A x \in DOMAIN V : T[I[x]] = V[x]

LEMMA MirrorsDomain ==
  ASSUME NEW I, NEW T, NEW V, Mirrors(I, T, V)
  PROVE  /\ DOMAIN I = DOMAIN V
         /\ DOMAIN T = Range(I)
         /\ \A x \in DOMAIN V : I[x] \in NodeId /\ I[x] \in DOMAIN T
         /\ \A id \in DOMAIN T : \E x \in DOMAIN V : I[x] = id
         /\ \A x, y \in DOMAIN V : I[x] = I[y] => x = y
  <1>1. DOMAIN I = DOMAIN V
    BY DEF Mirrors
  <1>2. DOMAIN T = Range(I)
    BY DEF Mirrors
  <1> QED
    BY <1>1, <1>2 DEF Mirrors, Range, IsInjective

\* A node is added with a fresh id.
LEMMA MirrorsAdd ==
  ASSUME NEW I, NEW T, NEW V, Mirrors(I, T, V),
         NEW W, NEW x, x \notin DOMAIN V, NEW id \in NodeId, id \notin DOMAIN T,
         DOMAIN W = DOMAIN V \cup {x}, \A y \in DOMAIN V : W[y] = V[y]
  PROVE  Mirrors(Put(I, x, id), Put(T, id, W[x]), W)
  <1>1. /\ DOMAIN I = DOMAIN V /\ DOMAIN T = Range(I)
        /\ \A y \in DOMAIN V : I[y] \in NodeId /\ I[y] \in DOMAIN T
        /\ \A y, z \in DOMAIN V : I[y] = I[z] => y = z
    BY MirrorsDomain
  <1>2. /\ DOMAIN Put(I, x, id) = DOMAIN W
        /\ Put(I, x, id)[x] = id
        /\ \A y \in DOMAIN V : Put(I, x, id)[y] = I[y]
    BY <1>1 DEF Put
  <1>3. Put(I, x, id) \in [DOMAIN W -> NodeId]
    BY <1>1 DEF Put
  <1>4. IsInjective(Put(I, x, id))
    BY <1>1, <1>2 DEF IsInjective
  <1>5. Range(Put(I, x, id)) = DOMAIN T \cup {id}
    <2>1. DOMAIN T = {I[y] : y \in DOMAIN V}
      BY <1>1 DEF Range
    <2> QED
      BY <1>2, <2>1 DEF Range
  <1>6. Put(T, id, W[x]) = [i \in DOMAIN T \cup {id} |-> Put(T, id, W[x])[i]]
    BY DEF Put
  <1>7. \A y \in DOMAIN W : Put(T, id, W[x])[Put(I, x, id)[y]] = W[y]
    BY <1>1, <1>2 DEF Put, Mirrors
  <1> QED
    BY <1>3, <1>4, <1>5, <1>6, <1>7 DEF Mirrors

\* The nodes of S stay, with their ids and what the table holds for them.
LEMMA MirrorsRestrict ==
  ASSUME NEW I, NEW T, NEW V, Mirrors(I, T, V),
         NEW W, DOMAIN W \subseteq DOMAIN V, \A y \in DOMAIN W : W[y] = V[y]
  PROVE  Mirrors(Restrict(I, DOMAIN W), Restrict(T, Ids(I, DOMAIN W)), W)
  <1>1. /\ DOMAIN I = DOMAIN V
        /\ \A y \in DOMAIN V : I[y] \in NodeId
        /\ \A y, z \in DOMAIN V : I[y] = I[z] => y = z
    BY MirrorsDomain
  <1>2. Restrict(I, DOMAIN W) \in [DOMAIN W -> NodeId]
    BY <1>1 DEF Restrict
  <1>3. IsInjective(Restrict(I, DOMAIN W))
    BY <1>1 DEF IsInjective, Restrict
  <1>4. Range(Restrict(I, DOMAIN W)) = Ids(I, DOMAIN W)
    BY DEF Range, Restrict, Ids
  <1>5. \A y \in DOMAIN W : Restrict(T, Ids(I, DOMAIN W))[Restrict(I, DOMAIN W)[y]] = W[y]
    <2>1. \A y \in DOMAIN W : I[y] \in Ids(I, DOMAIN W)
      BY DEF Ids
    <2> QED
      BY <2>1 DEF Restrict, Mirrors
  <1>6. Restrict(T, Ids(I, DOMAIN W)) = [id \in Ids(I, DOMAIN W) |-> Restrict(T, Ids(I, DOMAIN W))[id]]
    BY DEF Restrict
  <1> QED
    BY <1>2, <1>3, <1>4, <1>5, <1>6 DEF Mirrors

\* Only what the nodes show changes.
LEMMA MirrorsUpdate ==
  ASSUME NEW I, NEW T, NEW V, Mirrors(I, T, V),
         NEW W, DOMAIN W = DOMAIN V,
         NEW U, U = [id \in DOMAIN T |-> U[id]], \A x \in DOMAIN V : U[I[x]] = W[x]
  PROVE  Mirrors(I, U, W)
  BY MirrorsDomain DEF Mirrors

\* The nodes of Q are added at once, each with a fresh id of its own.
Adding(I, T, V, Q, fid, J, U, W) ==
  /\ Mirrors(I, T, V) /\ Q \cap DOMAIN V = {}
  /\ fid \in [Q -> NodeId] /\ IsInjective(fid) /\ Range(fid) \cap DOMAIN T = {}
  /\ DOMAIN W = DOMAIN V \cup Q /\ \A y \in DOMAIN V : W[y] = V[y]
  /\ J = [y \in DOMAIN V \cup Q |-> IF y \in Q THEN fid[y] ELSE I[y]]
  /\ U = [id \in DOMAIN T \cup Range(fid) |-> U[id]]
  /\ \A id \in DOMAIN T : U[id] = T[id]
  /\ \A y \in Q : U[fid[y]] = W[y]

LEMMA MirrorsAddAll ==
  ASSUME NEW I, NEW T, NEW V, NEW Q, NEW fid, NEW J, NEW U, NEW W,
         Adding(I, T, V, Q, fid, J, U, W)
  PROVE  Mirrors(J, U, W)
  <1> USE DEF Adding
  <1>1. /\ DOMAIN I = DOMAIN V /\ DOMAIN T = Range(I)
        /\ \A y \in DOMAIN V : I[y] \in NodeId /\ I[y] \in DOMAIN T
        /\ \A y, z \in DOMAIN V : I[y] = I[z] => y = z
    BY MirrorsDomain
  <1>2. /\ \A y \in Q : fid[y] \in Range(fid) /\ J[y] = fid[y]
        /\ \A y \in DOMAIN V : J[y] = I[y]
        /\ DOMAIN J = DOMAIN W
    BY DEF Range
  <1>3. J \in [DOMAIN W -> NodeId]
    BY <1>1
  <1>4. IsInjective(J)
    <2> SUFFICES ASSUME NEW y \in DOMAIN W, NEW z \in DOMAIN W, J[y] = J[z]
                 PROVE  y = z
      BY <1>2 DEF IsInjective
    <2>1. CASE y \in Q /\ z \in Q
      BY <1>2, <2>1 DEF IsInjective
    <2>2. CASE y \in DOMAIN V /\ z \in DOMAIN V
      BY <1>1, <1>2, <2>2
    <2>3. CASE y \in Q /\ z \in DOMAIN V
      BY <1>1, <1>2, <2>3
    <2>4. CASE z \in Q /\ y \in DOMAIN V
      BY <1>1, <1>2, <2>4
    <2> QED
      BY <2>1, <2>2, <2>3, <2>4
  <1>5. Range(J) = DOMAIN T \cup Range(fid)
    <2>1. DOMAIN fid = Q
      OBVIOUS
    <2>2. \A id : id \in Range(fid) <=> \E y \in Q : fid[y] = id
      BY <2>1 DEF Range
    <2>3. \A id : id \in DOMAIN T <=> \E y \in DOMAIN V : I[y] = id
      BY <1>1 DEF Range
    <2>4. \A id : id \in Range(J) <=> \E y \in DOMAIN V \cup Q : J[y] = id
      BY <1>2 DEF Range
    <2>5. ASSUME NEW id
          PROVE  id \in Range(J) <=> id \in DOMAIN T \/ id \in Range(fid)
      <3>1. (\E y \in DOMAIN V \cup Q : J[y] = id)
              <=> (\E y \in DOMAIN V : J[y] = id) \/ (\E y \in Q : J[y] = id)
        OBVIOUS
      <3> QED
        BY <1>2, <2>2, <2>3, <2>4, <3>1
    <2> QED
      BY <2>5
  <1>6. \A y \in DOMAIN W : U[J[y]] = W[y]
    <2>1. \A y \in DOMAIN V : T[I[y]] = V[y]
      BY DEF Mirrors
    <2>2. \A y \in DOMAIN V : U[J[y]] = W[y]
      BY <1>1, <1>2, <2>1
    <2>3. \A y \in Q : U[J[y]] = W[y]
      BY <1>2
    <2> QED
      BY <2>2, <2>3
  <1>7. U = [id \in Range(J) |-> U[id]]
    BY <1>5
  <1> QED
    BY <1>3, <1>4, <1>6, <1>7 DEF Mirrors

-----------------------------------------------------------------------------
(* The server's removals on what is left of the tables after others.        *)
Shape(s) ==
  s = [conn |-> s.conn, group |-> s.group, pds |-> s.pds, writer |-> s.writer,
       field |-> s.field, node |-> s.node]

\* Server s has kept the objects with the given ids.
Kept(s, conn, group, pds, writer, field) ==
  /\ conn \subseteq DOMAIN srv.conn /\ group \subseteq DOMAIN srv.group
  /\ writer \subseteq DOMAIN srv.writer /\ field \subseteq DOMAIN srv.field
  /\ s = [conn |-> Restrict(srv.conn, conn), group |-> Restrict(srv.group, group),
          pds |-> pds, writer |-> Restrict(srv.writer, writer),
          field |-> Restrict(srv.field, field), node |-> srv.node]

LEMMA WithoutRestrict ==
  ASSUME NEW f, NEW K, NEW S
  PROVE  Without(Restrict(f, K), S) = Restrict(f, K \ S)
  BY DEF Without, Restrict

LEMMA KeptFields ==
  ASSUME NEW s, NEW c, NEW g, NEW p, NEW w, NEW f, Kept(s, c, g, p, w, f), NEW F
  PROVE  Kept(RemoveServerFields(s, F), c, g, p, w, f \ F)
  BY WithoutRestrict DEF Kept, RemoveServerFields

LEMMA KeptWriters ==
  ASSUME NEW s, NEW c, NEW g, NEW p, NEW w, NEW f, Kept(s, c, g, p, w, f), NEW W
  PROVE  Kept(RemoveServerWriters(s, W), c, g, p, w \ W, f)
  BY WithoutRestrict DEF Kept, RemoveServerWriters

LEMMA KeptDataSets ==
  ASSUME NEW s, NEW c, NEW g, NEW p, NEW w, NEW f, Kept(s, c, g, p, w, f), NEW D
  PROVE  Kept(RemoveServerDataSets(s, D), c, g, p \ D,
              {x \in w : srv.writer[x].pds \notin D}, {x \in f : srv.field[x].pds \notin D})
  <1>1. {x \in f : srv.field[x].pds \notin D}
          = f \ {x \in DOMAIN s.field : s.field[x].pds \in D}
    BY DEF Kept, Restrict
  <1>2. {x \in w : srv.writer[x].pds \notin D}
          = w \ {x \in DOMAIN s.writer : s.writer[x].pds \in D}
    BY DEF Kept, Restrict
  <1>3. Without(s.field, {x \in DOMAIN s.field : s.field[x].pds \in D})
          = Restrict(srv.field, {x \in f : srv.field[x].pds \notin D})
    BY <1>1, WithoutRestrict DEF Kept
  <1>4. Without(s.writer, {x \in DOMAIN s.writer : s.writer[x].pds \in D})
          = Restrict(srv.writer, {x \in w : srv.writer[x].pds \notin D})
    BY <1>2, WithoutRestrict DEF Kept
  <1>5. RemoveServerDataSets(s, D)
          = [s EXCEPT !.pds = p \ D,
                      !.field = Restrict(srv.field, {x \in f : srv.field[x].pds \notin D}),
                      !.writer = Restrict(srv.writer, {x \in w : srv.writer[x].pds \notin D})]
    <2>1. s.pds = p
      BY DEF Kept
    <2> QED
      BY <1>3, <1>4, <2>1, Zenon DEF RemoveServerDataSets
  <1> QED
    BY <1>5 DEF Kept

LEMMA KeptGroups ==
  ASSUME NEW s, NEW c, NEW g, NEW p, NEW w, NEW f, Kept(s, c, g, p, w, f), NEW G
  PROVE  Kept(RemoveServerGroups(s, G), c, g \ G, p, {x \in w : srv.writer[x].group \notin G}, f)
  <1>1. {x \in w : srv.writer[x].group \notin G}
          = w \ {x \in DOMAIN s.writer : s.writer[x].group \in G}
    BY DEF Kept, Restrict
  <1>2. Without(s.writer, {x \in DOMAIN s.writer : s.writer[x].group \in G})
          = Restrict(srv.writer, {x \in w : srv.writer[x].group \notin G})
    BY <1>1, WithoutRestrict DEF Kept
  <1>3. Without(s.group, G) = Restrict(srv.group, g \ G)
    BY WithoutRestrict DEF Kept
  <1>4. RemoveServerGroups(s, G)
          = [s EXCEPT !.group = Restrict(srv.group, g \ G),
                      !.writer = Restrict(srv.writer, {x \in w : srv.writer[x].group \notin G})]
    BY <1>2, <1>3, Zenon DEF RemoveServerGroups
  <1> QED
    BY <1>4 DEF Kept

LEMMA KeptConn ==
  ASSUME NEW s, NEW c, NEW g, NEW p, NEW w, NEW f, Kept(s, c, g, p, w, f), NEW C
  PROVE  Kept([s EXCEPT !.conn = Restrict(srv.conn, c \ C)], c \ C, g, p, w, f)
  BY DEF Kept

\* The ones of g that belong to a connection of C.
GroupsOn(g, C) == {x \in g : srv.group[x].conn \in C}

LEMMA KeptConnections ==
  ASSUME NEW s, NEW c, NEW g, NEW p, NEW w, NEW f, Kept(s, c, g, p, w, f), NEW C
  PROVE  Kept(RemoveServerConnections(s, C), c \ C, g \ GroupsOn(g, C), p,
              {x \in w : srv.writer[x].group \notin GroupsOn(g, C)}, f)
  <1> DEFINE left == RemoveServerGroups(s, GroupsOn(g, C))
             writers == {x \in w : srv.writer[x].group \notin GroupsOn(g, C)}
  <1>1. {x \in DOMAIN s.group : s.group[x].conn \in C} = GroupsOn(g, C)
    BY DEF Kept, Restrict, GroupsOn
  <1>2. Kept(left, c, g \ GroupsOn(g, C), p, writers, f)
    BY KeptGroups
  <1>3. Without(s.conn, C) = Restrict(srv.conn, c \ C)
    BY WithoutRestrict DEF Kept
  <1>4. left.conn = s.conn
    BY DEF Kept, RemoveServerGroups
  <1>5. RemoveServerConnections(s, C)
          = [left EXCEPT !.conn = Restrict(srv.conn, c \ C)]
    BY <1>1, <1>3, <1>4, Zenon DEF RemoveServerConnections
  <1> HIDE DEF left, writers
  <1>6. Kept([left EXCEPT !.conn = Restrict(srv.conn, c \ C)], c \ C, g \ GroupsOn(g, C), p, writers, f)
    BY <1>2, KeptConn
  <1>7. Kept(RemoveServerConnections(s, C), c \ C, g \ GroupsOn(g, C), p, writers, f)
    BY <1>5, <1>6, Zenon
  <1> QED
    BY <1>7 DEF writers

-----------------------------------------------------------------------------
(* The inductive invariant.  That a removal reaches everything needs the    *)
(* invariant of the tree and that keys start at 1 (KeysFromOne), where its  *)
(* loops start.                                                             *)

\* What the nodes of a level show.
ChannelsShown == [c \in DOMAIN conns |-> conns[c].port]
GroupsShown ==
  [g \in DOMAIN wgs |-> [conn |-> connection[g[1]], interval |-> wgs[g].interval,
                         operational |-> wgs[g].enabled]]
WritersShown == [p \in DOMAIN dts |-> [group |-> writerGroup[GroupOf(p)], pds |-> dataSet[p]]]
FieldsShown == [q \in DOMAIN fields |-> [pds |-> dataSet[DataSetOf(q)], var |-> var[q]]]

ChannelsMirrored == Mirrors(connection, srv.conn, ChannelsShown)
GroupsMirrored == Mirrors(writerGroup, srv.group, GroupsShown)
DataSetsMirrored ==
  /\ dataSet \in [DOMAIN dts -> NodeId]
  /\ IsInjective(dataSet)
  /\ srv.pds = Range(dataSet)
WritersMirrored == Mirrors(dataSetWriter, srv.writer, WritersShown)
FieldsMirrored == Mirrors(dataSetField, srv.field, FieldsShown)

\* Every Field but those of the clock has a variable node of its own.
VariablesMirrored ==
  /\ var \in [DOMAIN fields -> srv.node \cup {CurrentTime}]
  /\ srv.node \subseteq NodeId
  /\ \A q, r \in DOMAIN fields : var[q] = var[r] /\ q # r => var[q] = CurrentTime

ObjectsMirrored ==
  /\ ChannelsMirrored /\ GroupsMirrored /\ DataSetsMirrored /\ WritersMirrored
  /\ FieldsMirrored /\ VariablesMirrored

MInv == IInv /\ KeysFromOne /\ Shape(srv) /\ ObjectsMirrored

LEMMA ShownDomains ==
  /\ DOMAIN ChannelsShown = DOMAIN conns
  /\ DOMAIN GroupsShown = DOMAIN wgs
  /\ DOMAIN WritersShown = DOMAIN dts
  /\ DOMAIN FieldsShown = DOMAIN fields
  BY DEF ChannelsShown, GroupsShown, WritersShown, FieldsShown

LEMMA InvParts ==
  ASSUME MInv
  PROVE  /\ IInv /\ TreeTypeOK /\ ParentsExist /\ KeysBelowCounter /\ KeysFromOne /\ Shape(srv)
         /\ ChannelsMirrored /\ GroupsMirrored /\ DataSetsMirrored /\ WritersMirrored
         /\ FieldsMirrored /\ VariablesMirrored
  BY DEF MInv, IInv, ObjectsMirrored

-----------------------------------------------------------------------------
(* What a server holds, told by nodes: the objects of the Channels C, the   *)
(* WriterGroups G, the data sets of P, the writers of W, the Fields Q.      *)
Left(s, C, G, P, W, Q) ==
  /\ C \subseteq DOMAIN conns /\ G \subseteq DOMAIN wgs /\ P \subseteq DOMAIN dts
  /\ W \subseteq DOMAIN dts /\ Q \subseteq DOMAIN fields
  /\ Kept(s, Ids(connection, C), Ids(writerGroup, G), Ids(dataSet, P),
             Ids(dataSetWriter, W), Ids(dataSetField, Q))

LEMMA TableKept ==
  ASSUME NEW I, NEW T, NEW V, Mirrors(I, T, V)
  PROVE  T = Restrict(T, Ids(I, DOMAIN V)) /\ Ids(I, DOMAIN V) = DOMAIN T
  BY MirrorsDomain DEF Mirrors, Restrict, Ids, Range

LEMMA InjectiveIds ==
  ASSUME MInv
  PROVE  /\ \A x, y \in DOMAIN conns : connection[x] = connection[y] => x = y
         /\ \A x, y \in DOMAIN wgs : writerGroup[x] = writerGroup[y] => x = y
         /\ \A x, y \in DOMAIN dts : dataSet[x] = dataSet[y] => x = y
         /\ \A x, y \in DOMAIN dts : dataSetWriter[x] = dataSetWriter[y] => x = y
         /\ \A x, y \in DOMAIN fields : dataSetField[x] = dataSetField[y] => x = y
  <1>1. \A x, y \in DOMAIN conns : connection[x] = connection[y] => x = y
    BY InvParts, ShownDomains, MirrorsDomain DEF ChannelsMirrored
  <1>2. \A x, y \in DOMAIN wgs : writerGroup[x] = writerGroup[y] => x = y
    BY InvParts, ShownDomains, MirrorsDomain DEF GroupsMirrored
  <1>3. \A x, y \in DOMAIN dts : dataSet[x] = dataSet[y] => x = y
    BY InvParts DEF DataSetsMirrored, IsInjective
  <1>4. \A x, y \in DOMAIN dts : dataSetWriter[x] = dataSetWriter[y] => x = y
    BY InvParts, ShownDomains, MirrorsDomain DEF WritersMirrored
  <1>5. \A x, y \in DOMAIN fields : dataSetField[x] = dataSetField[y] => x = y
    BY InvParts, ShownDomains, MirrorsDomain DEF FieldsMirrored
  <1> QED
    BY <1>1, <1>2, <1>3, <1>4, <1>5

LEMMA IdsDifference ==
  ASSUME MInv
  PROVE  /\ \A S, X \in SUBSET DOMAIN conns :
               Ids(connection, S) \ Ids(connection, X) = Ids(connection, S \ X)
         /\ \A S, X \in SUBSET DOMAIN wgs :
               Ids(writerGroup, S) \ Ids(writerGroup, X) = Ids(writerGroup, S \ X)
         /\ \A S, X \in SUBSET DOMAIN dts :
               /\ Ids(dataSet, S) \ Ids(dataSet, X) = Ids(dataSet, S \ X)
               /\ Ids(dataSetWriter, S) \ Ids(dataSetWriter, X) = Ids(dataSetWriter, S \ X)
         /\ \A S, X \in SUBSET DOMAIN fields :
               Ids(dataSetField, S) \ Ids(dataSetField, X) = Ids(dataSetField, S \ X)
  <1>1. ASSUME NEW S \in SUBSET DOMAIN conns, NEW X \in SUBSET DOMAIN conns
        PROVE  Ids(connection, S) \ Ids(connection, X) = Ids(connection, S \ X)
    BY InjectiveIds DEF Ids
  <1>2. ASSUME NEW S \in SUBSET DOMAIN wgs, NEW X \in SUBSET DOMAIN wgs
        PROVE  Ids(writerGroup, S) \ Ids(writerGroup, X) = Ids(writerGroup, S \ X)
    BY InjectiveIds DEF Ids
  <1>3. ASSUME NEW S \in SUBSET DOMAIN dts, NEW X \in SUBSET DOMAIN dts
        PROVE  Ids(dataSet, S) \ Ids(dataSet, X) = Ids(dataSet, S \ X)
    BY InjectiveIds DEF Ids
  <1>4. ASSUME NEW S \in SUBSET DOMAIN dts, NEW X \in SUBSET DOMAIN dts
        PROVE  Ids(dataSetWriter, S) \ Ids(dataSetWriter, X) = Ids(dataSetWriter, S \ X)
    BY InjectiveIds DEF Ids
  <1>5. ASSUME NEW S \in SUBSET DOMAIN fields, NEW X \in SUBSET DOMAIN fields
        PROVE  Ids(dataSetField, S) \ Ids(dataSetField, X) = Ids(dataSetField, S \ X)
    BY InjectiveIds DEF Ids
  <1> QED
    BY <1>1, <1>2, <1>3, <1>4, <1>5

LEMMA LeftAll ==
  ASSUME MInv
  PROVE  Left(srv, DOMAIN conns, DOMAIN wgs, DOMAIN dts, DOMAIN dts, DOMAIN fields)
  <1>1. /\ srv.conn = Restrict(srv.conn, Ids(connection, DOMAIN conns))
        /\ Ids(connection, DOMAIN conns) = DOMAIN srv.conn
    BY InvParts, ShownDomains, TableKept DEF ChannelsMirrored
  <1>2. /\ srv.group = Restrict(srv.group, Ids(writerGroup, DOMAIN wgs))
        /\ Ids(writerGroup, DOMAIN wgs) = DOMAIN srv.group
    BY InvParts, ShownDomains, TableKept DEF GroupsMirrored
  <1>3. srv.pds = Ids(dataSet, DOMAIN dts)
    BY InvParts DEF DataSetsMirrored, Ids, Range
  <1>4. /\ srv.writer = Restrict(srv.writer, Ids(dataSetWriter, DOMAIN dts))
        /\ Ids(dataSetWriter, DOMAIN dts) = DOMAIN srv.writer
    BY InvParts, ShownDomains, TableKept DEF WritersMirrored
  <1>5. /\ srv.field = Restrict(srv.field, Ids(dataSetField, DOMAIN fields))
        /\ Ids(dataSetField, DOMAIN fields) = DOMAIN srv.field
    BY InvParts, ShownDomains, TableKept DEF FieldsMirrored
  <1>6. Shape(srv)
    BY InvParts
  <1> QED
    BY <1>1, <1>2, <1>3, <1>4, <1>5, <1>6, Zenon DEF Left, Kept, Shape

\* The references of the server's objects, told by nodes.
LEMMA References ==
  ASSUME MInv
  PROVE  /\ \A g \in DOMAIN wgs : srv.group[writerGroup[g]].conn = connection[g[1]]
         /\ \A p \in DOMAIN dts : /\ srv.writer[dataSetWriter[p]].group = writerGroup[GroupOf(p)]
                                  /\ srv.writer[dataSetWriter[p]].pds = dataSet[p]
         /\ \A q \in DOMAIN fields : srv.field[dataSetField[q]].pds = dataSet[DataSetOf(q)]
  <1>1. ASSUME NEW g \in DOMAIN wgs
        PROVE  srv.group[writerGroup[g]].conn = connection[g[1]]
    <2>1. srv.group[writerGroup[g]] = GroupsShown[g]
      BY InvParts, ShownDomains DEF GroupsMirrored, Mirrors
    <2>2. GroupsShown[g].conn = connection[g[1]]
      BY DEF GroupsShown
    <2> QED
      BY <2>1, <2>2
  <1>2. ASSUME NEW p \in DOMAIN dts
        PROVE  /\ srv.writer[dataSetWriter[p]].group = writerGroup[GroupOf(p)]
               /\ srv.writer[dataSetWriter[p]].pds = dataSet[p]
    <2>1. srv.writer[dataSetWriter[p]] = WritersShown[p]
      BY InvParts, ShownDomains DEF WritersMirrored, Mirrors
    <2>2. WritersShown[p].group = writerGroup[GroupOf(p)] /\ WritersShown[p].pds = dataSet[p]
      BY DEF WritersShown
    <2> QED
      BY <2>1, <2>2
  <1>3. ASSUME NEW q \in DOMAIN fields
        PROVE  srv.field[dataSetField[q]].pds = dataSet[DataSetOf(q)]
    <2>1. srv.field[dataSetField[q]] = FieldsShown[q]
      BY InvParts, ShownDomains DEF FieldsMirrored, Mirrors
    <2>2. FieldsShown[q].pds = dataSet[DataSetOf(q)]
      BY DEF FieldsShown
    <2> QED
      BY <2>1, <2>2
  <1> QED
    BY <1>1, <1>2, <1>3

LEMMA LeftFields ==
  ASSUME MInv, NEW s, NEW C, NEW G, NEW P, NEW W, NEW Q, Left(s, C, G, P, W, Q),
         NEW X \in SUBSET DOMAIN fields
  PROVE  Left(RemoveServerFields(s, Ids(dataSetField, X)), C, G, P, W, Q \ X)
  <1>1. Ids(dataSetField, Q) \ Ids(dataSetField, X) = Ids(dataSetField, Q \ X)
    BY IdsDifference DEF Left
  <1>2. Kept(RemoveServerFields(s, Ids(dataSetField, X)), Ids(connection, C), Ids(writerGroup, G),
             Ids(dataSet, P), Ids(dataSetWriter, W), Ids(dataSetField, Q) \ Ids(dataSetField, X))
    BY KeptFields DEF Left
  <1> QED
    BY <1>1, <1>2 DEF Left

LEMMA LeftWriters ==
  ASSUME MInv, NEW s, NEW C, NEW G, NEW P, NEW W, NEW Q, Left(s, C, G, P, W, Q),
         NEW X \in SUBSET DOMAIN dts
  PROVE  Left(RemoveServerWriters(s, Ids(dataSetWriter, X)), C, G, P, W \ X, Q)
  <1>1. Ids(dataSetWriter, W) \ Ids(dataSetWriter, X) = Ids(dataSetWriter, W \ X)
    BY IdsDifference DEF Left
  <1>2. Kept(RemoveServerWriters(s, Ids(dataSetWriter, X)), Ids(connection, C), Ids(writerGroup, G),
             Ids(dataSet, P), Ids(dataSetWriter, W) \ Ids(dataSetWriter, X), Ids(dataSetField, Q))
    BY KeptWriters DEF Left
  <1> QED
    BY <1>1, <1>2 DEF Left

LEMMA LeftDataSets ==
  ASSUME MInv, NEW s, NEW C, NEW G, NEW P, NEW W, NEW Q, Left(s, C, G, P, W, Q),
         NEW X \in SUBSET DOMAIN dts
  PROVE  Left(RemoveServerDataSets(s, Ids(dataSet, X)), C, G, P \ X, W \ X,
              {q \in Q : DataSetOf(q) \notin X})
  <1> DEFINE D == Ids(dataSet, X)
             writers == {x \in Ids(dataSetWriter, W) : srv.writer[x].pds \notin D}
             objects == {x \in Ids(dataSetField, Q) : srv.field[x].pds \notin D}
  <1>1. \A p \in DOMAIN dts : dataSet[p] \in D <=> p \in X
    BY InjectiveIds DEF Ids
  <1>2. Ids(dataSet, P) \ D = Ids(dataSet, P \ X)
    BY IdsDifference DEF Left
  <1>3. writers = Ids(dataSetWriter, W \ X)
    BY <1>1, References DEF Left, Ids
  <1>4. objects = Ids(dataSetField, {q \in Q : DataSetOf(q) \notin X})
    <2>1. \A q \in Q : DataSetOf(q) \in DOMAIN dts
      BY InvParts DEF ParentsExist, Left
    <2>2. \A q \in Q : srv.field[dataSetField[q]].pds \in D <=> DataSetOf(q) \in X
      BY <1>1, <2>1, References DEF Left
    <2> HIDE DEF D
    <2> QED
      BY <2>2 DEF Ids
  <1>5. Kept(RemoveServerDataSets(s, D), Ids(connection, C), Ids(writerGroup, G),
             Ids(dataSet, P) \ D, writers, objects)
    BY KeptDataSets DEF Left
  <1> HIDE DEF writers, objects
  <1> QED
    BY <1>2, <1>3, <1>4, <1>5 DEF Left

LEMMA LeftGroups ==
  ASSUME MInv, NEW s, NEW C, NEW G, NEW P, NEW W, NEW Q, Left(s, C, G, P, W, Q),
         NEW X \in SUBSET DOMAIN wgs
  PROVE  Left(RemoveServerGroups(s, Ids(writerGroup, X)), C, G \ X, P,
              {p \in W : GroupOf(p) \notin X}, Q)
  <1> DEFINE D == Ids(writerGroup, X)
             writers == {x \in Ids(dataSetWriter, W) : srv.writer[x].group \notin D}
  <1>1. \A g \in DOMAIN wgs : writerGroup[g] \in D <=> g \in X
    BY InjectiveIds DEF Ids
  <1>2. Ids(writerGroup, G) \ D = Ids(writerGroup, G \ X)
    BY IdsDifference DEF Left
  <1>3. writers = Ids(dataSetWriter, {p \in W : GroupOf(p) \notin X})
    <2>1. \A p \in W : GroupOf(p) \in DOMAIN wgs
      BY InvParts DEF ParentsExist, Left
    <2>2. \A p \in W : srv.writer[dataSetWriter[p]].group \in D <=> GroupOf(p) \in X
      BY <1>1, <2>1, References DEF Left
    <2> HIDE DEF D
    <2> QED
      BY <2>2 DEF Ids
  <1>4. Kept(RemoveServerGroups(s, D), Ids(connection, C), Ids(writerGroup, G) \ D,
             Ids(dataSet, P), writers, Ids(dataSetField, Q))
    BY KeptGroups DEF Left
  <1> HIDE DEF writers
  <1> QED
    BY <1>2, <1>3, <1>4 DEF Left

LEMMA LeftConnections ==
  ASSUME MInv, NEW s, NEW C, NEW G, NEW P, NEW W, NEW Q, Left(s, C, G, P, W, Q),
         NEW X \in SUBSET DOMAIN conns
  PROVE  Left(RemoveServerConnections(s, Ids(connection, X)), C \ X, {g \in G : g[1] \notin X}, P,
              {p \in W : ~ (GroupOf(p) \in G /\ p[1] \in X)}, Q)
  <1> DEFINE D == Ids(connection, X)
             H == {g \in G : g[1] \in X}
             E == GroupsOn(Ids(writerGroup, G), D)
             writers == {x \in Ids(dataSetWriter, W) : srv.writer[x].group \notin E}
  <1>1. \A c \in DOMAIN conns : connection[c] \in D <=> c \in X
    BY InjectiveIds DEF Ids
  <1>2. Ids(connection, C) \ D = Ids(connection, C \ X)
    BY IdsDifference DEF Left
  <1>3. E = Ids(writerGroup, H)
    <2>1. \A g \in G : g[1] \in DOMAIN conns
      BY InvParts DEF ParentsExist, Left
    <2>2. \A g \in G : srv.group[writerGroup[g]].conn \in D <=> g[1] \in X
      BY <1>1, <2>1, References DEF Left
    <2> HIDE DEF D
    <2> QED
      BY <2>2 DEF Ids, GroupsOn
  <1>4. Ids(writerGroup, G) \ E = Ids(writerGroup, {g \in G : g[1] \notin X})
    <2>1. Ids(writerGroup, G) \ Ids(writerGroup, H) = Ids(writerGroup, G \ H)
      BY IdsDifference DEF Left
    <2>2. G \ H = {g \in G : g[1] \notin X}
      OBVIOUS
    <2> HIDE DEF E, H
    <2> QED
      BY <1>3, <2>1, <2>2
  <1>5. writers = Ids(dataSetWriter, {p \in W : ~ (GroupOf(p) \in G /\ p[1] \in X)})
    <2>1. \A p \in W : GroupOf(p) \in DOMAIN wgs /\ GroupOf(p)[1] = p[1]
      BY InvParts DEF ParentsExist, Left, GroupOf
    <2>2. \A g \in DOMAIN wgs : writerGroup[g] \in E <=> g \in G /\ g[1] \in X
      <3> HIDE DEF E
      <3> QED
        BY <1>3, InjectiveIds DEF Ids, Left
    <2>3. \A p \in W : srv.writer[dataSetWriter[p]].group \in E <=> GroupOf(p) \in G /\ p[1] \in X
      <3> HIDE DEF E
      <3> QED
        BY <2>1, <2>2, References DEF Left
    <2> HIDE DEF E
    <2> QED
      BY <2>3 DEF Ids
  <1>6. Kept(RemoveServerConnections(s, D), Ids(connection, C) \ D, Ids(writerGroup, G) \ E,
             Ids(dataSet, P), writers, Ids(dataSetField, Q))
    <2>1. Kept(s, Ids(connection, C), Ids(writerGroup, G), Ids(dataSet, P),
               Ids(dataSetWriter, W), Ids(dataSetField, Q))
      BY DEF Left
    <2> HIDE DEF D
    <2> QED
      BY <2>1, KeptConnections
  <1> DEFINE groups == {g \in G : g[1] \notin X}
             written == {p \in W : ~ (GroupOf(p) \in G /\ p[1] \in X)}
  <1>7. groups \subseteq DOMAIN wgs /\ written \subseteq DOMAIN dts
    BY DEF Left
  <1> HIDE DEF writers, D, E, H, groups, written
  <1>8. Kept(RemoveServerConnections(s, D), Ids(connection, C \ X), Ids(writerGroup, groups),
             Ids(dataSet, P), Ids(dataSetWriter, written), Ids(dataSetField, Q))
    BY <1>2, <1>4, <1>5, <1>6 DEF groups, written
  <1>9. Left(RemoveServerConnections(s, D), C \ X, groups, P, written, Q)
    BY <1>7, <1>8 DEF Left
  <1> QED
    BY <1>9 DEF D, groups, written

-----------------------------------------------------------------------------
(* The cascades.  The loops from 1 to a counter visit every child, since    *)
(* keys start at 1 and are not ahead of the counter; what an earlier call   *)
(* took along, a later one does not find.                                   *)
LEMMA ChildrenVisited ==
  ASSUME MInv
  PROVE  /\ \A G : VisitedDataSets(G) = {p \in DOMAIN dts : GroupOf(p) \in G}
         /\ \A C : VisitedGroups(C) = {g \in DOMAIN wgs : g[1] \in C}
         /\ {c \in DOMAIN conns : c \in 1 .. connKeyInc} = DOMAIN conns
  <1>1. \A p \in DOMAIN dts : p[3] \in 1 .. wgs[GroupOf(p)].dtsKeyInc
    <2>1. \A p \in DOMAIN dts : /\ p[3] \in Int /\ p[3] >= 1
                                /\ GroupOf(p) \in DOMAIN wgs
                                /\ p[3] <= wgs[GroupOf(p)].dtsKeyInc
      BY InvParts DEF TreeTypeOK, KeysFromOne, KeysBelowCounter, ParentsExist, Key
    <2>2. \A g \in DOMAIN wgs : wgs[g].dtsKeyInc \in Int
      BY InvParts, CountersNat
    <2> QED
      BY <2>1, <2>2
  <1>2. \A g \in DOMAIN wgs : g[2] \in 1 .. conns[g[1]].wgKeyInc
    <2>1. \A g \in DOMAIN wgs : /\ g[2] \in Int /\ g[2] >= 1
                                /\ g[1] \in DOMAIN conns
                                /\ g[2] <= conns[g[1]].wgKeyInc
      BY InvParts DEF TreeTypeOK, KeysFromOne, KeysBelowCounter, ParentsExist, Key
    <2>2. \A c \in DOMAIN conns : conns[c].wgKeyInc \in Int
      BY InvParts, CountersNat
    <2> QED
      BY <2>1, <2>2
  <1>3. \A c \in DOMAIN conns : c \in 1 .. connKeyInc
    BY InvParts DEF TreeTypeOK, KeysFromOne, KeysBelowCounter, Key
  <1>4. ASSUME NEW G
        PROVE  VisitedDataSets(G) = {p \in DOMAIN dts : GroupOf(p) \in G}
    BY <1>1 DEF VisitedDataSets
  <1>5. ASSUME NEW C
        PROVE  VisitedGroups(C) = {g \in DOMAIN wgs : g[1] \in C}
    BY <1>2 DEF VisitedGroups
  <1> QED
    BY <1>3, <1>4, <1>5

LEMMA LeftWithoutDataSets ==
  ASSUME MInv, NEW s, NEW C, NEW G, NEW P, NEW W, NEW Q, Left(s, C, G, P, W, Q),
         NEW X \in SUBSET DOMAIN dts
  PROVE  Left(ServerWithoutDataSets(s, X), C, G, P \ X, W \ X, {q \in Q : DataSetOf(q) \notin X})
  <1> DEFINE F == VisitedFields(X)
             s1 == RemoveServerFields(s, Ids(dataSetField, F))
             s2 == RemoveServerDataSets(s1, Ids(dataSet, X))
             kept == {q \in Q \ F : DataSetOf(q) \notin X}
  <1>1. F \in SUBSET DOMAIN fields /\ \A q \in F : DataSetOf(q) \in X
    BY DEF VisitedFields
  <1>2. ServerWithoutDataSets(s, X) = RemoveServerWriters(s2, Ids(dataSetWriter, X))
    BY DEF ServerWithoutDataSets
  <1>3. kept = {q \in Q : DataSetOf(q) \notin X}
    BY <1>1
  <1> HIDE DEF F
  <1>4. Left(s1, C, G, P, W, Q \ F)
    BY <1>1, LeftFields
  <1> HIDE DEF s1
  <1>5. Left(s2, C, G, P \ X, W \ X, kept)
    BY <1>4, LeftDataSets
  <1> HIDE DEF s2, kept
  <1>6. Left(RemoveServerWriters(s2, Ids(dataSetWriter, X)), C, G, P \ X, (W \ X) \ X, kept)
    BY <1>5, LeftWriters
  <1>7. (W \ X) \ X = W \ X
    OBVIOUS
  <1> QED
    BY <1>2, <1>3, <1>6, <1>7

LEMMA LeftWithoutGroups ==
  ASSUME MInv, NEW s, NEW C, NEW G, NEW P, NEW W, NEW Q, Left(s, C, G, P, W, Q),
         NEW X \in SUBSET DOMAIN wgs
  PROVE  Left(ServerWithoutGroups(s, X), C, G \ X, {p \in P : GroupOf(p) \notin X},
              {p \in W : GroupOf(p) \notin X}, {q \in Q : GroupOf(q) \notin X})
  <1> DEFINE D == {p \in DOMAIN dts : GroupOf(p) \in X}
             s1 == ServerWithoutDataSets(s, D)
             kept == {q \in Q : DataSetOf(q) \notin D}
             groups == {p \in W \ D : GroupOf(p) \notin X}
  <1>1. ServerWithoutGroups(s, X) = RemoveServerGroups(s1, Ids(writerGroup, X))
    BY ChildrenVisited DEF ServerWithoutGroups
  <1>2. Left(s1, C, G, P \ D, W \ D, kept)
    <2>1. D \in SUBSET DOMAIN dts
      OBVIOUS
    <2> HIDE DEF D
    <2> QED
      BY <2>1, LeftWithoutDataSets
  <1>3. Left(RemoveServerGroups(s1, Ids(writerGroup, X)), C, G \ X, P \ D, groups, kept)
    <2> HIDE DEF s1, D, kept
    <2> QED
      BY <1>2, LeftGroups
  <1>4. P \ D = {p \in P : GroupOf(p) \notin X} /\ groups = {p \in W : GroupOf(p) \notin X}
    BY DEF Left
  <1>5. kept = {q \in Q : GroupOf(q) \notin X}
    <2>1. \A q \in Q : DataSetOf(q) \in DOMAIN dts /\ GroupOf(DataSetOf(q)) = GroupOf(q)
      BY InvParts DEF ParentsExist, Left, GroupOf, DataSetOf
    <2> QED
      BY <2>1
  <1> HIDE DEF s1, D, kept, groups
  <1> QED
    BY <1>1, <1>3, <1>4, <1>5

LEMMA LeftWithoutChannels ==
  ASSUME MInv, NEW s, NEW C, NEW G, NEW P, NEW W, NEW Q, Left(s, C, G, P, W, Q),
         NEW X \in SUBSET DOMAIN conns
  PROVE  Left(ServerWithoutChannels(s, X), C \ X, {g \in G : g[1] \notin X},
              {p \in P : p[1] \notin X}, {p \in W : p[1] \notin X}, {q \in Q : q[1] \notin X})
  <1> DEFINE H == {g \in DOMAIN wgs : g[1] \in X}
             s1 == RemoveServerConnections(s, Ids(connection, X))
             groups == {g \in G : g[1] \notin X}
             written == {p \in W : ~ (GroupOf(p) \in G /\ p[1] \in X)}
             dataSets == {p \in P : GroupOf(p) \notin H}
             writers == {p \in written : GroupOf(p) \notin H}
             objects == {q \in Q : GroupOf(q) \notin H}
  <1>1. ServerWithoutChannels(s, X) = ServerWithoutGroups(s1, H)
    BY ChildrenVisited DEF ServerWithoutChannels
  <1>2. Left(s1, C \ X, groups, P, written, Q)
    BY LeftConnections
  <1>3. Left(ServerWithoutGroups(s1, H), C \ X, groups \ H, dataSets, writers, objects)
    <2>1. H \in SUBSET DOMAIN wgs
      OBVIOUS
    <2> HIDE DEF s1, H, groups, written
    <2> QED
      BY <1>2, <2>1, LeftWithoutGroups
  <1>4. groups \ H = groups
    OBVIOUS
  <1>5. \A p \in DOMAIN dts : GroupOf(p) \in H <=> p[1] \in X
    <2>1. \A p \in DOMAIN dts : GroupOf(p) \in DOMAIN wgs /\ GroupOf(p)[1] = p[1]
      BY InvParts DEF ParentsExist, GroupOf
    <2> QED
      BY <2>1
  <1>6. \A q \in DOMAIN fields : GroupOf(q) \in H <=> q[1] \in X
    <2>1. \A q \in DOMAIN fields : /\ DataSetOf(q) \in DOMAIN dts
                                   /\ GroupOf(DataSetOf(q)) = GroupOf(q) /\ DataSetOf(q)[1] = q[1]
      BY InvParts DEF ParentsExist, GroupOf, DataSetOf
    <2> HIDE DEF H
    <2> QED
      BY <1>5, <2>1
  <1>7. W \subseteq DOMAIN dts /\ P \subseteq DOMAIN dts /\ Q \subseteq DOMAIN fields
    BY DEF Left
  <1> HIDE DEF H
  <1>8. /\ dataSets = {p \in P : p[1] \notin X}
        /\ objects = {q \in Q : q[1] \notin X}
    BY <1>5, <1>6, <1>7
  <1>9. writers = {p \in W : p[1] \notin X}
    BY <1>5, <1>7
  <1> HIDE DEF s1, groups, written, dataSets, writers, objects
  <1>10. Left(ServerWithoutChannels(s, X), C \ X, groups, dataSets, writers, objects)
    BY <1>1, <1>3, <1>4
  <1> QED
    BY <1>8, <1>9, <1>10 DEF groups

-----------------------------------------------------------------------------
(* A removal: the nodes C, G, P and Q stay, and so do their objects.        *)
Stay(C, G, P, Q) ==
  /\ DOMAIN conns' = C /\ C \subseteq DOMAIN conns /\ \A c \in C : conns'[c] = conns[c]
  /\ DOMAIN wgs' = G /\ G \subseteq DOMAIN wgs /\ \A g \in G : wgs'[g] = wgs[g]
  /\ DOMAIN dts' = P /\ P \subseteq DOMAIN dts /\ \A p \in P : dts'[p] = dts[p]
  /\ DOMAIN fields' = Q /\ Q \subseteq DOMAIN fields /\ \A q \in Q : fields'[q] = fields[q]

LEMMA MirrorRemoved ==
  ASSUME MInv, IInv', NEW C, NEW G, NEW P, NEW Q, Stay(C, G, P, Q),
         Left(srv', C, G, P, P, Q), ForgetIds
  PROVE  MInv'
  <1>1. /\ DOMAIN conns' = C /\ C \subseteq DOMAIN conns
        /\ DOMAIN wgs' = G /\ G \subseteq DOMAIN wgs
        /\ DOMAIN dts' = P /\ P \subseteq DOMAIN dts
        /\ DOMAIN fields' = Q /\ Q \subseteq DOMAIN fields
    BY DEF Stay
  <1>2. /\ connection' = Restrict(connection, C) /\ writerGroup' = Restrict(writerGroup, G)
        /\ dataSet' = Restrict(dataSet, P) /\ dataSetWriter' = Restrict(dataSetWriter, P)
        /\ dataSetField' = Restrict(dataSetField, Q) /\ var' = Restrict(var, Q)
    BY <1>1 DEF ForgetIds
  <1>3. /\ srv'.conn = Restrict(srv.conn, Ids(connection, C))
        /\ srv'.group = Restrict(srv.group, Ids(writerGroup, G))
        /\ srv'.pds = Ids(dataSet, P)
        /\ srv'.writer = Restrict(srv.writer, Ids(dataSetWriter, P))
        /\ srv'.field = Restrict(srv.field, Ids(dataSetField, Q))
        /\ srv'.node = srv.node
        /\ Shape(srv)'
    BY DEF Left, Kept, Shape
  <1>4. /\ \A g \in G : g[1] \in C
        /\ \A p \in P : GroupOf(p) \in G
        /\ \A q \in Q : DataSetOf(q) \in P
    BY <1>1 DEF IInv, ParentsExist
  <1>5. KeysFromOne'
    BY <1>1, InvParts DEF KeysFromOne
  <1>6. ChannelsMirrored'
    <2> DEFINE V == ChannelsShown
               W == ChannelsShown'
    <2>1. DOMAIN W = C /\ DOMAIN V = DOMAIN conns /\ \A c \in C : W[c] = V[c]
      BY <1>1 DEF ChannelsShown, Stay
    <2>2. Mirrors(connection, srv.conn, V)
      BY InvParts DEF ChannelsMirrored
    <2> HIDE DEF V, W
    <2>3. Mirrors(Restrict(connection, C), Restrict(srv.conn, Ids(connection, C)), W)
      BY <1>1, <2>1, <2>2, MirrorsRestrict
    <2> QED
      BY <1>2, <1>3, <2>3 DEF ChannelsMirrored, W
  <1>7. GroupsMirrored'
    <2> DEFINE V == GroupsShown
               W == GroupsShown'
    <2>1. DOMAIN W = G /\ DOMAIN V = DOMAIN wgs
      BY <1>1 DEF GroupsShown
    <2>2. ASSUME NEW g \in G
          PROVE  W[g] = V[g]
      <3>1. wgs'[g] = wgs[g] /\ g \in DOMAIN wgs /\ g \in DOMAIN wgs'
        BY <1>1 DEF Stay
      <3>2. connection'[g[1]] = connection[g[1]]
        BY <1>2, <1>4 DEF Restrict
      <3> QED
        BY <3>1, <3>2 DEF GroupsShown
    <2>3. Mirrors(writerGroup, srv.group, V)
      BY InvParts DEF GroupsMirrored
    <2> HIDE DEF V, W
    <2>4. Mirrors(Restrict(writerGroup, G), Restrict(srv.group, Ids(writerGroup, G)), W)
      BY <1>1, <2>1, <2>2, <2>3, MirrorsRestrict
    <2> QED
      BY <1>2, <1>3, <2>4 DEF GroupsMirrored, W
  <1>8. DataSetsMirrored'
    <2>1. dataSet \in [DOMAIN dts -> NodeId] /\ IsInjective(dataSet)
      BY InvParts DEF DataSetsMirrored
    <2>2. dataSet' \in [P -> NodeId] /\ IsInjective(dataSet')
      BY <1>1, <1>2, <2>1 DEF IsInjective, Restrict
    <2>3. Range(dataSet') = Ids(dataSet, P)
      BY <1>2 DEF Range, Ids, Restrict
    <2> QED
      BY <1>1, <1>3, <2>2, <2>3 DEF DataSetsMirrored
  <1>9. WritersMirrored'
    <2> DEFINE V == WritersShown
               W == WritersShown'
    <2>1. DOMAIN W = P /\ DOMAIN V = DOMAIN dts
      BY <1>1 DEF WritersShown
    <2>2. ASSUME NEW p \in P
          PROVE  W[p] = V[p]
      <3>1. p \in DOMAIN dts /\ p \in DOMAIN dts'
        BY <1>1
      <3>2. writerGroup'[GroupOf(p)] = writerGroup[GroupOf(p)] /\ dataSet'[p] = dataSet[p]
        BY <1>2, <1>4 DEF Restrict
      <3> QED
        BY <3>1, <3>2 DEF WritersShown
    <2>3. Mirrors(dataSetWriter, srv.writer, V)
      BY InvParts DEF WritersMirrored
    <2> HIDE DEF V, W
    <2>4. Mirrors(Restrict(dataSetWriter, P), Restrict(srv.writer, Ids(dataSetWriter, P)), W)
      BY <1>1, <2>1, <2>2, <2>3, MirrorsRestrict
    <2> QED
      BY <1>2, <1>3, <2>4 DEF WritersMirrored, W
  <1>10. FieldsMirrored'
    <2> DEFINE V == FieldsShown
               W == FieldsShown'
    <2>1. DOMAIN W = Q /\ DOMAIN V = DOMAIN fields
      BY <1>1 DEF FieldsShown
    <2>2. ASSUME NEW q \in Q
          PROVE  W[q] = V[q]
      <3>1. q \in DOMAIN fields /\ q \in DOMAIN fields'
        BY <1>1
      <3>2. dataSet'[DataSetOf(q)] = dataSet[DataSetOf(q)] /\ var'[q] = var[q]
        BY <1>2, <1>4 DEF Restrict
      <3> QED
        BY <3>1, <3>2 DEF FieldsShown
    <2>3. Mirrors(dataSetField, srv.field, V)
      BY InvParts DEF FieldsMirrored
    <2> HIDE DEF V, W
    <2>4. Mirrors(Restrict(dataSetField, Q), Restrict(srv.field, Ids(dataSetField, Q)), W)
      BY <1>1, <2>1, <2>2, <2>3, MirrorsRestrict
    <2> QED
      BY <1>2, <1>3, <2>4 DEF FieldsMirrored, W
  <1>11. VariablesMirrored'
    <2>1. VariablesMirrored
      BY InvParts
    <2> QED
      BY <1>1, <1>2, <1>3, <2>1 DEF VariablesMirrored, Restrict
  <1> QED
    BY <1>3, <1>5, <1>6, <1>7, <1>8, <1>9, <1>10, <1>11 DEF MInv, ObjectsMirrored

LEMMA MirrorInvRemoveField ==
  ASSUME MInv, NEW p \in DOMAIN dts, NEW f \in FieldKeys(p), MirrorRemoveField(p, f)
  PROVE  MInv'
  <1> DEFINE q == <<p[1], p[2], p[3], f>>
             Q == DOMAIN fields \ {q}
  <1>1. RemoveField(p, f) /\ ForgetIds
    BY DEF MirrorRemoveField
  <1>2. q \in DOMAIN fields
    BY InvParts, FieldPath
  <1>3. Stay(DOMAIN conns, DOMAIN wgs, DOMAIN dts, Q)
    BY <1>1 DEF RemoveField, RemoveData, Stay, Restrict
  <1>4. IInv'
    BY <1>1, InvParts, InvRemoveField
  <1>5. srv' = RemoveServerFields(srv, Ids(dataSetField, {q}))
    BY DEF MirrorRemoveField, Ids
  <1>6. Left(srv', DOMAIN conns, DOMAIN wgs, DOMAIN dts, DOMAIN dts, Q)
    <2> HIDE DEF q
    <2> QED
      BY <1>2, <1>5, LeftAll, LeftFields
  <1> HIDE DEF Q
  <1> QED
    BY <1>1, <1>3, <1>4, <1>6, MirrorRemoved

LEMMA MirrorInvRemoveDataset ==
  ASSUME MInv, NEW p \in DOMAIN dts, MirrorRemoveDataset(p)
  PROVE  MInv'
  <1> DEFINE P == DOMAIN dts \ {p}
             Q == {q \in DOMAIN fields : DataSetOf(q) \notin {p}}
  <1>1. RemoveDataset(p) /\ ForgetIds
    BY DEF MirrorRemoveDataset
  <1>2. Stay(DOMAIN conns, DOMAIN wgs, P, Q)
    BY <1>1 DEF RemoveDataset, Stay, Restrict
  <1>3. IInv'
    BY <1>1, InvParts, InvRemoveDataset
  <1>4. srv' = ServerWithoutDataSets(srv, {p})
    BY DEF MirrorRemoveDataset
  <1>5. Left(srv', DOMAIN conns, DOMAIN wgs, P, P, Q)
    BY <1>4, LeftAll, LeftWithoutDataSets
  <1> HIDE DEF P, Q
  <1> QED
    BY <1>1, <1>2, <1>3, <1>5, MirrorRemoved

LEMMA MirrorInvRemoveWritergroup ==
  ASSUME MInv, NEW g \in DOMAIN wgs, MirrorRemoveWritergroup(g)
  PROVE  MInv'
  <1> DEFINE G == DOMAIN wgs \ {g}
             P == {p \in DOMAIN dts : GroupOf(p) \notin {g}}
             Q == {q \in DOMAIN fields : GroupOf(q) \notin {g}}
  <1>1. RemoveWritergroup(g) /\ ForgetIds
    BY DEF MirrorRemoveWritergroup
  <1>2. Stay(DOMAIN conns, G, P, Q)
    BY <1>1 DEF RemoveWritergroup, Stay, Restrict
  <1>3. IInv'
    BY <1>1, InvParts, InvRemoveWritergroup
  <1>4. srv' = ServerWithoutGroups(srv, {g})
    BY DEF MirrorRemoveWritergroup
  <1>5. Left(srv', DOMAIN conns, G, P, P, Q)
    BY <1>4, LeftAll, LeftWithoutGroups
  <1> HIDE DEF G, P, Q
  <1> QED
    BY <1>1, <1>2, <1>3, <1>5, MirrorRemoved

LEMMA MirrorInvDeleteConnection ==
  ASSUME MInv, NEW c \in DOMAIN conns, MirrorDeleteConnection(c)
  PROVE  MInv'
  <1> DEFINE C == DOMAIN conns \ {c}
             G == {g \in DOMAIN wgs : g[1] \notin {c}}
             P == {p \in DOMAIN dts : p[1] \notin {c}}
             Q == {q \in DOMAIN fields : q[1] \notin {c}}
  <1>1. DeleteConnection(c) /\ ForgetIds
    BY DEF MirrorDeleteConnection
  <1>2. Stay(C, G, P, Q)
    BY <1>1 DEF DeleteConnection, Stay, Restrict
  <1>3. IInv'
    BY <1>1, InvParts, InvDeleteConnection
  <1>4. srv' = ServerWithoutChannels(srv, {c})
    BY DEF MirrorDeleteConnection
  <1>5. Left(srv', C, G, P, P, Q)
    BY <1>4, LeftAll, LeftWithoutChannels
  <1> HIDE DEF C, G, P, Q
  <1> QED
    BY <1>1, <1>2, <1>3, <1>5, MirrorRemoved

LEMMA MirrorInvDeleteAll ==
  ASSUME MInv, MirrorDeleteAllConnections
  PROVE  MInv'
  <1> DEFINE X == DOMAIN conns
             G == {g \in DOMAIN wgs : g[1] \notin X}
             P == {p \in DOMAIN dts : p[1] \notin X}
             Q == {q \in DOMAIN fields : q[1] \notin X}
  <1>1. DeleteAllConnections /\ ForgetIds
    BY DEF MirrorDeleteAllConnections
  <1>2. X \ X = {} /\ G = {} /\ P = {} /\ Q = {}
    <2>1. \A g \in DOMAIN wgs : g[1] \in X
      BY InvParts DEF ParentsExist
    <2>2. \A p \in DOMAIN dts : GroupOf(p) \in DOMAIN wgs /\ GroupOf(p)[1] = p[1]
      BY InvParts DEF ParentsExist, GroupOf
    <2>3. \A q \in DOMAIN fields : DataSetOf(q) \in DOMAIN dts /\ DataSetOf(q)[1] = q[1]
      BY InvParts DEF ParentsExist, DataSetOf
    <2> QED
      BY <2>1, <2>2, <2>3
  <1>3. Stay({}, {}, {}, {})
    BY <1>1 DEF DeleteAllConnections, Stay
  <1>4. IInv'
    BY <1>1, InvDeleteAll
  <1>5. srv' = ServerWithoutChannels(srv, X)
    BY ChildrenVisited DEF MirrorDeleteAllConnections
  <1>6. Left(srv', X \ X, G, P, P, Q)
    BY <1>5, LeftAll, LeftWithoutChannels
  <1> HIDE DEF X, G, P, Q
  <1>7. Left(srv', {}, {}, {}, {}, {})
    BY <1>2, <1>6
  <1> QED
    BY <1>1, <1>3, <1>4, <1>7, MirrorRemoved

-----------------------------------------------------------------------------
(* Adding.  What the tree's add actions leave behind: a node under a key    *)
(* that was free, and every other node as it was.                           *)
LEMMA NewChannel ==
  ASSUME IInv, Room(connKeyInc, 1), NEW port \in Port, CreateConnection(port)
  PROVE  /\ connKeyInc' \notin DOMAIN conns /\ connKeyInc' >= 1
         /\ DOMAIN conns' = DOMAIN conns \cup {connKeyInc'}
         /\ conns'[connKeyInc'].port = port
         /\ \A c \in DOMAIN conns : conns'[c] = conns[c]
         /\ UNCHANGED <<wgs, dts, fields>>
  <1>1. connKeyInc' = connKeyInc + 1 /\ connKeyInc \in Nat
    BY IncNext DEF IInv, TreeTypeOK, Room, CreateConnection, Key
  <1>2. connKeyInc' \notin DOMAIN conns
    BY <1>1 DEF IInv, KeysBelowCounter, TreeTypeOK, Key
  <1>3. conns' = Put(conns, connKeyInc', NewConnection(port))
    BY <1>2 DEF CreateConnection, PutNew
  <1> QED
    BY <1>1, <1>2, <1>3 DEF Put, NewConnection, CreateConnection

LEMMA NewWritergroup ==
  ASSUME IInv, NEW c \in DOMAIN conns, Room(conns[c].wgKeyInc, 1), AddWritergroup(c),
         NEW g, g = <<c, conns'[c].wgKeyInc>>
  PROVE  /\ g \notin DOMAIN wgs /\ g[1] = c /\ g[2] >= 1
         /\ DOMAIN wgs' = DOMAIN wgs \cup {g} /\ wgs'[g] = NewGroup
         /\ \A h \in DOMAIN wgs : wgs'[h] = wgs[h]
         /\ DOMAIN conns' = DOMAIN conns
         /\ \A d \in DOMAIN conns : conns'[d].port = conns[d].port
         /\ UNCHANGED <<dts, fields>>
  <1> DEFINE w == Inc(conns[c].wgKeyInc)
  <1>1. w = conns[c].wgKeyInc + 1 /\ conns[c].wgKeyInc \in Nat
    BY IncNext, CountersNat DEF IInv, TreeTypeOK, Room
  <1>2. conns'[c].wgKeyInc = w
    BY DEF AddWritergroup, IInv, TreeTypeOK
  <1>3. <<c, w>> \notin DOMAIN wgs
    BY <1>1 DEF IInv, KeysBelowCounter
  <1>4. wgs' = Put(wgs, <<c, w>>, NewGroup)
    BY <1>3 DEF AddWritergroup, PutNew
  <1>5. DOMAIN conns' = DOMAIN conns /\ \A d \in DOMAIN conns : conns'[d].port = conns[d].port
    BY DEF AddWritergroup, IInv, TreeTypeOK
  <1>6. UNCHANGED <<dts, fields>>
    BY DEF AddWritergroup
  <1> HIDE DEF w
  <1> QED
    BY <1>1, <1>2, <1>3, <1>4, <1>5, <1>6 DEF Put

LEMMA NewDataset ==
  ASSUME IInv, NEW g \in DOMAIN wgs, Room(wgs[g].dtsKeyInc, 1),
         NEW isString \in BOOLEAN, AddDataset(g, isString),
         NEW p, p = <<g[1], g[2], Inc(wgs[g].dtsKeyInc)>>
  PROVE  /\ p \notin DOMAIN dts /\ GroupOf(p) = g /\ p[3] >= 1
         /\ DOMAIN dts' = DOMAIN dts \cup {p}
         /\ \A r \in DOMAIN dts : dts'[r] = dts[r]
         /\ DOMAIN wgs' = DOMAIN wgs
         /\ \A h \in DOMAIN wgs : wgs'[h].interval = wgs[h].interval /\ wgs'[h].enabled = wgs[h].enabled
         /\ UNCHANGED <<conns, fields>>
  <1> DEFINE d == Inc(wgs[g].dtsKeyInc)
  <1>1. d = wgs[g].dtsKeyInc + 1 /\ wgs[g].dtsKeyInc \in Nat
    BY IncNext, CountersNat DEF IInv, TreeTypeOK, Room
  <1>2. GroupOf(p) = g /\ p[3] = d
    BY DEF IInv, TreeTypeOK, GroupOf
  <1> HIDE DEF d
  <1>3. p \notin DOMAIN dts
    BY <1>1, <1>2 DEF IInv, KeysBelowCounter
  <1>4. dts' = Put(dts, p, NewDataSet(isString))
    BY <1>3 DEF AddDataset, PutNew
  <1>5. /\ DOMAIN wgs' = DOMAIN wgs
        /\ \A h \in DOMAIN wgs : wgs'[h].interval = wgs[h].interval /\ wgs'[h].enabled = wgs[h].enabled
    BY DEF AddDataset, IInv, TreeTypeOK
  <1>6. UNCHANGED <<conns, fields>>
    BY DEF AddDataset
  <1> QED
    BY <1>1, <1>2, <1>3, <1>4, <1>5, <1>6 DEF Put

-----------------------------------------------------------------------------
(* What stays as it is when other levels change.                            *)
LEMMA GroupsShownSame ==
  ASSUME MInv, \A c \in DOMAIN conns : connection'[c] = connection[c],
         DOMAIN wgs' = DOMAIN wgs,
         \A h \in DOMAIN wgs : wgs'[h].interval = wgs[h].interval /\ wgs'[h].enabled = wgs[h].enabled
  PROVE  GroupsShown' = GroupsShown
  BY InvParts DEF GroupsShown, ParentsExist

LEMMA WritersShownSame ==
  ASSUME MInv, \A g \in DOMAIN wgs : writerGroup'[g] = writerGroup[g],
         UNCHANGED <<dts, dataSet>>
  PROVE  WritersShown' = WritersShown
  BY InvParts DEF WritersShown, ParentsExist

LEMMA FieldsShownSame ==
  ASSUME MInv, \A p \in DOMAIN dts : dataSet'[p] = dataSet[p], UNCHANGED <<fields, var>>
  PROVE  FieldsShown' = FieldsShown
  BY InvParts DEF FieldsShown, ParentsExist

LEMMA VariablesSame ==
  ASSUME MInv, UNCHANGED <<fields, var>>, srv'.node = srv.node
  PROVE  VariablesMirrored'
  BY InvParts DEF VariablesMirrored

\* One id, as the server gives it out.
LEMMA FreshId ==
  ASSUME NEW used, NEW id \in Fresh(used)
  PROVE  id \in NodeId /\ id \notin used
  <1>1. 1 \in 0 .. KeyBound + 1
    BY ConstantsOK
  <1>2. NodeId \ used \in SUBSET NodeId
    OBVIOUS
  <1>3. Offered(NodeId \ used, 1) \subseteq NodeId \ used
    BY <1>1, <1>2, OfferedOK
  <1> QED
    BY <1>3 DEF Fresh

LEMMA MirrorInvCreateConnection ==
  ASSUME MInv, Room(connKeyInc, 1), NEW port \in Port, MirrorCreateConnection(port)
  PROVE  MInv'
  <1>1. CreateConnection(port)
    BY DEF MirrorCreateConnection
  <1>2. /\ connKeyInc' \notin DOMAIN conns /\ connKeyInc' >= 1
        /\ DOMAIN conns' = DOMAIN conns \cup {connKeyInc'}
        /\ conns'[connKeyInc'].port = port
        /\ \A c \in DOMAIN conns : conns'[c] = conns[c]
        /\ UNCHANGED <<wgs, dts, fields>>
    BY <1>1, InvParts, NewChannel
  <1>3. PICK id \in Fresh(DOMAIN srv.conn) :
          /\ connection' = Put(connection, connKeyInc', id)
          /\ srv' = [srv EXCEPT !.conn = Put(@, id, port)]
    BY DEF MirrorCreateConnection
  <1>4. UNCHANGED <<writerGroup, dataSet, dataSetWriter, dataSetField, var>>
    BY DEF MirrorCreateConnection
  <1>5. /\ srv'.conn = Put(srv.conn, id, port) /\ srv'.group = srv.group /\ srv'.pds = srv.pds
        /\ srv'.writer = srv.writer /\ srv'.field = srv.field /\ srv'.node = srv.node
        /\ Shape(srv)'
    BY <1>3, InvParts DEF Shape
  <1>6. id \in NodeId /\ id \notin DOMAIN srv.conn
    BY FreshId
  <1>7. IInv'
    BY <1>1, InvParts, InvCreateConnection
  <1>8. KeysFromOne'
    BY <1>2, InvParts DEF KeysFromOne
  <1>9. ChannelsMirrored'
    <2> DEFINE V == ChannelsShown
               W == ChannelsShown'
    <2>1. /\ DOMAIN W = DOMAIN V \cup {connKeyInc'} /\ connKeyInc' \notin DOMAIN V
          /\ \A c \in DOMAIN V : W[c] = V[c]
          /\ W[connKeyInc'] = port
      BY <1>2 DEF ChannelsShown
    <2>2. Mirrors(connection, srv.conn, V)
      BY InvParts DEF ChannelsMirrored
    <2> HIDE DEF V, W
    <2>3. Mirrors(Put(connection, connKeyInc', id), Put(srv.conn, id, W[connKeyInc']), W)
      BY <1>6, <2>1, <2>2, MirrorsAdd
    <2> QED
      BY <1>3, <1>5, <2>1, <2>3 DEF ChannelsMirrored, W
  <1>10. \A c \in DOMAIN conns : connection'[c] = connection[c]
    <2>1. DOMAIN connection = DOMAIN conns
      BY InvParts, ShownDomains, MirrorsDomain DEF ChannelsMirrored
    <2> QED
      BY <1>2, <1>3, <2>1 DEF Put
  <1>11. GroupsMirrored'
    BY <1>2, <1>4, <1>5, <1>10, InvParts, GroupsShownSame DEF GroupsMirrored
  <1>12. DataSetsMirrored'
    BY <1>2, <1>4, <1>5, InvParts DEF DataSetsMirrored
  <1>13. WritersMirrored'
    BY <1>2, <1>4, <1>5, InvParts, WritersShownSame DEF WritersMirrored
  <1>14. FieldsMirrored'
    BY <1>2, <1>4, <1>5, InvParts, FieldsShownSame DEF FieldsMirrored
  <1>15. VariablesMirrored'
    BY <1>2, <1>4, <1>5, VariablesSame
  <1> QED
    BY <1>5, <1>7, <1>8, <1>9, <1>11, <1>12, <1>13, <1>14, <1>15 DEF MInv, ObjectsMirrored

LEMMA MirrorInvAddWritergroup ==
  ASSUME MInv, NEW c \in DOMAIN conns, Room(conns[c].wgKeyInc, 1), MirrorAddWritergroup(c)
  PROVE  MInv'
  <1> DEFINE g == <<c, conns'[c].wgKeyInc>>
             shown == [conn |-> connection[c], interval |-> DefaultInterval, operational |-> TRUE]
  <1>1. AddWritergroup(c)
    BY DEF MirrorAddWritergroup
  <1>2. /\ g \notin DOMAIN wgs /\ g[1] = c /\ g[2] >= 1
        /\ DOMAIN wgs' = DOMAIN wgs \cup {g} /\ wgs'[g] = NewGroup
        /\ \A h \in DOMAIN wgs : wgs'[h] = wgs[h]
        /\ DOMAIN conns' = DOMAIN conns
        /\ \A d \in DOMAIN conns : conns'[d].port = conns[d].port
        /\ UNCHANGED <<dts, fields>>
    BY <1>1, InvParts, NewWritergroup
  <1>3. PICK id \in Fresh(DOMAIN srv.group) :
          /\ writerGroup' = Put(writerGroup, g, id)
          /\ srv' = [srv EXCEPT !.group = Put(@, id, shown)]
    BY DEF MirrorAddWritergroup
  <1>4. UNCHANGED <<connection, dataSet, dataSetWriter, dataSetField, var>>
    BY DEF MirrorAddWritergroup
  <1> HIDE DEF g, shown
  <1>5. /\ srv'.group = Put(srv.group, id, shown) /\ srv'.conn = srv.conn /\ srv'.pds = srv.pds
        /\ srv'.writer = srv.writer /\ srv'.field = srv.field /\ srv'.node = srv.node
        /\ Shape(srv)'
    BY <1>3, InvParts DEF Shape
  <1>6. id \in NodeId /\ id \notin DOMAIN srv.group
    BY FreshId
  <1>7. IInv'
    BY <1>1, InvParts, InvAddWritergroup
  <1>8. KeysFromOne'
    BY <1>2, InvParts DEF KeysFromOne
  <1>9. ChannelsMirrored'
    <2>1. ChannelsShown' = ChannelsShown
      BY <1>2 DEF ChannelsShown
    <2> QED
      BY <1>4, <1>5, <2>1, InvParts DEF ChannelsMirrored
  <1>10. GroupsMirrored'
    <2> DEFINE V == GroupsShown
               W == GroupsShown'
    <2>1. /\ DOMAIN W = DOMAIN V \cup {g} /\ g \notin DOMAIN V
          /\ \A h \in DOMAIN V : W[h] = V[h]
      BY <1>2, <1>4 DEF GroupsShown
    <2>2. W[g] = shown
      <3>1. wgs'[g].interval = DefaultInterval /\ wgs'[g].enabled = TRUE
        BY <1>2 DEF NewGroup
      <3>2. W[g] = [conn |-> connection[c], interval |-> wgs'[g].interval,
                    operational |-> wgs'[g].enabled]
        BY <1>2, <1>4 DEF GroupsShown
      <3> HIDE DEF W
      <3> QED
        BY <3>1, <3>2, Zenon DEF shown
    <2>3. Mirrors(writerGroup, srv.group, V)
      BY InvParts DEF GroupsMirrored
    <2> HIDE DEF V, W
    <2>4. Mirrors(Put(writerGroup, g, id), Put(srv.group, id, W[g]), W)
      BY <1>6, <2>1, <2>3, MirrorsAdd
    <2> QED
      BY <1>3, <1>5, <2>2, <2>4 DEF GroupsMirrored, W
  <1>11. \A h \in DOMAIN wgs : writerGroup'[h] = writerGroup[h]
    <2>1. DOMAIN writerGroup = DOMAIN wgs
      BY InvParts, ShownDomains, MirrorsDomain DEF GroupsMirrored
    <2> QED
      BY <1>2, <1>3, <2>1 DEF Put
  <1>12. DataSetsMirrored'
    BY <1>2, <1>4, <1>5, InvParts DEF DataSetsMirrored
  <1>13. WritersMirrored'
    BY <1>2, <1>4, <1>5, <1>11, InvParts, WritersShownSame DEF WritersMirrored
  <1>14. FieldsMirrored'
    BY <1>2, <1>4, <1>5, InvParts, FieldsShownSame DEF FieldsMirrored
  <1>15. VariablesMirrored'
    BY <1>2, <1>4, <1>5, VariablesSame
  <1> QED
    BY <1>5, <1>7, <1>8, <1>9, <1>10, <1>12, <1>13, <1>14, <1>15 DEF MInv, ObjectsMirrored

LEMMA MirrorInvAddDataset ==
  ASSUME MInv, NEW g \in DOMAIN wgs, Room(wgs[g].dtsKeyInc, 1),
         NEW isString \in BOOLEAN, MirrorAddDataset(g, isString)
  PROVE  MInv'
  <1> DEFINE p == <<g[1], g[2], Inc(wgs[g].dtsKeyInc)>>
  <1>1. AddDataset(g, isString)
    BY DEF MirrorAddDataset
  <1>2. /\ p \notin DOMAIN dts /\ GroupOf(p) = g /\ p[3] >= 1
        /\ DOMAIN dts' = DOMAIN dts \cup {p}
        /\ \A r \in DOMAIN dts : dts'[r] = dts[r]
        /\ DOMAIN wgs' = DOMAIN wgs
        /\ \A h \in DOMAIN wgs : wgs'[h].interval = wgs[h].interval /\ wgs'[h].enabled = wgs[h].enabled
        /\ UNCHANGED <<conns, fields>>
    BY <1>1, InvParts, NewDataset
  <1>3. PICK pds \in Fresh(srv.pds), writer \in Fresh(DOMAIN srv.writer) :
          /\ dataSet' = Put(dataSet, p, pds)
          /\ dataSetWriter' = Put(dataSetWriter, p, writer)
          /\ srv' = [srv EXCEPT !.pds = @ \cup {pds},
                                !.writer = Put(@, writer, [group |-> writerGroup[g], pds |-> pds])]
    BY DEF MirrorAddDataset
  <1>4. UNCHANGED <<connection, writerGroup, dataSetField, var>>
    BY DEF MirrorAddDataset
  <1> HIDE DEF p
  <1>5. /\ srv'.pds = srv.pds \cup {pds}
        /\ srv'.writer = Put(srv.writer, writer, [group |-> writerGroup[g], pds |-> pds])
        /\ srv'.conn = srv.conn /\ srv'.group = srv.group
        /\ srv'.field = srv.field /\ srv'.node = srv.node
        /\ Shape(srv)'
    BY <1>3, InvParts DEF Shape
  <1>6. pds \in NodeId /\ pds \notin srv.pds /\ writer \in NodeId /\ writer \notin DOMAIN srv.writer
    BY FreshId
  <1>7. IInv'
    BY <1>1, InvParts, InvAddDataset
  <1>8. KeysFromOne'
    BY <1>2, InvParts DEF KeysFromOne
  <1>9. ChannelsMirrored'
    BY <1>2, <1>4, <1>5, InvParts DEF ChannelsMirrored, ChannelsShown
  <1>10. GroupsMirrored'
    BY <1>2, <1>4, <1>5, InvParts, GroupsShownSame DEF GroupsMirrored
  <1>11. DOMAIN dataSet = DOMAIN dts /\ \A r \in DOMAIN dts : dataSet[r] \in srv.pds
    BY InvParts DEF DataSetsMirrored, Range
  <1>12. \A r \in DOMAIN dts : dataSet'[r] = dataSet[r]
    BY <1>2, <1>3, <1>11 DEF Put
  <1>13. DataSetsMirrored'
    <2>1. dataSet \in [DOMAIN dts -> NodeId] /\ IsInjective(dataSet) /\ srv.pds = Range(dataSet)
      BY InvParts DEF DataSetsMirrored
    <2>2. dataSet' \in [DOMAIN dts' -> NodeId] /\ dataSet'[p] = pds
      BY <1>2, <1>3, <1>6, <1>11, <2>1 DEF Put
    <2>3. IsInjective(dataSet')
      BY <1>2, <1>6, <1>11, <1>12, <2>1, <2>2 DEF IsInjective
    <2>4. Range(dataSet') = Range(dataSet) \cup {pds}
      BY <1>2, <1>11, <1>12, <2>2 DEF Range
    <2> QED
      BY <1>5, <2>1, <2>2, <2>3, <2>4 DEF DataSetsMirrored
  <1>14. WritersMirrored'
    <2> DEFINE V == WritersShown
               W == WritersShown'
    <2>1. /\ DOMAIN W = DOMAIN V \cup {p} /\ p \notin DOMAIN V
          /\ \A r \in DOMAIN V : W[r] = V[r]
      BY <1>2, <1>4, <1>12 DEF WritersShown
    <2>2. W[p] = [group |-> writerGroup[g], pds |-> pds]
      <3>1. dataSet'[p] = pds
        BY <1>3 DEF Put
      <3> QED
        BY <1>2, <1>4, <3>1 DEF WritersShown
    <2>3. Mirrors(dataSetWriter, srv.writer, V)
      BY InvParts DEF WritersMirrored
    <2> HIDE DEF V, W
    <2>4. Mirrors(Put(dataSetWriter, p, writer), Put(srv.writer, writer, W[p]), W)
      BY <1>6, <2>1, <2>3, MirrorsAdd
    <2> QED
      BY <1>3, <1>5, <2>2, <2>4 DEF WritersMirrored, W
  <1>15. FieldsMirrored'
    BY <1>2, <1>4, <1>5, <1>12, InvParts, FieldsShownSame DEF FieldsMirrored
  <1>16. VariablesMirrored'
    BY <1>2, <1>4, <1>5, VariablesSame
  <1> QED
    BY <1>5, <1>7, <1>8, <1>9, <1>10, <1>13, <1>14, <1>15, <1>16 DEF MInv, ObjectsMirrored

-----------------------------------------------------------------------------
(* Fields: some go, some come, each with fresh ids.                         *)
LEMMA FreshIds ==
  ASSUME NEW Q, Cardinality(Q) \in 0 .. KeyBound + 1, NEW used, NEW M \in FreshFor(Q, used)
  PROVE  /\ M \in [Q -> NodeId] /\ IsInjective(M)
         /\ \A x \in Q : M[x] \notin used
         /\ Range(M) = {M[x] : x \in Q}
  <1>1. Offered(NodeId \ used, Cardinality(Q)) \subseteq NodeId \ used
    BY OfferedOK
  <1>2. M \in [Q -> Offered(NodeId \ used, Cardinality(Q))] /\ IsInjective(M)
    BY DEF FreshFor, Injection
  <1> QED
    BY <1>1, <1>2 DEF Range

LEMMA PublishedIds ==
  ASSUME NEW Q, Cardinality(Q) \in 0 .. KeyBound + 1, NEW type, NEW M \in Published(Q, type)
  PROVE  /\ M \in [Q -> NodeId \cup {CurrentTime}]
         /\ \A x \in Q : M[x] \notin srv.node \/ M[x] = CurrentTime
         /\ \A x, y \in Q : M[x] = M[y] /\ x # y => M[x] = CurrentTime
         /\ Range(M) = {M[x] : x \in Q}
  <1>1. CASE type = DateTime
    <2>1. M \in [Q -> {CurrentTime}]
      BY <1>1 DEF Published
    <2> QED
      BY <2>1 DEF Range
  <1>2. CASE type # DateTime
    <2>1. M \in FreshFor(Q, srv.node)
      BY <1>2 DEF Published
    <2> QED
      BY <2>1, FreshIds DEF IsInjective
  <1> QED
    BY <1>1, <1>2

\* The Fields K stay, and the Fields Q publish vid.
Publishing(K, Q, vid) ==
  /\ K \subseteq DOMAIN fields /\ Q \cap DOMAIN fields = {}
  /\ vid \in [Q -> NodeId \cup {CurrentTime}]
  /\ \A x \in Q : vid[x] \notin srv.node \/ vid[x] = CurrentTime
  /\ \A x, y \in Q : vid[x] = vid[y] /\ x # y => vid[x] = CurrentTime
  /\ DOMAIN fields' = K \cup Q
  /\ var' = [q \in K \cup Q |-> IF q \in Q THEN vid[q] ELSE var[q]]
  /\ srv'.node = srv.node \cup ({vid[x] : x \in Q} \ {CurrentTime})

LEMMA VariablesReplaced ==
  ASSUME MInv, NEW K, NEW Q, NEW vid, Publishing(K, Q, vid)
  PROVE  VariablesMirrored'
  <1> USE DEF Publishing
  <1>1. /\ var \in [DOMAIN fields -> srv.node \cup {CurrentTime}]
        /\ srv.node \subseteq NodeId
        /\ \A q, r \in DOMAIN fields : var[q] = var[r] /\ q # r => var[q] = CurrentTime
    BY InvParts DEF VariablesMirrored
  <1>2. /\ \A q \in K : q \notin Q /\ var'[q] = var[q]
        /\ \A q \in Q : var'[q] = vid[q]
        /\ DOMAIN var' = DOMAIN fields'
    OBVIOUS
  <1>3. \A q \in Q : vid[q] \in srv'.node \cup {CurrentTime}
    OBVIOUS
  <1>4. var' \in [DOMAIN fields' -> srv'.node \cup {CurrentTime}]
    BY <1>1, <1>2, <1>3
  <1>5. srv'.node \subseteq NodeId
    BY <1>1
  <1>6. ASSUME NEW q \in DOMAIN fields', NEW r \in DOMAIN fields', var'[q] = var'[r], q # r
        PROVE  var'[q] = CurrentTime
    <2>1. CASE q \in K /\ r \in K
      BY <1>1, <1>2, <1>6, <2>1
    <2>2. CASE q \in Q /\ r \in Q
      BY <1>2, <1>6, <2>2
    <2>3. CASE q \in K /\ r \in Q
      BY <1>1, <1>2, <1>6, <2>3
    <2>4. CASE q \in Q /\ r \in K
      BY <1>1, <1>2, <1>6, <2>4
    <2> QED
      BY <2>1, <2>2, <2>3, <2>4
  <1> QED
    BY <1>4, <1>5, <1>6 DEF VariablesMirrored

LEMMA MirrorInvReplaceFields ==
  ASSUME MInv, IInv', NEW p \in DOMAIN dts, NEW type, NEW Q, ReplaceFields(p, Q, type),
         Q = DOMAIN fields' \ DOMAIN fields, \A q \in Q : DataSetOf(q) = p /\ q[4] >= 1,
         Cardinality(Q) \in 0 .. KeyBound + 1,
         UNCHANGED <<conns, wgs>>, DOMAIN dts' = DOMAIN dts
  PROVE  MInv'
  <1> DEFINE K == DOMAIN fields \cap DOMAIN fields'
             V == FieldsShown
             old == [q \in K |-> V[q]]
             W == FieldsShown'
             left == Ids(dataSetField, K)
  <1>1. /\ DOMAIN dataSetField = DOMAIN fields
        /\ \A id \in DOMAIN srv.field : \E q \in DOMAIN fields : dataSetField[q] = id
        /\ \A q \in DOMAIN fields : dataSetField[q] \in DOMAIN srv.field
        /\ \A q, r \in DOMAIN fields : dataSetField[q] = dataSetField[r] => q = r
    BY InvParts, ShownDomains, MirrorsDomain DEF FieldsMirrored
  <1>2. PICK fid \in FreshFor(Q, DOMAIN srv.field), vid \in Published(Q, type) :
          LET kept == {q \in DOMAIN dataSetField : q \in DOMAIN fields'}
              gone == {dataSetField[q] : q \in DOMAIN dataSetField \ kept}
              rest == RemoveServerFields(srv, gone)
          IN  /\ dataSetField' = [q \in kept \cup Q |-> IF q \in Q THEN fid[q] ELSE dataSetField[q]]
              /\ var' = [q \in kept \cup Q |-> IF q \in Q THEN vid[q] ELSE var[q]]
              /\ srv' = [rest EXCEPT
                   !.field = [id \in DOMAIN rest.field \cup Range(fid) |->
                                IF id \in Range(fid)
                                THEN [pds |-> dataSet[p], var |-> vid[CHOOSE q \in Q : fid[q] = id]]
                                ELSE rest.field[id]],
                   !.node = @ \cup (Range(vid) \ {CurrentTime})]
    BY Zenon DEF ReplaceFields
  <1>3. UNCHANGED <<connection, writerGroup, dataSet, dataSetWriter>>
    BY DEF ReplaceFields
  <1>4. /\ fid \in [Q -> NodeId] /\ IsInjective(fid)
        /\ \A q \in Q : fid[q] \notin DOMAIN srv.field
        /\ Range(fid) = {fid[q] : q \in Q}
    BY FreshIds
  <1>5. /\ vid \in [Q -> NodeId \cup {CurrentTime}]
        /\ \A x \in Q : vid[x] \notin srv.node \/ vid[x] = CurrentTime
        /\ \A x, y \in Q : vid[x] = vid[y] /\ x # y => vid[x] = CurrentTime
        /\ Range(vid) = {vid[q] : q \in Q}
    BY PublishedIds
  <1> DEFINE table == [id \in left \cup Range(fid) |->
                         IF id \in Range(fid)
                         THEN [pds |-> dataSet[p], var |-> vid[CHOOSE q \in Q : fid[q] = id]]
                         ELSE srv.field[id]]
  <1>6. {q \in DOMAIN dataSetField : q \in DOMAIN fields'} = K
    BY <1>1
  <1>7. Without(srv.field, {dataSetField[q] : q \in DOMAIN dataSetField \ K}) = Restrict(srv.field, left)
    <2>1. DOMAIN srv.field \ {dataSetField[q] : q \in DOMAIN dataSetField \ K} = left
      BY <1>1 DEF Ids
    <2> HIDE DEF left
    <2> QED
      BY <2>1, Zenon DEF Without
  <1> DEFINE rest == RemoveServerFields(srv, {dataSetField[q] : q \in DOMAIN dataSetField \ K})
  <1>8. rest = [srv EXCEPT !.field = Restrict(srv.field, left)]
    BY <1>7, Zenon DEF RemoveServerFields
  <1>9. /\ dataSetField' = [q \in K \cup Q |-> IF q \in Q THEN fid[q] ELSE dataSetField[q]]
        /\ var' = [q \in K \cup Q |-> IF q \in Q THEN vid[q] ELSE var[q]]
        /\ srv' = [rest EXCEPT
             !.field = [id \in DOMAIN rest.field \cup Range(fid) |->
                          IF id \in Range(fid)
                          THEN [pds |-> dataSet[p], var |-> vid[CHOOSE q \in Q : fid[q] = id]]
                          ELSE rest.field[id]],
             !.node = @ \cup (Range(vid) \ {CurrentTime})]
    <2> HIDE DEF K
    <2> QED
      BY <1>2, <1>6, Zenon
  <1>10. rest.field = Restrict(srv.field, left) /\ rest.node = srv.node
         /\ rest.conn = srv.conn /\ rest.group = srv.group /\ rest.pds = srv.pds
         /\ rest.writer = srv.writer /\ Shape(rest)
    <2> HIDE DEF rest, left
    <2> QED
      BY <1>8, InvParts DEF Shape
  <1>11. [id \in DOMAIN rest.field \cup Range(fid) |->
            IF id \in Range(fid)
            THEN [pds |-> dataSet[p], var |-> vid[CHOOSE q \in Q : fid[q] = id]]
            ELSE rest.field[id]] = table
    <2> HIDE DEF rest, left
    <2> QED
      BY <1>10 DEF Restrict
  <1>12. /\ srv'.field = table /\ srv'.node = srv.node \cup (Range(vid) \ {CurrentTime})
         /\ srv'.conn = srv.conn /\ srv'.group = srv.group /\ srv'.pds = srv.pds
         /\ srv'.writer = srv.writer /\ Shape(srv)'
    <2> HIDE DEF rest, left, table
    <2>1. srv' = [rest EXCEPT !.field = table, !.node = @ \cup (Range(vid) \ {CurrentTime})]
      BY <1>9, <1>11, Zenon
    <2> QED
      BY <1>10, <2>1 DEF Shape
  <1>13. DOMAIN fields' = K \cup Q /\ Q \cap DOMAIN fields = {} /\ Q \cap K = {}
    OBVIOUS
  <1> HIDE DEF rest
  <1>14. VariablesMirrored'
    <2>1. K \in SUBSET DOMAIN fields
      OBVIOUS
    <2>2. srv'.node = srv.node \cup ({vid[x] : x \in Q} \ {CurrentTime})
      <3> HIDE DEF table
      <3> QED
        BY <1>5, <1>12
    <2> HIDE DEF K, table
    <2>3. Publishing(K, Q, vid)
      BY <1>5, <1>9, <1>13, <2>1, <2>2, Zenon DEF Publishing
    <2> QED
      BY <2>3, VariablesReplaced
  <1>15. FieldsMirrored'
    <2>1. DOMAIN V = DOMAIN fields /\ DOMAIN old = K /\ DOMAIN W = K \cup Q
      BY <1>13 DEF FieldsShown
    <2>2. Mirrors(dataSetField, srv.field, V)
      BY InvParts DEF FieldsMirrored
    <2>3. Mirrors(Restrict(dataSetField, K), Restrict(srv.field, left), old)
      <3>1. DOMAIN old \subseteq DOMAIN V /\ \A q \in DOMAIN old : old[q] = V[q]
        BY <2>1
      <3> HIDE DEF V, old, K
      <3> QED
        BY <2>1, <2>2, <3>1, MirrorsRestrict
    <2>4. ASSUME NEW q \in K
          PROVE  W[q] = old[q]
      <3>1. q \notin Q /\ var'[q] = var[q] /\ dataSet' = dataSet
        BY <1>3, <1>9
      <3> QED
        BY <3>1 DEF FieldsShown
    <2>5. ASSUME NEW q \in Q
          PROVE  table[fid[q]] = W[q]
      <3>1. (CHOOSE r \in Q : fid[r] = fid[q]) = q
        BY <1>4 DEF IsInjective
      <3>2. fid[q] \in Range(fid)
        BY <1>4
      <3>3. table[fid[q]] = [pds |-> dataSet[p], var |-> vid[q]]
        BY <3>1, <3>2
      <3>4. var'[q] = vid[q] /\ dataSet' = dataSet /\ DataSetOf(q) = p /\ q \in DOMAIN fields'
        BY <1>3, <1>9
      <3>5. W[q] = [pds |-> dataSet[p], var |-> vid[q]]
        BY <3>4 DEF FieldsShown
      <3> QED
        BY <3>3, <3>5
    <2>6. Range(fid) \cap left = {}
      BY <1>1, <1>4 DEF Ids
    <2>7. ASSUME NEW id \in left
          PROVE  table[id] = Restrict(srv.field, left)[id]
      BY <2>6 DEF Restrict
    <2>8. DOMAIN Restrict(srv.field, left) = left
      BY DEF Restrict
    <2>9. table = [id \in left \cup Range(fid) |-> table[id]]
      OBVIOUS
    <2>10. dataSetField' = [q \in K \cup Q |-> IF q \in Q THEN fid[q] ELSE Restrict(dataSetField, K)[q]]
      BY <1>9 DEF Restrict
    <2> HIDE DEF W, V, old, K, left, table
    <2>11. Mirrors(dataSetField', table, W)
      <3>1. Adding(Restrict(dataSetField, K), Restrict(srv.field, left), old, Q, fid,
                   dataSetField', table, W)
        BY <1>4, <1>13, <2>1, <2>3, <2>4, <2>5, <2>6, <2>7, <2>8, <2>9, <2>10, Zenon DEF Adding
      <3> QED
        BY <3>1, MirrorsAddAll
    <2> QED
      BY <1>12, <2>11 DEF FieldsMirrored, W
  <1>16. KeysFromOne'
    BY <1>13, InvParts DEF KeysFromOne
  <1>17. ChannelsMirrored' /\ GroupsMirrored'
    <2>1. ChannelsShown' = ChannelsShown
      BY DEF ChannelsShown
    <2>2. GroupsShown' = GroupsShown
      BY <1>3 DEF GroupsShown
    <2> HIDE DEF table
    <2> QED
      BY <1>3, <1>12, <2>1, <2>2, InvParts DEF ChannelsMirrored, GroupsMirrored
  <1>18. DataSetsMirrored' /\ WritersMirrored'
    <2>1. WritersShown' = WritersShown
      BY <1>3 DEF WritersShown
    <2> HIDE DEF table
    <2> QED
      BY <1>3, <1>12, <2>1, InvParts DEF DataSetsMirrored, WritersMirrored
  <1> QED
    BY <1>12, <1>14, <1>15, <1>16, <1>17, <1>18 DEF MInv, ObjectsMirrored

LEMMA MirrorInvAddField ==
  ASSUME MInv, NEW p \in DOMAIN dts, Room(dts[p].varKeyInc, 1),
         NEW type \in DataType, MirrorAddField(p, type)
  PROVE  MInv'
  <1> DEFINE f == Inc(dts[p].varKeyInc)
             q == <<p[1], p[2], p[3], f>>
             Q == DOMAIN fields' \ DOMAIN fields
  <1>1. AddField(p, type) /\ ReplaceFields(p, Q, type)
    BY DEF MirrorAddField
  <1>2. IInv'
    BY <1>1, InvParts, InvAddField
  <1>3. f = dts[p].varKeyInc + 1 /\ dts[p].varKeyInc \in Nat
    BY InvParts, IncNext, CountersNat DEF TreeTypeOK, Room
  <1>4. DataSetOf(q) = p /\ q[4] = f
    BY InvParts DEF TreeTypeOK, DataSetOf
  <1>5. UNCHANGED <<conns, wgs>> /\ DOMAIN dts' = DOMAIN dts
    BY <1>1 DEF AddField, AddData
  <1>6. fields' = PutNew(fields, q, type)
    BY <1>1 DEF AddField, AddData
  <1> HIDE DEF q, f
  <1>7. q \notin DOMAIN fields
    BY <1>3, <1>4, InvParts DEF KeysBelowCounter
  <1>8. Q = {q}
    BY <1>6, <1>7 DEF PutNew, Put
  <1> HIDE DEF Q
  <1>9. Cardinality(Q) \in 0 .. KeyBound + 1
    <2>1. Cardinality({q}) = 1
      BY FS_Singleton
    <2>2. KeyBound \in Nat
      BY ConstantsOK
    <2> QED
      BY <1>8, <2>1, <2>2
  <1>10. \A r \in Q : DataSetOf(r) = p /\ r[4] >= 1
    BY <1>3, <1>4, <1>8
  <1>11. Q = DOMAIN fields' \ DOMAIN fields
    BY DEF Q
  <1> QED
    BY <1>1, <1>2, <1>5, <1>9, <1>10, <1>11, MirrorInvReplaceFields

LEMMA MirrorInvWriteString ==
  ASSUME MInv, NEW p \in DOMAIN dts, NEW n \in 0 .. MaxString, RoomForString(p, n),
         MirrorWriteString(p, n)
  PROVE  MInv'
  <1> DEFINE path(f) == <<p[1], p[2], p[3], f>>
             other == {q \in DOMAIN fields : DataSetOf(q) # p}
             written == {path(f) : f \in 1 .. n}
             Q == DOMAIN fields' \ DOMAIN fields
  <1>1. WriteString(p, n) /\ ReplaceFields(p, Q, Byte)
    BY DEF MirrorWriteString
  <1>2. IInv'
    BY <1>1, InvParts, InvWriteString
  <1>3. UNCHANGED <<conns, wgs>> /\ DOMAIN dts' = DOMAIN dts /\ dts[p].isString
    BY <1>1 DEF WriteString
  <1>4. n \in Nat /\ KeyBound \in Nat
    BY ConstantsOK
  <1>5. n <= KeyBound
    <2>1. dts[p].varKeyInc \in Nat /\ Cardinality(FieldKeys(p)) = dts[p].varKeyInc
      BY <1>3, InvParts, StringSize
    <2>2. n <= Longer(p, n) /\ Longer(p, n) \in Nat
      BY <1>4, <2>1 DEF Longer
    <2> QED
      BY <1>4, <2>2 DEF RoomForString
  <1>6. DOMAIN fields' = other \cup written
    <2>1. {f \in FieldKeys(p) \cup (dts[p].varKeyInc + 1 .. Longer(p, n)) : f <= Shorter(p, n)} = 1 .. n
      BY <1>3, <1>4, InvParts, StringKeys
    <2> QED
      BY <1>1, <2>1 DEF WriteString
  <1>7. Q \subseteq written
    BY <1>6
  <1>8. IsFiniteSet(written) /\ Cardinality(written) <= n
    <2>1. [f \in 1 .. n |-> path(f)] \in Surjection(1 .. n, written)
      BY DEF Surjection
    <2>2. IsFiniteSet(1 .. n) /\ Cardinality(1 .. n) = n
      BY <1>4, FS_Interval
    <2> HIDE DEF written
    <2>3. IsFiniteSet(written) /\ Cardinality(written) <= Cardinality(1 .. n)
      BY <2>1, <2>2, FS_Surjection
    <2> QED
      BY <2>2, <2>3
  <1>9. Cardinality(Q) \in 0 .. KeyBound + 1
    <2> HIDE DEF Q, written
    <2>1. IsFiniteSet(Q) /\ Cardinality(Q) <= Cardinality(written)
      BY <1>7, <1>8, FS_Subset
    <2>2. Cardinality(Q) \in Nat /\ Cardinality(written) \in Nat
      BY <1>8, <2>1, FS_CardinalityType
    <2> QED
      BY <1>4, <1>5, <1>8, <2>1, <2>2
  <1>10. \A q \in Q : DataSetOf(q) = p /\ q[4] >= 1
    <2>1. p = <<p[1], p[2], p[3]>>
      BY InvParts DEF TreeTypeOK
    <2>2. \A q \in written : DataSetOf(q) = p /\ q[4] >= 1
      BY <2>1 DEF DataSetOf
    <2> QED
      BY <1>7, <2>2
  <1> HIDE DEF Q
  <1> QED
    BY <1>1, <1>2, <1>3, <1>9, <1>10, MirrorInvReplaceFields DEF Q

-----------------------------------------------------------------------------
(* Publishing: the configuration of the selected groups changes on both     *)
(* sides.                                                                   *)
LEMMA MirrorInvGroupData ==
  ASSUME MInv, IInv', UNCHANGED <<conns, dts, fields, idVars>>, DOMAIN wgs' = DOMAIN wgs,
         NEW table, srv' = [srv EXCEPT !.group = table],
         table = [id \in DOMAIN srv.group |-> table[id]],
         \A g \in DOMAIN wgs : table[writerGroup[g]] = GroupsShown'[g]
  PROVE  MInv'
  <1>1. /\ srv'.group = table /\ srv'.conn = srv.conn /\ srv'.pds = srv.pds
        /\ srv'.writer = srv.writer /\ srv'.field = srv.field /\ srv'.node = srv.node
        /\ Shape(srv)'
    BY InvParts DEF Shape
  <1>2. UNCHANGED <<connection, writerGroup, dataSet, dataSetWriter, dataSetField, var>>
    BY DEF idVars
  <1>3. GroupsMirrored'
    <2> DEFINE V == GroupsShown
               W == GroupsShown'
    <2>1. DOMAIN W = DOMAIN V /\ DOMAIN V = DOMAIN wgs
      BY DEF GroupsShown
    <2>2. Mirrors(writerGroup, srv.group, V)
      BY InvParts DEF GroupsMirrored
    <2>3. \A g \in DOMAIN V : table[writerGroup[g]] = W[g]
      BY <2>1
    <2> HIDE DEF V, W
    <2>4. Mirrors(writerGroup, table, W)
      BY <2>1, <2>2, <2>3, MirrorsUpdate
    <2> QED
      BY <1>1, <1>2, <2>4 DEF GroupsMirrored, W
  <1>4. ChannelsMirrored'
    BY <1>1, <1>2, InvParts DEF ChannelsMirrored, ChannelsShown
  <1>5. DataSetsMirrored' /\ VariablesMirrored'
    BY <1>1, <1>2, InvParts DEF DataSetsMirrored, VariablesMirrored
  <1>6. WritersMirrored'
    BY <1>1, <1>2, InvParts DEF WritersMirrored, WritersShown
  <1>7. FieldsMirrored'
    BY <1>1, <1>2, InvParts DEF FieldsMirrored, FieldsShown
  <1>8. KeysFromOne'
    BY InvParts DEF KeysFromOne
  <1> QED
    BY <1>1, <1>3, <1>4, <1>5, <1>6, <1>7, <1>8 DEF MInv, ObjectsMirrored

\* The groups of S are the ones whose ids are among those of S.
LEMMA SelectedIds ==
  ASSUME MInv, NEW S \in SUBSET DOMAIN wgs, NEW g \in DOMAIN wgs
  PROVE  /\ writerGroup[g] \in Ids(writerGroup, S) <=> g \in S
         /\ writerGroup[g] \in DOMAIN srv.group
         /\ srv.group[writerGroup[g]] = [conn |-> connection[g[1]], interval |-> wgs[g].interval,
                                         operational |-> wgs[g].enabled]
  <1>1. writerGroup[g] \in Ids(writerGroup, S) <=> g \in S
    BY InjectiveIds DEF Ids
  <1>2. writerGroup[g] \in DOMAIN srv.group
    BY InvParts, ShownDomains, MirrorsDomain DEF GroupsMirrored
  <1>3. srv.group[writerGroup[g]] = GroupsShown[g]
    BY InvParts, ShownDomains DEF GroupsMirrored, Mirrors
  <1> QED
    BY <1>1, <1>2, <1>3 DEF GroupsShown

LEMMA MirrorInvSetEnabled ==
  ASSUME MInv, NEW S \in SUBSET DOMAIN wgs, NEW on \in BOOLEAN, MirrorSetEnabled(S, on)
  PROVE  MInv'
  <1> DEFINE table == [id \in DOMAIN srv.group |->
                         IF id \in Ids(writerGroup, S) THEN [srv.group[id] EXCEPT !.operational = on]
                         ELSE srv.group[id]]
  <1>1. SetEnabled(S, on) /\ UNCHANGED idVars
    BY DEF MirrorSetEnabled
  <1>2. srv' = [srv EXCEPT !.group = table]
    BY Zenon DEF MirrorSetEnabled
  <1>3. IInv'
    BY <1>1, InvParts, InvSetEnabled
  <1>4. UNCHANGED <<conns, dts, fields>> /\ DOMAIN wgs' = DOMAIN wgs
    BY <1>1 DEF SetEnabled
  <1>5. ASSUME NEW g \in DOMAIN wgs
        PROVE  table[writerGroup[g]] = GroupsShown'[g]
    <2>1. connection' = connection
      BY <1>1 DEF idVars
    <2>2. GroupsShown'[g] = [conn |-> connection[g[1]], interval |-> wgs'[g].interval,
                             operational |-> wgs'[g].enabled]
      BY <1>4, <2>1 DEF GroupsShown
    <2>3. wgs[g] \in GroupData
      BY InvParts DEF TreeTypeOK, GroupData
    <2>4. CASE g \in S
      <3>1. wgs'[g].interval = wgs[g].interval /\ wgs'[g].enabled = on
        BY <1>1, <2>3, <2>4 DEF SetEnabled, GroupData
      <3>2. table[writerGroup[g]] = [srv.group[writerGroup[g]] EXCEPT !.operational = on]
        BY <2>4, SelectedIds
      <3>3. srv.group[writerGroup[g]] = [conn |-> connection[g[1]], interval |-> wgs[g].interval,
                                         operational |-> wgs[g].enabled]
        BY SelectedIds
      <3>4. table[writerGroup[g]] = [conn |-> connection[g[1]], interval |-> wgs[g].interval,
                                     operational |-> on]
        <4> HIDE DEF table
        <4> QED
          BY <3>2, <3>3
      <3> QED
        BY <2>2, <3>1, <3>4, Zenon
    <2>5. CASE g \notin S
      <3>1. wgs'[g] = wgs[g]
        BY <1>1, <2>5 DEF SetEnabled
      <3>2. table[writerGroup[g]] = srv.group[writerGroup[g]]
        BY <2>5, SelectedIds
      <3> HIDE DEF table
      <3> QED
        BY <2>2, <3>1, <3>2, SelectedIds, Zenon
    <2> QED
      BY <2>4, <2>5
  <1>6. table = [id \in DOMAIN srv.group |-> table[id]]
    OBVIOUS
  <1> HIDE DEF table
  <1> QED
    BY <1>1, <1>2, <1>3, <1>4, <1>5, <1>6, MirrorInvGroupData

LEMMA MirrorInvUpdateInterval ==
  ASSUME MInv, NEW S \in SUBSET DOMAIN wgs, NEW i \in Interval, MirrorUpdateInterval(S, i)
  PROVE  MInv'
  <1> DEFINE table == [id \in DOMAIN srv.group |->
                         IF id \in Ids(writerGroup, S) THEN [srv.group[id] EXCEPT !.interval = i]
                         ELSE srv.group[id]]
  <1>1. UpdateInterval(S, i) /\ UNCHANGED idVars
    BY DEF MirrorUpdateInterval
  <1>2. srv' = [srv EXCEPT !.group = table]
    BY Zenon DEF MirrorUpdateInterval
  <1>3. IInv'
    BY <1>1, InvParts, InvUpdateInterval
  <1>4. UNCHANGED <<conns, dts, fields>> /\ DOMAIN wgs' = DOMAIN wgs
    BY <1>1 DEF UpdateInterval
  <1>5. ASSUME NEW g \in DOMAIN wgs
        PROVE  table[writerGroup[g]] = GroupsShown'[g]
    <2>1. connection' = connection
      BY <1>1 DEF idVars
    <2>2. GroupsShown'[g] = [conn |-> connection[g[1]], interval |-> wgs'[g].interval,
                             operational |-> wgs'[g].enabled]
      BY <1>4, <2>1 DEF GroupsShown
    <2>3. wgs[g] \in GroupData
      BY InvParts DEF TreeTypeOK, GroupData
    <2>4. CASE g \in S
      <3>1. wgs'[g].interval = i /\ wgs'[g].enabled = wgs[g].enabled
        BY <1>1, <2>3, <2>4 DEF UpdateInterval, GroupData
      <3>2. table[writerGroup[g]] = [srv.group[writerGroup[g]] EXCEPT !.interval = i]
        BY <2>4, SelectedIds
      <3>3. srv.group[writerGroup[g]] = [conn |-> connection[g[1]], interval |-> wgs[g].interval,
                                         operational |-> wgs[g].enabled]
        BY SelectedIds
      <3>4. table[writerGroup[g]] = [conn |-> connection[g[1]], interval |-> i,
                                     operational |-> wgs[g].enabled]
        <4> HIDE DEF table
        <4> QED
          BY <3>2, <3>3
      <3> QED
        BY <2>2, <3>1, <3>4, Zenon
    <2>5. CASE g \notin S
      <3>1. wgs'[g] = wgs[g]
        BY <1>1, <2>5 DEF UpdateInterval
      <3>2. table[writerGroup[g]] = srv.group[writerGroup[g]]
        BY <2>5, SelectedIds
      <3> HIDE DEF table
      <3> QED
        BY <2>2, <3>1, <3>2, SelectedIds, Zenon
    <2> QED
      BY <2>4, <2>5
  <1>6. table = [id \in DOMAIN srv.group |-> table[id]]
    OBVIOUS
  <1> HIDE DEF table
  <1> QED
    BY <1>1, <1>2, <1>3, <1>4, <1>5, <1>6, MirrorInvGroupData

LEMMA MirrorInvInit == Init => MInv
  <1> SUFFICES ASSUME Init PROVE MInv
    OBVIOUS
  <1>1. IInv /\ KeysFromOne
    BY InvInit DEF Init, TreeInit, KeysFromOne
  <1>2. /\ DOMAIN conns = {} /\ DOMAIN wgs = {} /\ DOMAIN dts = {} /\ DOMAIN fields = {}
        /\ connection = <<>> /\ writerGroup = <<>> /\ dataSet = <<>> /\ dataSetWriter = <<>>
        /\ dataSetField = <<>> /\ var = <<>>
    BY DEF Init, TreeInit
  <1>3. /\ srv.conn = <<>> /\ srv.group = <<>> /\ srv.pds = {} /\ srv.writer = <<>>
        /\ srv.field = <<>> /\ srv.node = {} /\ Shape(srv)
    BY DEF Init, EmptyServer, Shape
  <1>4. \A V : DOMAIN V = {} => Mirrors(<<>>, <<>>, V)
    BY DEF Mirrors, IsInjective, Range
  <1>5. ChannelsMirrored /\ GroupsMirrored /\ WritersMirrored /\ FieldsMirrored
    BY <1>2, <1>3, <1>4, ShownDomains
       DEF ChannelsMirrored, GroupsMirrored, WritersMirrored, FieldsMirrored
  <1>6. DataSetsMirrored /\ VariablesMirrored
    BY <1>2, <1>3 DEF DataSetsMirrored, VariablesMirrored, IsInjective, Range
  <1> QED
    BY <1>1, <1>3, <1>5, <1>6 DEF MInv, ObjectsMirrored

-----------------------------------------------------------------------------
(* Every step, and what the invariant gives.                                *)
LEMMA SelectionsAreGroups ==
  ASSUME NEW S \in GroupSelection
  PROVE  S \in SUBSET DOMAIN wgs
  BY DEF GroupSelection, GroupsOfChannel, GroupsOfPort

LEMMA MirrorInvNext == MInv /\ [Next]_vars => MInv'
  <1> SUFFICES ASSUME MInv, [Next]_vars
               PROVE  MInv'
    OBVIOUS
  <1>1. ASSUME NEW port \in Port, Room(connKeyInc, 1), MirrorCreateConnection(port)
        PROVE  MInv'
    BY <1>1, MirrorInvCreateConnection
  <1>2. ASSUME NEW c \in DOMAIN conns, Room(conns[c].wgKeyInc, 1), MirrorAddWritergroup(c)
        PROVE  MInv'
    BY <1>2, MirrorInvAddWritergroup
  <1>3. ASSUME NEW c \in DOMAIN conns, MirrorDeleteConnection(c)
        PROVE  MInv'
    BY <1>3, MirrorInvDeleteConnection
  <1>4. ASSUME NEW g \in DOMAIN wgs, Room(wgs[g].dtsKeyInc, 1),
               NEW isString \in BOOLEAN, MirrorAddDataset(g, isString)
        PROVE  MInv'
    BY <1>4, MirrorInvAddDataset
  <1>5. ASSUME NEW g \in DOMAIN wgs, MirrorRemoveWritergroup(g)
        PROVE  MInv'
    BY <1>5, MirrorInvRemoveWritergroup
  <1>6. ASSUME NEW p \in DOMAIN dts, Room(dts[p].varKeyInc, 1),
               NEW type \in DataType, MirrorAddField(p, type)
        PROVE  MInv'
    BY <1>6, MirrorInvAddField
  <1>7. ASSUME NEW p \in DOMAIN dts, NEW f \in FieldKeys(p), MirrorRemoveField(p, f)
        PROVE  MInv'
    BY <1>7, MirrorInvRemoveField
  <1>8. ASSUME NEW p \in DOMAIN dts, NEW n \in 0 .. MaxString, RoomForString(p, n),
               MirrorWriteString(p, n)
        PROVE  MInv'
    BY <1>8, MirrorInvWriteString
  <1>9. ASSUME NEW p \in DOMAIN dts, MirrorRemoveDataset(p)
        PROVE  MInv'
    BY <1>9, MirrorInvRemoveDataset
  <1>10. CASE MirrorDeleteAllConnections
    BY <1>10, MirrorInvDeleteAll
  <1>11. ASSUME NEW S \in GroupSelection, NEW on \in BOOLEAN, MirrorSetEnabled(S, on)
         PROVE  MInv'
    BY <1>11, SelectionsAreGroups, MirrorInvSetEnabled
  <1>12. ASSUME NEW S \in GroupSelection, NEW i \in Interval, MirrorUpdateInterval(S, i)
         PROVE  MInv'
    BY <1>12, SelectionsAreGroups, MirrorInvUpdateInterval
  <1>13. CASE UNCHANGED vars
    <2>1. /\ UNCHANGED <<connKeyInc, conns, wgs, dts, fields>> /\ UNCHANGED srv
          /\ UNCHANGED <<connection, writerGroup, dataSet, dataSetWriter, dataSetField, var>>
      BY <1>13 DEF vars, treeVars, idVars
    <2>2. IInv'
      BY <2>1, InvParts, InvNext DEF treeVars
    <2>3. KeysFromOne' /\ Shape(srv)'
      BY <2>1, InvParts DEF KeysFromOne, Shape
    <2>4. ChannelsMirrored' /\ GroupsMirrored' /\ WritersMirrored' /\ FieldsMirrored'
      BY <2>1, InvParts DEF ChannelsMirrored, GroupsMirrored, WritersMirrored, FieldsMirrored,
                            ChannelsShown, GroupsShown, WritersShown, FieldsShown
    <2>5. DataSetsMirrored' /\ VariablesMirrored'
      BY <2>1, InvParts DEF DataSetsMirrored, VariablesMirrored
    <2> QED
      BY <2>2, <2>3, <2>4, <2>5 DEF MInv, ObjectsMirrored
  <1> QED
    BY <1>1, <1>2, <1>3, <1>4, <1>5, <1>6, <1>7, <1>8, <1>9, <1>10, <1>11, <1>12, <1>13 DEF Next

LEMMA MirrorInvariance == Spec => []MInv
  BY MirrorInvInit, MirrorInvNext, PTL DEF Spec

LEMMA MirroredTypes == MInv => MirrorTypeOK
  <1> SUFFICES ASSUME MInv PROVE MirrorTypeOK
    OBVIOUS
  <1>1. /\ connection \in [DOMAIN conns -> NodeId]
        /\ writerGroup \in [DOMAIN wgs -> NodeId]
        /\ dataSet \in [DOMAIN dts -> NodeId]
        /\ dataSetWriter \in [DOMAIN dts -> NodeId]
        /\ dataSetField \in [DOMAIN fields -> NodeId]
    BY InvParts, ShownDomains
       DEF ChannelsMirrored, GroupsMirrored, DataSetsMirrored, WritersMirrored, FieldsMirrored, Mirrors
  <1>2. var \in [DOMAIN fields -> NodeId \cup {CurrentTime}] /\ srv.node \in SUBSET NodeId
    BY InvParts DEF VariablesMirrored
  <1>3. ASSUME NEW I, NEW T, NEW V, Mirrors(I, T, V), NEW R, \A x \in DOMAIN V : V[x] \in R
        PROVE  T \in [DOMAIN T -> R]
    <2>1. \A id \in DOMAIN T : T[id] \in R
      BY <1>3, MirrorsDomain DEF Mirrors
    <2>2. T = [id \in DOMAIN T |-> T[id]]
      BY <1>3, MirrorsDomain DEF Mirrors
    <2> QED
      BY <2>1, <2>2
  <1>4. srv.conn \in [DOMAIN srv.conn -> Port]
    <2>1. \A c \in DOMAIN ChannelsShown : ChannelsShown[c] \in Port
      BY InvParts DEF ChannelsShown, TreeTypeOK
    <2> QED
      BY <1>3, <2>1, InvParts DEF ChannelsMirrored
  <1>5. srv.group \in [DOMAIN srv.group -> [conn : NodeId, interval : Interval, operational : BOOLEAN]]
    <2>1. \A g \in DOMAIN GroupsShown :
            GroupsShown[g] \in [conn : NodeId, interval : Interval, operational : BOOLEAN]
      <3> SUFFICES ASSUME NEW g \in DOMAIN wgs
                   PROVE  GroupsShown[g] \in [conn : NodeId, interval : Interval, operational : BOOLEAN]
        BY ShownDomains
      <3>1. connection[g[1]] \in NodeId
        BY <1>1, InvParts DEF ParentsExist
      <3>2. wgs[g] \in [enabled : BOOLEAN, interval : Interval, dtsKeyInc : Key]
        BY InvParts DEF TreeTypeOK
      <3> QED
        BY <3>1, <3>2 DEF GroupsShown
    <2> QED
      BY <1>3, <2>1, InvParts DEF GroupsMirrored
  <1>6. srv.writer \in [DOMAIN srv.writer -> [group : NodeId, pds : NodeId]]
    <2>1. \A p \in DOMAIN WritersShown : WritersShown[p] \in [group : NodeId, pds : NodeId]
      BY <1>1, InvParts DEF WritersShown, ParentsExist
    <2> QED
      BY <1>3, <2>1, InvParts DEF WritersMirrored
  <1>7. srv.field \in [DOMAIN srv.field -> [pds : NodeId, var : NodeId \cup {CurrentTime}]]
    <2>1. \A q \in DOMAIN FieldsShown : FieldsShown[q] \in [pds : NodeId, var : NodeId \cup {CurrentTime}]
      BY <1>1, <1>2, InvParts DEF FieldsShown, ParentsExist
    <2> QED
      BY <1>3, <2>1, InvParts DEF FieldsMirrored
  <1>8. srv.pds \in SUBSET NodeId
    BY <1>1, InvParts DEF DataSetsMirrored, Range
  <1>9. Shape(srv)
    BY InvParts
  <1> QED
    BY <1>1, <1>2, <1>4, <1>5, <1>6, <1>7, <1>8, <1>9 DEF MirrorTypeOK, Shape

LEMMA MirroredDistinct == MInv => IdsDistinct
  BY InvParts, ShownDomains
     DEF ChannelsMirrored, GroupsMirrored, DataSetsMirrored, WritersMirrored, FieldsMirrored,
         VariablesMirrored, Mirrors, IdsDistinct

LEMMA MirroredNothingLeft == MInv => NothingLeftBehind
  <1> SUFFICES ASSUME MInv PROVE NothingLeftBehind
    OBVIOUS
  <1>1. DOMAIN srv.conn = Range(connection) /\ DOMAIN srv.group = Range(writerGroup)
    BY InvParts, MirrorsDomain DEF ChannelsMirrored, GroupsMirrored
  <1>2. DOMAIN srv.writer = Range(dataSetWriter) /\ DOMAIN srv.field = Range(dataSetField)
    BY InvParts, MirrorsDomain DEF WritersMirrored, FieldsMirrored
  <1>3. srv.pds = Range(dataSet)
    BY InvParts DEF DataSetsMirrored
  <1> QED
    BY <1>1, <1>2, <1>3 DEF NothingLeftBehind

LEMMA MirroredNodes == MInv => NodesPublished
  <1> SUFFICES ASSUME MInv PROVE NodesPublished
    OBVIOUS
  <1>1. ASSUME NEW c \in DOMAIN conns
        PROVE  connection[c] \in DOMAIN srv.conn /\ srv.conn[connection[c]] = conns[c].port
    <2>1. connection[c] \in DOMAIN srv.conn /\ srv.conn[connection[c]] = ChannelsShown[c]
      BY InvParts, ShownDomains, MirrorsDomain DEF ChannelsMirrored, Mirrors
    <2> QED
      BY <2>1 DEF ChannelsShown
  <1>2. ASSUME NEW g \in DOMAIN wgs
        PROVE  /\ writerGroup[g] \in DOMAIN srv.group
               /\ srv.group[writerGroup[g]] = [conn |-> connection[g[1]], interval |-> wgs[g].interval,
                                               operational |-> wgs[g].enabled]
    BY SelectedIds
  <1>3. ASSUME NEW p \in DOMAIN dts
        PROVE  /\ dataSet[p] \in srv.pds
               /\ dataSetWriter[p] \in DOMAIN srv.writer
               /\ srv.writer[dataSetWriter[p]] = [group |-> writerGroup[GroupOf(p)], pds |-> dataSet[p]]
    <2>1. dataSet[p] \in srv.pds
      BY InvParts DEF DataSetsMirrored, Range
    <2>2. /\ dataSetWriter[p] \in DOMAIN srv.writer
          /\ srv.writer[dataSetWriter[p]] = WritersShown[p]
      BY InvParts, ShownDomains, MirrorsDomain DEF WritersMirrored, Mirrors
    <2> QED
      BY <2>1, <2>2 DEF WritersShown
  <1>4. ASSUME NEW q \in DOMAIN fields
        PROVE  /\ dataSetField[q] \in DOMAIN srv.field
               /\ srv.field[dataSetField[q]] = [pds |-> dataSet[DataSetOf(q)], var |-> var[q]]
               /\ var[q] \in srv.node \cup {CurrentTime}
    <2>1. var[q] \in srv.node \cup {CurrentTime}
      BY InvParts DEF VariablesMirrored
    <2>2. Mirrors(dataSetField, srv.field, FieldsShown) /\ q \in DOMAIN FieldsShown
      BY InvParts, ShownDomains DEF FieldsMirrored
    <2>3. srv.field[dataSetField[q]] = FieldsShown[q]
      BY <2>2 DEF Mirrors
    <2>4. dataSetField[q] \in DOMAIN srv.field
      BY <2>2, MirrorsDomain
    <2> QED
      BY <2>1, <2>3, <2>4 DEF FieldsShown
  <1> QED
    BY <1>1, <1>2, <1>3, <1>4 DEF NodesPublished

(* The ids the nodes keep and the server's tables have their types: every    *)
(* id a Branch class hands to Publisher is one the server has given out.     *)
THEOREM MirrorTypes == Spec => []MirrorTypeOK
  BY MirrorInvariance, MirroredTypes, PTL

(* Two nodes never share a server object, though ids are given out again     *)
(* after a removal: removing or disabling one node (removeWritergroup, off)  *)
(* never reaches the objects of another.                                     *)
THEOREM NoSharedIds == Spec => []IdsDistinct
  BY MirrorInvariance, MirroredDistinct, PTL

(* The removal cascades (deleteConnection, removeWritergroup, removeDataset, *)
(* deleteAllConnections) leave no PubSub object without a node on the server,*)
(* whatever the tree, the counters and the ids.                              *)
THEOREM CascadesComplete == Spec => []NothingLeftBehind
  BY MirrorInvariance, MirroredNothingLeft, PTL

(* They take nothing from a node that stays: every node has its objects,     *)
(* linked to those of its parent, with the port, the interval and the state  *)
(* the tree shows.                                                           *)
THEOREM NodesStayPublished == Spec => []NodesPublished
  BY MirrorInvariance, MirroredNodes, PTL

(* Each method of the Branch classes that calls the server is one of the     *)
(* tree's operations: NodeMirror implements NodeTree's abstract calls, and   *)
(* with it the theorems about the tree hold here.                            *)
THEOREM MirrorImplementsTree == Spec => TreeSpec
  <1>1. Init => TreeInit
    BY DEF Init
  <1>2. [Next]_vars => [TreeNext]_treeVars
    <2> SUFFICES ASSUME [Next]_vars PROVE [TreeNext]_treeVars
      OBVIOUS
    <2>1. CASE Next
      BY <2>1, Zenon
         DEF Next, TreeNext, MirrorCreateConnection, MirrorAddWritergroup, MirrorDeleteConnection,
             MirrorAddDataset, MirrorRemoveWritergroup, MirrorAddField, MirrorRemoveField,
             MirrorWriteString, MirrorRemoveDataset, MirrorDeleteAllConnections, MirrorSetEnabled,
             MirrorUpdateInterval
    <2>2. CASE UNCHANGED vars
      BY <2>2 DEF vars
    <2> QED
      BY <2>1, <2>2
  <1> QED
    BY <1>1, <1>2, PTL DEF Spec, TreeSpec
=============================================================================
