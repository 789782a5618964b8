----------------------------- MODULE NodeMirror -----------------------------
(***************************************************************************)
(* NodeTree together with the OPC UA server it drives.  Every node of the   *)
(* tree keeps the NodeIds of its server objects (BranchConnection::         *)
(* connection, BranchWriterGroup::writerGroup, BranchDataSet::dataSet and   *)
(* dataSetWriter, BranchField::dataSetField and var); the add and remove    *)
(* methods call the server through Publisher.                               *)
(*                                                                         *)
(* The server is the open62541 library, which is not part of the source:    *)
(* its operators below are modelled from how the code uses it and are       *)
(* external.  Each PubSub table maps the id of an object to what it refers  *)
(* to.  A fresh id is one its table does not hold; an id may come back      *)
(* after its object was removed.  A removal takes the objects inside the    *)
(* removed one along, and removing an absent id does nothing, which the     *)
(* code relies on: deleteConnection removes the connection first and then   *)
(* asks for the removal of its groups and writers again.                    *)
(***************************************************************************)
EXTENDS NodeTree

CONSTANTS
  NodeId,       \* the ids the server gives out
  Offered(_, _),  \* Offered(S, n): ids of S the server may choose n fresh ones from
  CurrentTime,  \* the server's own CurrentTime variable
  DateTime      \* VAR_TYPE_DATETIME

ASSUME OfferedOK == \A S \in SUBSET NodeId, n \in 0 .. KeyBound + 1 : Offered(S, n) \subseteq S

ASSUME ClockOK == CurrentTime \notin NodeId /\ DateTime \in DataType \ {Byte}

VARIABLES
  connection,     \* DOMAIN conns -> id of the PubSub connection
  writerGroup,    \* DOMAIN wgs -> id of the writer group
  dataSet,        \* DOMAIN dts -> id of the published data set
  dataSetWriter,  \* DOMAIN dts -> id of the data set writer
  dataSetField,   \* DOMAIN fields -> id of the data set field
  var,            \* DOMAIN fields -> id of the published variable
  srv             \* the server's tables

idVars == <<connection, writerGroup, dataSet, dataSetWriter, dataSetField, var>>
vars == <<treeVars, idVars, srv>>

-----------------------------------------------------------------------------
(* The server's tables and its removals (external).                         *)
EmptyServer ==
  [conn |-> <<>>, group |-> <<>>, pds |-> {}, writer |-> <<>>, field |-> <<>>, node |-> {}]

Without(f, S) == Restrict(f, DOMAIN f \ S)

RemoveServerFields(s, F) == [s EXCEPT !.field = Without(@, F)]

RemoveServerWriters(s, W) == [s EXCEPT !.writer = Without(@, W)]

RemoveServerDataSets(s, D) ==
  [s EXCEPT !.pds = @ \ D,
            !.field = Without(@, {f \in DOMAIN s.field : s.field[f].pds \in D}),
            !.writer = Without(@, {w \in DOMAIN s.writer : s.writer[w].pds \in D})]

RemoveServerGroups(s, G) ==
  [s EXCEPT !.group = Without(@, G),
            !.writer = Without(@, {w \in DOMAIN s.writer : s.writer[w].group \in G})]

RemoveServerConnections(s, C) ==
  [RemoveServerGroups(s, {g \in DOMAIN s.group : s.group[g].conn \in C})
     EXCEPT !.conn = Without(@, C)]

-----------------------------------------------------------------------------
\* One fresh id, and as many fresh ids as there are elements of Q.
Fresh(used) == Offered(NodeId \ used, 1)
FreshFor(Q, used) == Injection(Q, Offered(NodeId \ used, Cardinality(Q)))

-----------------------------------------------------------------------------
Init ==
  /\ TreeInit
  /\ connection = <<>> /\ writerGroup = <<>>
  /\ dataSet = <<>> /\ dataSetWriter = <<>>
  /\ dataSetField = <<>> /\ var = <<>>
  /\ srv = EmptyServer

(* Adding: one fresh server object per id the node keeps.  setChannelPort   *)
(* rewrites the port in the one shared address before the connection is     *)
(* opened on it.                                                            *)
MirrorCreateConnection(port) ==
  /\ CreateConnection(port)
  /\ \E id \in Fresh(DOMAIN srv.conn) :
       /\ connection' = Put(connection, connKeyInc', id)
       /\ srv' = [srv EXCEPT !.conn = Put(@, id, port)]
  /\ UNCHANGED <<writerGroup, dataSet, dataSetWriter, dataSetField, var>>

MirrorAddWritergroup(c) ==
  /\ AddWritergroup(c)
  /\ \E id \in Fresh(DOMAIN srv.group) :
       /\ writerGroup' = Put(writerGroup, <<c, conns'[c].wgKeyInc>>, id)
       /\ srv' = [srv EXCEPT !.group = Put(@, id,
                    [conn |-> connection[c], interval |-> DefaultInterval, operational |-> TRUE])]
  /\ UNCHANGED <<connection, dataSet, dataSetWriter, dataSetField, var>>

MirrorAddDataset(g, isString) ==
  LET p == <<g[1], g[2], Inc(wgs[g].dtsKeyInc)>> IN
  /\ AddDataset(g, isString)
  /\ \E pds \in Fresh(srv.pds), writer \in Fresh(DOMAIN srv.writer) :
       /\ dataSet' = Put(dataSet, p, pds)
       /\ dataSetWriter' = Put(dataSetWriter, p, writer)
       /\ srv' = [srv EXCEPT !.pds = @ \cup {pds},
                             !.writer = Put(@, writer, [group |-> writerGroup[g], pds |-> pds])]
  /\ UNCHANGED <<connection, writerGroup, dataSetField, var>>

\* Mutant: every variable asks for the same id.
PublishedTogether(Q, type) ==
  IF type = DateTime THEN [Q -> {CurrentTime}] ELSE [Q -> Offered(NodeId, 1)]

\* BranchField::BranchField: a DateTime Field publishes the server's clock,
\* every other Field a variable node of its own.
Published(Q, type) ==
  IF type = DateTime THEN [Q -> {CurrentTime}] ELSE FreshFor(Q, srv.node)

(* The Fields Q appear in DataSet p, and those no longer in the tree go.    *)
ReplaceFields(p, Q, type) ==
  \E fid \in FreshFor(Q, DOMAIN srv.field), vid \in Published(Q, type) :
    LET kept == {q \in DOMAIN dataSetField : q \in DOMAIN fields'}
        gone == {dataSetField[q] : q \in DOMAIN dataSetField \ kept}
        rest == RemoveServerFields(srv, gone)
    IN  /\ dataSetField' = [q \in kept \cup Q |-> IF q \in Q THEN fid[q] ELSE dataSetField[q]]
        /\ var' = [q \in kept \cup Q |-> IF q \in Q THEN vid[q] ELSE var[q]]
        /\ srv' = [rest EXCEPT
             !.field = [id \in DOMAIN rest.field \cup Range(fid) |->
                          IF id \in Range(fid)
                          THEN [pds |-> dataSet[p], var |-> vid[CHOOSE q \in Q : fid[q] = id]]
                          ELSE rest.field[id]],
             !.node = @ \cup (Range(vid) \ {CurrentTime})]
        /\ UNCHANGED <<connection, writerGroup, dataSet, dataSetWriter>>

MirrorAddField(p, type) ==
  /\ AddField(p, type)
  /\ ReplaceFields(p, DOMAIN fields' \ DOMAIN fields, type)

MirrorWriteString(p, n) ==
  /\ WriteString(p, n)
  /\ ReplaceFields(p, DOMAIN fields' \ DOMAIN fields, Byte)

-----------------------------------------------------------------------------
(* Removing: the server calls of the remove methods, in their order.  The   *)
(* ids are those of the nodes the loops visit, keys 1 up to the counter.    *)
(* Variable nodes are never removed from the server.                        *)
VisitedFields(P) == {q \in DOMAIN fields : DataSetOf(q) \in P /\ q[4] \in 1 .. dts[DataSetOf(q)].varKeyInc}
\* Mutant: "i < keyInc".
VisitedDataSetsButLast(G) ==
  {p \in DOMAIN dts : GroupOf(p) \in G /\ p[3] \in 1 .. wgs[GroupOf(p)].dtsKeyInc - 1}

VisitedDataSets(G) == {p \in DOMAIN dts : GroupOf(p) \in G /\ p[3] \in 1 .. wgs[GroupOf(p)].dtsKeyInc}
VisitedGroups(C) == {g \in DOMAIN wgs : g[1] \in C /\ g[2] \in 1 .. conns[g[1]].wgKeyInc}

Ids(f, S) == {f[x] : x \in S}

ServerWithoutDataSets(s, P) ==
  RemoveServerWriters(
    RemoveServerDataSets(
      RemoveServerFields(s, Ids(dataSetField, VisitedFields(P))), Ids(dataSet, P)),
    Ids(dataSetWriter, P))

ServerWithoutGroups(s, G) ==
  RemoveServerGroups(ServerWithoutDataSets(s, VisitedDataSets(G)), Ids(writerGroup, G))

\* Mutant: removing a Channel takes the groups of every Channel along.
ServerWithoutAnyGroups(s, C) ==
  ServerWithoutGroups(RemoveServerConnections(s, Ids(connection, C)), DOMAIN wgs)

ServerWithoutChannels(s, C) ==
  ServerWithoutGroups(RemoveServerConnections(s, Ids(connection, C)), VisitedGroups(C))

\* Mutant: the writer of a removed DataSet is kept.
ForgetIdsButWriters ==
  /\ connection' = Restrict(connection, DOMAIN conns')
  /\ writerGroup' = Restrict(writerGroup, DOMAIN wgs')
  /\ dataSet' = Restrict(dataSet, DOMAIN dts')
  /\ dataSetWriter' = dataSetWriter
  /\ dataSetField' = Restrict(dataSetField, DOMAIN fields')
  /\ var' = Restrict(var, DOMAIN fields')

\* The nodes keep their ids as long as they are in the tree.
ForgetIds ==
  /\ connection' = Restrict(connection, DOMAIN conns')
  /\ writerGroup' = Restrict(writerGroup, DOMAIN wgs')
  /\ dataSet' = Restrict(dataSet, DOMAIN dts')
  /\ dataSetWriter' = Restrict(dataSetWriter, DOMAIN dts')
  /\ dataSetField' = Restrict(dataSetField, DOMAIN fields')
  /\ var' = Restrict(var, DOMAIN fields')

MirrorRemoveField(p, f) ==
  /\ RemoveField(p, f)
  /\ srv' = RemoveServerFields(srv, {dataSetField[<<p[1], p[2], p[3], f>>]})
  /\ ForgetIds

MirrorRemoveDataset(p) ==
  /\ RemoveDataset(p)
  /\ srv' = ServerWithoutDataSets(srv, {p})
  /\ ForgetIds

MirrorRemoveWritergroup(g) ==
  /\ RemoveWritergroup(g)
  /\ srv' = ServerWithoutGroups(srv, {g})
  /\ ForgetIds

MirrorDeleteConnection(c) ==
  /\ DeleteConnection(c)
  /\ srv' = ServerWithoutChannels(srv, {c})
  /\ ForgetIds

MirrorDeleteAllConnections ==
  /\ DeleteAllConnections
  /\ srv' = ServerWithoutChannels(srv, {c \in DOMAIN conns : c \in 1 .. connKeyInc})
  /\ ForgetIds

-----------------------------------------------------------------------------
(* Publishing: setWriterGroupOperational, setWriterGroupDisabled and        *)
(* updateWriterGroupConfig on the selected groups.                          *)
MirrorSetEnabled(S, on) ==
  /\ SetEnabled(S, on)
  /\ srv' = [srv EXCEPT !.group = [id \in DOMAIN @ |->
               IF id \in Ids(writerGroup, S) THEN [@[id] EXCEPT !.operational = on] ELSE @[id]]]
  /\ UNCHANGED idVars

MirrorUpdateInterval(S, interval) ==
  /\ UpdateInterval(S, interval)
  /\ srv' = [srv EXCEPT !.group = [id \in DOMAIN @ |->
               IF id \in Ids(writerGroup, S) THEN [@[id] EXCEPT !.interval = interval] ELSE @[id]]]
  /\ UNCHANGED idVars

Next ==
  \/ Room(connKeyInc, 1) /\ \E port \in Port : MirrorCreateConnection(port)
  \/ \E c \in DOMAIN conns :
       \/ Room(conns[c].wgKeyInc, 1) /\ MirrorAddWritergroup(c)
       \/ MirrorDeleteConnection(c)
  \/ \E g \in DOMAIN wgs :
       \/ Room(wgs[g].dtsKeyInc, 1) /\ \E isString \in BOOLEAN : MirrorAddDataset(g, isString)
       \/ MirrorRemoveWritergroup(g)
  \/ \E p \in DOMAIN dts :
       \/ Room(dts[p].varKeyInc, 1) /\ \E type \in DataType : MirrorAddField(p, type)
       \/ \E f \in FieldKeys(p) : MirrorRemoveField(p, f)
       \/ \E n \in 0 .. MaxString : RoomForString(p, n) /\ MirrorWriteString(p, n)
       \/ MirrorRemoveDataset(p)
  \/ MirrorDeleteAllConnections
  \/ \E S \in GroupSelection : \/ \E on \in BOOLEAN : MirrorSetEnabled(S, on)
                               \/ \E i \in Interval : MirrorUpdateInterval(S, i)

Spec == Init /\ [][Next]_vars

-----------------------------------------------------------------------------
(* Type of the ids and of the server's tables.                              *)
MirrorTypeOK ==
  /\ connection \in [DOMAIN conns -> NodeId]
  /\ writerGroup \in [DOMAIN wgs -> NodeId]
  /\ dataSet \in [DOMAIN dts -> NodeId]
  /\ dataSetWriter \in [DOMAIN dts -> NodeId]
  /\ dataSetField \in [DOMAIN fields -> NodeId]
  /\ var \in [DOMAIN fields -> NodeId \cup {CurrentTime}]
  /\ srv \in [conn : [DOMAIN srv.conn -> Port],
               group : [DOMAIN srv.group ->
                          [conn : NodeId, interval : Interval, operational : BOOLEAN]],
               pds : SUBSET NodeId,
               writer : [DOMAIN srv.writer -> [group : NodeId, pds : NodeId]],
               field : [DOMAIN srv.field -> [pds : NodeId, var : NodeId \cup {CurrentTime}]],
               node : SUBSET NodeId]

(* Two nodes never share a server object, so an operation on one node never *)
(* reaches the server object of another.                                    *)
IdsDistinct ==
  /\ IsInjective(connection) /\ IsInjective(writerGroup)
  /\ IsInjective(dataSet) /\ IsInjective(dataSetWriter) /\ IsInjective(dataSetField)
  /\ \A q, r \in DOMAIN fields : var[q] = var[r] /\ q # r => var[q] = CurrentTime

(* Every PubSub object of the server belongs to a node of the tree: after a *)
(* removal nothing keeps publishing and nothing is left that the console    *)
(* can no longer name.                                                      *)
NothingLeftBehind ==
  /\ DOMAIN srv.conn \subseteq Range(connection)
  /\ DOMAIN srv.group \subseteq Range(writerGroup)
  /\ srv.pds \subseteq Range(dataSet)
  /\ DOMAIN srv.writer \subseteq Range(dataSetWriter)
  /\ DOMAIN srv.field \subseteq Range(dataSetField)

(* Every node of the tree has its server objects, linked to those of its    *)
(* parent, with the port, interval and publishing state the tree shows: a   *)
(* removal never takes an object of a node that stays.                      *)
NodesPublished ==
  /\ \A c \in DOMAIN conns :
       connection[c] \in DOMAIN srv.conn /\ srv.conn[connection[c]] = conns[c].port
  /\ \A g \in DOMAIN wgs :
       /\ writerGroup[g] \in DOMAIN srv.group
       /\ srv.group[writerGroup[g]] = [conn |-> connection[g[1]],
                                       interval |-> wgs[g].interval,
                                       operational |-> wgs[g].enabled]
  /\ \A p \in DOMAIN dts :
       /\ dataSet[p] \in srv.pds
       /\ dataSetWriter[p] \in DOMAIN srv.writer
       /\ srv.writer[dataSetWriter[p]] = [group |-> writerGroup[GroupOf(p)], pds |-> dataSet[p]]
  /\ \A q \in DOMAIN fields :
       /\ dataSetField[q] \in DOMAIN srv.field
       /\ srv.field[dataSetField[q]] = [pds |-> dataSet[DataSetOf(q)], var |-> var[q]]
       /\ var[q] \in srv.node \cup {CurrentTime}

ServerMirrorsTree == IdsDistinct /\ NothingLeftBehind /\ NodesPublished
=============================================================================
