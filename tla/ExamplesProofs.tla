--------------------------- MODULE ExamplesProofs ---------------------------
(***************************************************************************)
(* The commands of the old examples leave the tree's groups alone while the *)
(* examples are on (TreeUntouchedWhileOn), and the examples have at the end *)
(* of a line what the lines asked for (SelectionsObeyed), for every set of  *)
(* lines, indices, names and ports, and however the server chooses its ids. *)
(*                                                                         *)
(* The static ids of UserInput reach only what they name, and while the     *)
(* examples are on they name the examples: so the first invariant (IInv) is *)
(* about the owners of the objects, and about groups and the connection     *)
(* they go with.                                                            *)
(*                                                                         *)
(* What a line asks for is a fold over its tokens, while the loops of the   *)
(* source take one token, two or none and hand what they do not take back   *)
(* to decode, which reads it again.  The second invariant (OInv) says that  *)
(* at every turn there is something read so far from which the tokens left  *)
(* end in what the whole line asks for (Ends), which the examples have      *)
(* (Has), and which goes with the loop that runs (Stands): what decode skips*)
(* is no selection of its command, or asks for what is there already.       *)
(***************************************************************************)
EXTENDS Examples, SequenceTheorems, WellFoundedInduction, TLAPS

\* The shapes of a server, its tables and what is in them.
IsTable(f) == f = [x \in DOMAIN f |-> f[x]]
IsTables(s) == s = [conn |-> s.conn, group |-> s.group, var |-> s.var]
IsGroup(r) == r = [conn |-> r.conn, interval |-> r.interval, on |-> r.on, owner |-> r.owner]
Conn(p, who) == [port |-> p, owner |-> who]
Group(c, n, who) == [conn |-> c, interval |-> n, on |-> TRUE, owner |-> who]

\* Other tables in a server, and another state or interval in a group.
Both(s, C, G) == [s EXCEPT !.conn = C, !.group = G]
Groups(s, G) == [s EXCEPT !.group = G]
Variables(s, V) == [s EXCEPT !.var = V]
Switched(r, x) == [r EXCEPT !.on = x]
Paced(r, x) == [r EXCEPT !.interval = x]

\* A server whose groups go with connections of their owner.
IsServer(s) ==
  /\ IsTables(s) /\ IsTable(s.conn) /\ IsTable(s.group)
  /\ DOMAIN s.conn \subseteq NodeId /\ DOMAIN s.group \subseteq NodeId
  /\ \A g \in DOMAIN s.group :
       /\ IsGroup(s.group[g])
       /\ s.group[g].conn \in DOMAIN s.conn /\ s.group[g].owner = s.conn[s.group[g].conn].owner

ExamplesThere ==
  live => /\ connId \in DOMAIN srv.conn /\ srv.conn[connId].owner = "example"
          /\ DOMAIN wg = Index
          /\ \A k \in Index : wg[k] \in DOMAIN srv.group /\ srv.group[wg[k]].conn = connId

IInv == IsServer(srv) /\ ExamplesThere

-----------------------------------------------------------------------------
(* The four things the actions do to a server: a connection and the groups  *)
(* G on it are added for an owner, a connection is removed with its groups, *)
(* a group is dropped, groups are given another state or interval.          *)
Added(s, t, c, G, who) ==
  /\ IsServer(t)
  /\ c \notin DOMAIN s.conn /\ DOMAIN t.conn = DOMAIN s.conn \cup {c}
  /\ t.conn[c].owner = who /\ \A x \in DOMAIN s.conn : t.conn[x] = s.conn[x]
  /\ G \cap DOMAIN s.group = {} /\ DOMAIN t.group = DOMAIN s.group \cup G
  /\ \A g \in G : t.group[g].conn = c
  /\ \A g \in DOMAIN s.group : t.group[g] = s.group[g]

Removed(s, t, c) ==
  /\ IsServer(t)
  /\ DOMAIN t.conn = DOMAIN s.conn \ {c} /\ \A x \in DOMAIN t.conn : t.conn[x] = s.conn[x]
  /\ DOMAIN t.group = {g \in DOMAIN s.group : s.group[g].conn # c}
  /\ \A g \in DOMAIN t.group : t.group[g] = s.group[g]

Dropped(s, t, g) ==
  /\ IsServer(t)
  /\ t.conn = s.conn /\ t.var = s.var
  /\ DOMAIN t.group = DOMAIN s.group \ {g} /\ \A x \in DOMAIN t.group : t.group[x] = s.group[x]

Tuned(s, t, S) ==
  /\ IsServer(t)
  /\ t.conn = s.conn /\ DOMAIN t.group = DOMAIN s.group
  /\ \A g \in DOMAIN s.group : t.group[g].conn = s.group[g].conn
  /\ \A g \in DOMAIN s.group \ S : t.group[g] = s.group[g]

LEMMA FreshId ==
  ASSUME NEW used, used \subseteq NodeId, NEW x \in Fresh(used)
  PROVE  x \in NodeId \ used
  <1>1. PICK f \in Given({"one"}, NodeId \ used) : x = f["one"]
    BY DEF Fresh, FreshFor
  <1>2. f \in [{"one"} -> NodeId \ used]
    BY ExampleConstantsOK DEF Injection
  <1> QED BY <1>1, <1>2

LEMMA FreshIds ==
  ASSUME NEW used, used \subseteq NodeId, NEW f \in FreshFor(Index, used)
  PROVE  DOMAIN f = Index /\ Range(f) \subseteq NodeId \ used /\ \A k \in Index : f[k] \in Range(f)
  <1>1. f \in [Index -> NodeId \ used]
    BY ExampleConstantsOK DEF Injection, FreshFor
  <1> QED BY <1>1 DEF Range

-----------------------------------------------------------------------------
LEMMA BothParts ==
  ASSUME NEW s, IsTables(s), NEW C, NEW G
  PROVE  IsTables(Both(s, C, G)) /\ Both(s, C, G).conn = C /\ Both(s, C, G).group = G /\ Both(s, C, G).var = s.var
  <1>1. ASSUME NEW t, t = [s EXCEPT !.conn = C, !.group = G] PROVE t = [conn |-> C, group |-> G, var |-> s.var]
    BY <1>1 DEF IsTables
  <1>2. Both(s, C, G) = [conn |-> C, group |-> G, var |-> s.var]
    BY <1>1 DEF Both
  <1> QED BY <1>2 DEF IsTables

LEMMA GroupsParts ==
  ASSUME NEW s, IsTables(s), NEW G
  PROVE  IsTables(Groups(s, G)) /\ Groups(s, G).conn = s.conn /\ Groups(s, G).group = G /\ Groups(s, G).var = s.var
  <1>1. Groups(s, G) = [conn |-> s.conn, group |-> G, var |-> s.var]
    BY DEF IsTables, Groups
  <1> QED BY <1>1 DEF IsTables

LEMMA VariablesParts ==
  ASSUME NEW s, IsTables(s), NEW V
  PROVE  /\ IsTables(Variables(s, V)) /\ Variables(s, V).conn = s.conn /\ Variables(s, V).group = s.group
         /\ Variables(s, V).var = V
  <1>1. Variables(s, V) = [conn |-> s.conn, group |-> s.group, var |-> V]
    BY DEF IsTables, Variables
  <1> QED BY <1>1 DEF IsTables

LEMMA PutParts ==
  ASSUME NEW f, NEW Q, NEW v
  PROVE  /\ \A x : x \in DOMAIN Put(f, Q, v) <=> x \in DOMAIN f \/ x \in Q
         /\ IsTable(Put(f, Q, v))
         /\ \A x \in Q : Put(f, Q, v)[x] = v
         /\ \A x \in DOMAIN f \ Q : Put(f, Q, v)[x] = f[x]
  BY DEF Put, IsTable

LEMMA AddIsAdded ==
  ASSUME NEW s, IsServer(s), NEW c \in NodeId \ DOMAIN s.conn, NEW G, G \subseteq NodeId \ DOMAIN s.group,
         NEW p, NEW n, NEW who
  PROVE  Added(s, AddConnection(s, c, p, G, n, who), c, G, who)
  <1> DEFINE e == Group(c, n, who)
             b == Conn(p, who)
             t == AddConnection(s, c, p, G, n, who)
  <1>1. t = Both(s, Put(s.conn, {c}, b), Put(s.group, G, e))
    BY DEF AddConnection, Both, Conn, Group
  <1>2. e.conn = c /\ e.owner = who /\ b.owner = who /\ IsGroup(e)
    BY DEF Group, Conn, IsGroup
  <1> HIDE DEF e, b, t
  <1>3. IsTables(t) /\ t.conn = Put(s.conn, {c}, b) /\ t.group = Put(s.group, G, e)
    BY <1>1, BothParts DEF IsServer
  <1>4. /\ DOMAIN t.conn = DOMAIN s.conn \cup {c} /\ IsTable(t.conn)
        /\ t.conn[c] = b /\ \A x \in DOMAIN s.conn \ {c} : t.conn[x] = s.conn[x]
    <2> DEFINE Q == {c}
    <2>1. c \in Q /\ t.conn = Put(s.conn, Q, b)
      BY <1>3
    <2>2. \A x : x \in Q <=> x = c
      OBVIOUS
    <2> HIDE DEF Q
    <2>3. /\ \A x : x \in DOMAIN t.conn <=> x \in DOMAIN s.conn \/ x = c
          /\ IsTable(t.conn) /\ t.conn[c] = b /\ \A x \in DOMAIN s.conn : x # c => t.conn[x] = s.conn[x]
      BY <2>1, <2>2, PutParts
    <2> QED BY <2>3
  <1>5. /\ DOMAIN t.group = DOMAIN s.group \cup G /\ IsTable(t.group)
        /\ (\A g \in G : t.group[g] = e) /\ (\A g \in DOMAIN s.group \ G : t.group[g] = s.group[g])
    BY <1>3, PutParts
  <1>6. /\ DOMAIN t.conn \subseteq NodeId /\ DOMAIN t.group \subseteq NodeId
        /\ (\A x \in DOMAIN s.conn : t.conn[x] = s.conn[x]) /\ (\A g \in DOMAIN s.group : t.group[g] = s.group[g])
    BY <1>4, <1>5 DEF IsServer
  <1>7. ASSUME NEW g \in DOMAIN t.group
        PROVE  /\ IsGroup(t.group[g])
               /\ t.group[g].conn \in DOMAIN t.conn /\ t.group[g].owner = t.conn[t.group[g].conn].owner
    <2>1. CASE g \in G
      BY <1>2, <1>4, <1>5, <2>1
    <2>2. CASE g \in DOMAIN s.group
      BY <1>4, <1>6, <2>2 DEF IsServer
    <2> QED BY <1>5, <2>1, <2>2
  <1>8. IsServer(t)
    BY <1>3, <1>4, <1>5, <1>6, <1>7 DEF IsServer
  <1>9. \A g \in G : t.group[g].conn = c
    BY <1>2, <1>5
  <1>10. c \notin DOMAIN s.conn /\ G \cap DOMAIN s.group = {} /\ t.conn[c].owner = who
    BY <1>2, <1>4
  <1> QED BY <1>4, <1>5, <1>6, <1>8, <1>9, <1>10 DEF Added, t

\* One group on a new connection.
LEMMA OneAdded ==
  ASSUME NEW s, IsServer(s), NEW c \in Fresh(DOMAIN s.conn), NEW g \in Fresh(DOMAIN s.group), NEW p, NEW n, NEW who
  PROVE  \E G : Added(s, AddConnection(s, c, p, {g}, n, who), c, G, who)
  <1>1. c \in NodeId \ DOMAIN s.conn /\ {g} \subseteq NodeId \ DOMAIN s.group
    BY FreshId DEF IsServer
  <1> QED BY <1>1, AddIsAdded

LEMMA RemoveIsRemoved ==
  ASSUME NEW s, IsServer(s), NEW c
  PROVE  Removed(s, RemoveConnection(s, c), c)
  <1> DEFINE t == RemoveConnection(s, c)
             C == Restrict(s.conn, DOMAIN s.conn \ {c})
             G == Restrict(s.group, {g \in DOMAIN s.group : s.group[g].conn # c})
  <1>1. t = Both(s, C, G)
    BY Zenon DEF RemoveConnection, Both
  <1>2. /\ DOMAIN C = DOMAIN s.conn \ {c} /\ IsTable(C) /\ \A x \in DOMAIN C : C[x] = s.conn[x]
    BY DEF Restrict, IsTable
  <1>3. /\ DOMAIN G = {g \in DOMAIN s.group : s.group[g].conn # c} /\ IsTable(G)
        /\ \A g \in DOMAIN G : G[g] = s.group[g]
    BY DEF Restrict, IsTable
  <1> HIDE DEF t, C, G
  <1>4. IsTables(t) /\ t.conn = C /\ t.group = G
    BY <1>1, BothParts DEF IsServer
  <1>5. IsServer(t)
    BY <1>2, <1>3, <1>4 DEF IsServer
  <1> QED BY <1>2, <1>3, <1>4, <1>5 DEF Removed, t

LEMMA RemoveIsDropped ==
  ASSUME NEW s, IsServer(s), NEW g
  PROVE  Dropped(s, RemoveGroup(s, g), g)
  <1> DEFINE t == RemoveGroup(s, g)
             G == Restrict(s.group, DOMAIN s.group \ {g})
  <1>1. t = Groups(s, G)
    BY Zenon DEF RemoveGroup, Groups
  <1>2. DOMAIN G = DOMAIN s.group \ {g} /\ IsTable(G) /\ \A x \in DOMAIN G : G[x] = s.group[x]
    BY DEF Restrict, IsTable
  <1> HIDE DEF t, G
  <1>3. IsTables(t) /\ t.conn = s.conn /\ t.group = G /\ t.var = s.var
    BY <1>1, GroupsParts DEF IsServer
  <1>4. IsServer(t)
    BY <1>2, <1>3 DEF IsServer
  <1> QED BY <1>2, <1>3, <1>4 DEF Dropped, t

LEMMA TuneIsTuned ==
  ASSUME NEW s, IsServer(s), NEW S, NEW t, IsTables(t), t.conn = s.conn, IsTable(t.group),
         DOMAIN t.group = DOMAIN s.group,
         \A g \in DOMAIN s.group \ S : t.group[g] = s.group[g],
         \A g \in DOMAIN s.group \cap S :
           IsGroup(t.group[g]) /\ t.group[g].conn = s.group[g].conn /\ t.group[g].owner = s.group[g].owner
  PROVE  Tuned(s, t, S)
  <1>1. ASSUME NEW g \in DOMAIN s.group
        PROVE  IsGroup(t.group[g]) /\ t.group[g].conn = s.group[g].conn /\ t.group[g].owner = s.group[g].owner
    BY DEF IsServer
  <1>2. IsServer(t)
    BY <1>1 DEF IsServer
  <1> QED BY <1>1, <1>2 DEF Tuned

LEMMA SwitchedParts ==
  ASSUME NEW r, IsGroup(r), NEW x
  PROVE  /\ IsGroup(Switched(r, x)) /\ Switched(r, x).conn = r.conn /\ Switched(r, x).owner = r.owner
         /\ Switched(r, x).on = x /\ Switched(r, x).interval = r.interval
  <1>1. Switched(r, x) = [conn |-> r.conn, interval |-> r.interval, on |-> x, owner |-> r.owner]
    BY DEF IsGroup, Switched
  <1> QED BY <1>1 DEF IsGroup

LEMMA PacedParts ==
  ASSUME NEW r, IsGroup(r), NEW x
  PROVE  /\ IsGroup(Paced(r, x)) /\ Paced(r, x).conn = r.conn /\ Paced(r, x).owner = r.owner
         /\ Paced(r, x).interval = x /\ Paced(r, x).on = r.on
  <1>1. Paced(r, x) = [conn |-> r.conn, interval |-> x, on |-> r.on, owner |-> r.owner]
    BY DEF IsGroup, Paced
  <1> QED BY <1>1 DEF IsGroup

LEMMA StateTuned ==
  ASSUME NEW s, IsServer(s), NEW S, NEW x
  PROVE  Tuned(s, WithState(s, S, x), S)
  <1> DEFINE G == [g \in DOMAIN s.group |-> IF g \in S THEN Switched(s.group[g], x) ELSE s.group[g]]
             t == WithState(s, S, x)
  <1>1. t = Groups(s, G)
    BY DEF WithState, Groups, Switched
  <1>2. /\ DOMAIN G = DOMAIN s.group /\ IsTable(G)
        /\ \A g \in DOMAIN s.group \ S : G[g] = s.group[g]
        /\ \A g \in DOMAIN s.group \cap S : G[g] = Switched(s.group[g], x)
    BY DEF IsTable
  <1> HIDE DEF G, t
  <1>3. IsTables(t) /\ t.conn = s.conn /\ t.group = G
    BY <1>1, GroupsParts DEF IsServer
  <1>4. ASSUME NEW g \in DOMAIN s.group \cap S
        PROVE  IsGroup(G[g]) /\ G[g].conn = s.group[g].conn /\ G[g].owner = s.group[g].owner
    BY <1>2, SwitchedParts DEF IsServer
  <1>5. Tuned(s, t, S)
    BY <1>2, <1>3, <1>4, TuneIsTuned
  <1> QED BY <1>5 DEF t

LEMMA IntervalTuned ==
  ASSUME NEW s, IsServer(s), NEW S, NEW x
  PROVE  Tuned(s, WithInterval(s, S, x), S)
  <1> DEFINE G == [g \in DOMAIN s.group |-> IF g \in S THEN Paced(s.group[g], x) ELSE s.group[g]]
             t == WithInterval(s, S, x)
  <1>1. t = Groups(s, G)
    BY DEF WithInterval, Groups, Paced
  <1>2. /\ DOMAIN G = DOMAIN s.group /\ IsTable(G)
        /\ \A g \in DOMAIN s.group \ S : G[g] = s.group[g]
        /\ \A g \in DOMAIN s.group \cap S : G[g] = Paced(s.group[g], x)
    BY DEF IsTable
  <1> HIDE DEF G, t
  <1>3. IsTables(t) /\ t.conn = s.conn /\ t.group = G
    BY <1>1, GroupsParts DEF IsServer
  <1>4. ASSUME NEW g \in DOMAIN s.group \cap S
        PROVE  IsGroup(G[g]) /\ G[g].conn = s.group[g].conn /\ G[g].owner = s.group[g].owner
    BY <1>2, PacedParts DEF IsServer
  <1>5. Tuned(s, t, S)
    BY <1>2, <1>3, <1>4, TuneIsTuned
  <1> QED BY <1>5 DEF t

-----------------------------------------------------------------------------
(* What these leave of the groups of the tree.                              *)
TreeGroups(s) == {<<g, s.group[g]>> : g \in {x \in DOMAIN s.group : s.group[x].owner = "tree"}}
TreeConns(s) == {c \in DOMAIN s.conn : s.conn[c].owner = "tree"}
TreeSame(s, t) == TreeConns(t) = TreeConns(s) /\ TreeGroups(t) = TreeGroups(s)

\* It is enough that the groups of the tree are the same, and their contents.
LEMMA SameGroups ==
  ASSUME NEW s, NEW t, TreeConns(t) = TreeConns(s),
         \A g \in DOMAIN s.group : s.group[g].owner = "tree" => g \in DOMAIN t.group /\ t.group[g] = s.group[g],
         \A g \in DOMAIN t.group : t.group[g].owner = "tree" => g \in DOMAIN s.group /\ t.group[g] = s.group[g]
  PROVE  TreeSame(s, t)
  <1>1. ASSUME NEW e \in TreeGroups(s) PROVE e \in TreeGroups(t)
    BY DEF TreeGroups
  <1>2. ASSUME NEW e \in TreeGroups(t) PROVE e \in TreeGroups(s)
    BY DEF TreeGroups
  <1> QED BY <1>1, <1>2 DEF TreeSame

LEMMA OwnersAgree ==
  ASSUME NEW s, IsServer(s), NEW g \in DOMAIN s.group
  PROVE  s.group[g].conn \in DOMAIN s.conn /\ s.group[g].owner = s.conn[s.group[g].conn].owner
  BY DEF IsServer

LEMMA AddedSame ==
  ASSUME NEW s, IsServer(s), NEW t, NEW c, NEW G, NEW who, Added(s, t, c, G, who), who # "tree"
  PROVE  TreeSame(s, t)
  <1>1. TreeConns(t) = TreeConns(s)
    BY DEF Added, TreeConns
  <1>2. \A g \in G : t.group[g].owner # "tree"
    BY OwnersAgree DEF Added
  <1>3. DOMAIN t.group = DOMAIN s.group \cup G /\ \A g \in DOMAIN s.group : t.group[g] = s.group[g]
    BY DEF Added
  <1>4. \A g \in DOMAIN t.group : t.group[g].owner = "tree" => g \in DOMAIN s.group /\ t.group[g] = s.group[g]
    BY <1>2, <1>3
  <1> QED BY <1>1, <1>3, <1>4, SameGroups

LEMMA RemovedSame ==
  ASSUME NEW s, IsServer(s), NEW t, NEW c, Removed(s, t, c), c \in DOMAIN s.conn => s.conn[c].owner # "tree"
  PROVE  TreeSame(s, t)
  <1>1. TreeConns(t) = TreeConns(s)
    BY DEF Removed, TreeConns
  <1>2. \A g \in DOMAIN s.group : s.group[g].owner = "tree" => s.group[g].conn # c
    BY DEF IsServer
  <1> QED BY <1>1, <1>2, SameGroups DEF Removed

LEMMA TunedSame ==
  ASSUME NEW s, IsServer(s), NEW t, NEW S, Tuned(s, t, S),
         \A g \in S \cap DOMAIN s.group : s.group[g].owner # "tree"
  PROVE  TreeSame(s, t)
  <1>1. TreeConns(t) = TreeConns(s)
    BY DEF Tuned, TreeConns
  <1>2. \A g \in DOMAIN s.group : t.group[g].owner = s.group[g].owner
    BY OwnersAgree DEF Tuned
  <1>3. \A g \in DOMAIN s.group : s.group[g].owner = "tree" => t.group[g] = s.group[g]
    BY DEF Tuned
  <1>4. DOMAIN t.group = DOMAIN s.group
    BY DEF Tuned
  <1> QED BY <1>1, <1>2, <1>3, <1>4, SameGroups

LEMMA SameOwned ==
  ASSUME TreeSame(srv, srv')
  PROVE  OwnedBy("tree")' = OwnedBy("tree")
  BY DEF TreeSame, TreeConns, TreeGroups, OwnedBy

-----------------------------------------------------------------------------
(* What they leave of the examples.                                         *)

LEMMA AddedThere ==
  ASSUME ExamplesThere, NEW c, NEW G, NEW who, Added(srv, srv', c, G, who), connId' = connId, wg' = wg, live' => live
  PROVE  ExamplesThere'
  BY DEF ExamplesThere, Added

LEMMA TunedThere ==
  ASSUME ExamplesThere, NEW S, Tuned(srv, srv', S), connId' = connId, wg' = wg, live' => live
  PROVE  ExamplesThere'
  BY DEF ExamplesThere, Tuned

LEMMA RemovedThere ==
  ASSUME ExamplesThere, NEW t, NEW c, NEW g, Removed(srv, t, c), Dropped(t, srv', g), connId' = connId, wg' = wg,
         live' => live /\ c # connId /\ g \notin Range(wg)
  PROVE  ExamplesThere'
  <1>1. live' => \A k \in Index : wg[k] # g
    BY DEF ExamplesThere, Range
  <1> QED BY <1>1 DEF ExamplesThere, Removed, Dropped

\* The groups of the examples are not the tree's.
LEMMA NotTheTrees ==
  ASSUME IInv, live, NEW k \in Index
  PROVE  wg[k] \in DOMAIN srv.group /\ srv.group[wg[k]].owner # "tree"
  BY OwnersAgree DEF IInv, ExamplesThere

LEMMA SameServer == ASSUME srv' = srv PROVE TreeSame(srv, srv')
  BY DEF TreeSame, TreeConns, TreeGroups

-----------------------------------------------------------------------------
(* The actions.                                                             *)

LEMMA QuietKeeps == ASSUME IInv, UNCHANGED <<connId, wg, srv, live>> PROVE IInv' /\ TreeSame(srv, srv')
  BY SameServer DEF IInv, ExamplesThere

LEMMA RestartKeeps == ASSUME IInv, NEW l, Restart(l) PROVE IInv'
  <1>1. srv' = NewServer /\ live' = FALSE
    BY DEF Restart
  <1>2. IsServer(NewServer)
    BY DEF IsServer, NewServer, IsTables, IsTable
  <1> QED BY <1>1, <1>2 DEF IInv, ExamplesThere

LEMMA AddTreeKeeps == ASSUME IInv, NEW p, AddTree(p) PROVE IInv'
  <1>1. PICK c \in Fresh(DOMAIN srv.conn), g \in Fresh(DOMAIN srv.group) :
          srv' = AddConnection(srv, c, p, {g}, 100, "tree")
    BY DEF AddTree
  <1>2. PICK G : Added(srv, srv', c, G, "tree")
    BY <1>1, OneAdded DEF IInv
  <1>3. connId' = connId /\ wg' = wg /\ live' = live
    BY DEF AddTree, statics
  <1> QED BY <1>2, <1>3, AddedThere DEF IInv, Added

LEMMA RemoveTreeKeeps == ASSUME IInv, RemoveTree PROVE IInv'
  <1> DEFINE t == RemoveConnection(srv, tree.conn)
  <1>1. Removed(srv, t, tree.conn)
    BY RemoveIsRemoved DEF IInv
  <1>2. srv' = RemoveGroup(t, tree.group) /\ connId' = connId /\ wg' = wg
    BY DEF RemoveTree, statics
  <1>3. live' => live /\ tree.conn # connId /\ tree.group \notin Range(wg)
    BY DEF RemoveTree
  <1> HIDE DEF t
  <1>4. Dropped(t, srv', tree.group)
    BY <1>1, <1>2, RemoveIsDropped DEF Removed
  <1> QED BY <1>1, <1>2, <1>3, <1>4, RemovedThere DEF IInv, Dropped

LEMMA OnKeeps == ASSUME IInv, GetOldExample PROVE IInv' /\ TreeSame(srv, srv')
  <1>1. PICK c \in Fresh(DOMAIN srv.conn), f \in FreshFor(Index, DOMAIN srv.group),
             v \in FreshFor(Valued, DOMAIN srv.var) :
          /\ connId' = c /\ wg' = f
          /\ srv' = [AddConnection(srv, c, 4840, Range(f), 1000, "example") EXCEPT !.var = Put(@, Range(v), 0)]
    BY DEF GetOldExample
  <1>2. c \in NodeId \ DOMAIN srv.conn /\ IsServer(srv)
    BY FreshId DEF IInv, IsServer
  <1>3. DOMAIN f = Index /\ Range(f) \subseteq NodeId \ DOMAIN srv.group /\ \A k \in Index : f[k] \in Range(f)
    BY FreshIds DEF IInv, IsServer
  <1> DEFINE t == AddConnection(srv, c, 4840, Range(f), 1000, "example")
             V == Put(t.var, Range(v), 0)
  <1>4. Added(srv, t, c, Range(f), "example")
    BY <1>2, <1>3, AddIsAdded
  <1>5. srv' = Variables(t, V)
    BY <1>1 DEF Variables
  <1> HIDE DEF t, V
  <1>6. srv'.conn = t.conn /\ srv'.group = t.group /\ IsTables(srv')
    BY <1>4, <1>5, VariablesParts DEF Added, IsServer
  <1>7. Added(srv, srv', c, Range(f), "example")
    BY <1>4, <1>6 DEF Added, IsServer
  <1>8. ExamplesThere'
    BY <1>1, <1>3, <1>7 DEF ExamplesThere, Added
  <1>9. TreeSame(srv, srv')
    BY <1>2, <1>7, AddedSame
  <1> QED BY <1>7, <1>8, <1>9 DEF IInv, Added

LEMMA OffKeeps == ASSUME IInv, ExampleOff PROVE IInv' /\ (live => TreeSame(srv, srv'))
  <1>1. Removed(srv, srv', connId) /\ live' = FALSE
    BY RemoveIsRemoved DEF ExampleOff, IInv
  <1>2. live => TreeSame(srv, srv')
    BY <1>1, RemovedSame DEF IInv, ExamplesThere
  <1> QED BY <1>1, <1>2 DEF IInv, ExamplesThere, Removed

LEMMA HelloKeeps == ASSUME IInv, PublishHelloWorld PROVE IInv' /\ TreeSame(srv, srv')
  <1>1. PICK c \in Fresh(DOMAIN srv.conn), g \in Fresh(DOMAIN srv.group) :
          srv' = AddConnection(srv, c, port, {g}, 1000, "hello")
    BY DEF PublishHelloWorld
  <1>2. PICK G : Added(srv, srv', c, G, "hello")
    BY <1>1, OneAdded DEF IInv
  <1>3. TreeSame(srv, srv')
    BY <1>2, AddedSame DEF IInv
  <1>4. live' = FALSE
    BY DEF PublishHelloWorld
  <1> QED BY <1>2, <1>3, <1>4 DEF IInv, ExamplesThere, Added

LEMMA ExampleKeeps == ASSUME IInv, Example PROVE IInv' /\ (live => TreeSame(srv, srv'))
  <1>1. \/ GetOldExample \/ ExampleOff \/ PublishHelloWorld
        \/ UNCHANGED <<statics, srv, port, live>>
    BY DEF Example
  <1>2. CASE GetOldExample
    BY <1>2, OnKeeps
  <1>3. CASE ExampleOff
    BY <1>3, OffKeeps
  <1>4. CASE PublishHelloWorld
    BY <1>4, HelloKeeps
  <1>5. CASE UNCHANGED <<statics, srv, port, live>>
    BY <1>5, QuietKeeps DEF statics
  <1> QED BY <1>1, <1>2, <1>3, <1>4, <1>5

LEMMA SelectedInside == ASSUME NEW t PROVE Selected(t) \subseteq Index
  BY ExampleConstantsOK DEF Selected

LEMMA SwitchKeeps == ASSUME IInv, NEW cmd, Switch(cmd) PROVE IInv' /\ (live => TreeSame(srv, srv'))
  <1> DEFINE S == GroupsOf(Head(toks))
  <1>1. srv' = WithState(srv, S, cmd = "enable")
    BY DEF Switch
  <1>2. connId' = connId /\ wg' = wg /\ live' = live
    BY DEF Switch, statics
  <1> HIDE DEF S
  <1>3. Tuned(srv, srv', S)
    BY <1>1, StateTuned DEF IInv
  <1>4. ASSUME live PROVE \A g \in S \cap DOMAIN srv.group : srv.group[g].owner # "tree"
    BY <1>4, SelectedInside, NotTheTrees DEF S, GroupsOf
  <1> QED BY <1>2, <1>3, <1>4, TunedSame, TunedThere DEF IInv, Tuned

LEMMA SetIntervalKeeps == ASSUME IInv, SetInterval PROVE IInv' /\ (live => TreeSame(srv, srv'))
  <1> DEFINE S == Updated(Head(toks))
  <1>1. srv' = WithInterval(srv, S, Number[val])
    BY DEF SetInterval
  <1>2. connId' = connId /\ wg' = wg /\ live' = live
    BY DEF SetInterval
  <1> HIDE DEF S
  <1>3. Tuned(srv, srv', S)
    BY <1>1, IntervalTuned DEF IInv
  <1>4. ASSUME live PROVE \A g \in S \cap DOMAIN srv.group : srv.group[g].owner # "tree"
    <2>1. DOMAIN wg = Index
      BY <1>4 DEF IInv, ExamplesThere
    <2>2. \A g \in S : \E k \in Index : g = wg[k]
      BY <2>1, SelectedInside, ExampleConstantsOK DEF S, Updated, Range
    <2> QED BY <1>4, <2>2, NotTheTrees
  <1> QED BY <1>2, <1>3, <1>4, TunedSame, TunedThere DEF IInv, Tuned

LEMMA SetKeeps == ASSUME IInv, Set PROVE IInv' /\ TreeSame(srv, srv')
  <1>1. PICK V : srv' = Variables(srv, V)
    BY DEF Set, Variables
  <1>2. IsTables(srv)
    BY DEF IInv, IsServer
  <1>3. srv'.conn = srv.conn /\ srv'.group = srv.group /\ IsTables(srv')
    BY <1>1, <1>2, VariablesParts
  <1>4. connId' = connId /\ wg' = wg /\ live' = live
    BY DEF Set, statics
  <1>5. IInv'
    BY <1>3, <1>4 DEF IInv, IsServer, ExamplesThere
  <1> QED BY <1>3, <1>5 DEF TreeSame, TreeConns, TreeGroups

-----------------------------------------------------------------------------

LEMMA StepKeeps == ASSUME IInv, Step PROVE IInv' /\ (live => TreeSame(srv, srv'))
  <1>1. CASE LineDone \/ Invalid \/ NoMoreSelections \/ \E word \in CommandWords : Plain(word) \/ WithValue(word)
    <2>1. UNCHANGED <<connId, wg, srv, live>>
      BY <1>1 DEF LineDone, Invalid, NoMoreSelections, Plain, WithValue, statics
    <2> QED BY <2>1, QuietKeeps
  <1> QED BY <1>1, ExampleKeeps, SetIntervalKeeps, SetKeeps, SwitchKeeps DEF Step

LEMMA NextKeeps == IInv /\ [Next]_vars => IInv'
  <1> SUFFICES ASSUME IInv, [Next]_vars PROVE IInv'
    OBVIOUS
  <1>1. CASE \E l \in Lines : EnterLine(l)
    <2>1. UNCHANGED <<connId, wg, srv, live>>
      BY <1>1 DEF EnterLine, statics
    <2> QED BY <2>1, QuietKeeps
  <1>2. CASE UNCHANGED vars
    BY <1>2, QuietKeeps DEF vars, statics
  <1> QED BY <1>1, <1>2, StepKeeps, RestartKeeps, AddTreeKeeps, RemoveTreeKeeps DEF Next

LEMMA InitKeeps == Init => IInv
  BY DEF Init, IInv, IsServer, IsTables, IsTable, NewServer, ExamplesThere

LEMMA Invariance == Spec => []IInv
  BY InitKeeps, NextKeeps, PTL DEF Spec

(* From switching the examples on to switching them off, no command of      *)
(* theirs changes a group of the tree or takes away its connection.  An rm  *)
(* whose remembered ids have become the examples' ends this: it takes an    *)
(* object of theirs away, and they are no longer what was switched on.      *)
THEOREM ExamplesReachExamples == Spec => TreeUntouchedWhileOn
  <1>1. IInv /\ [Next]_vars => [Step /\ live => OwnedBy("tree")' = OwnedBy("tree")]_vars
    BY StepKeeps, SameOwned
  <1>2. Spec => [][Next]_vars
    BY DEF Spec
  <1> QED BY <1>1, <1>2, Invariance, PTL DEF TreeUntouchedWhileOn

-----------------------------------------------------------------------------
(* Induction, and what folding over the tokens of a line computes.          *)

\* The least number principle, from which induction over Nat follows.
LEMMA LeastNumber ==
  ASSUME NEW S, S \subseteq Nat, S # {}
  PROVE  \E m \in S : \A n \in S : m <= n
  <1>1. PICK R : R = {p \in Nat \X Nat : p[1] < p[2]}
    OBVIOUS
  <1>2. IsWellFoundedOn(R, Nat)
    BY <1>1, NatLessThanWellFounded DEF OpToRel
  <1>3. PICK m \in S : \A n \in S : ~ (<<n, m>> \in R)
    BY <1>2, WFMin
  <1>4. ASSUME NEW n \in S PROVE m <= n
    <2>1. n \in Nat /\ m \in Nat /\ <<n, m>> \notin R
      BY <1>3
    <2>2. <<n, m>> \in Nat \X Nat
      BY <2>1
    <2> QED BY <1>1, <2>1, <2>2
  <1> QED BY <1>3, <1>4

LEMMA Induct ==
  ASSUME NEW S, 0 \in S, \A n \in S \cap Nat : n + 1 \in S
  PROVE  Nat \subseteq S
  <1>1. SUFFICES ASSUME Nat \ S # {} PROVE FALSE
    OBVIOUS
  <1>2. PICK m \in Nat \ S : \A n \in Nat \ S : m <= n
    BY <1>1, LeastNumber
  <1>3. m # 0 /\ m - 1 \in Nat
    BY <1>2
  <1>4. m - 1 \in S
    BY <1>2, <1>3
  <1>5. (m - 1) + 1 \in S
   BY <1>3, <1>4
  <1> QED BY <1>2, <1>5

\* FoldLeft as the community modules define it: over sets of indices, the
\* greatest of which is read last.
Top(s) == CHOOSE x \in s : \A y \in s : x >= y
Turn(g, r0, ts, s) == IF s = {} THEN r0 ELSE Read(g[s \ {Top(s)}], ts[Top(s)])

Folds(g, r0, ts, n) == g = [s \in SUBSET (1 .. n) |-> Turn(g, r0, ts, s)]

LEMMA FoldDef ==
  ASSUME NEW r0, NEW ts
  PROVE  FoldLeft(Read, r0, ts) =
           (CHOOSE g : g = [s \in SUBSET DOMAIN ts |-> Turn(g, r0, ts, s)])[DOMAIN ts]
  BY DEF FoldLeft, MapThenFoldSet, Turn, Top, Max

LEMMA TopIs ==
  ASSUME NEW m \in Nat, NEW s, s \subseteq 1 .. m, m \in s
  PROVE  Top(s) = m
  <1>1. m \in s /\ \A y \in s : m >= y
    OBVIOUS
  <1>2. Top(s) \in s /\ \A y \in s : Top(s) >= y
    BY <1>1, Zenon DEF Top
  <1>3. Top(s) \in 1 .. m /\ Top(s) >= m
    BY <1>2
  <1> QED BY <1>3

\* There is a function that satisfies the definition.
LEMMA FoldExists ==
  ASSUME NEW r0, NEW ts, NEW n \in Nat
  PROVE  \E g : Folds(g, r0, ts, n)
  <1> DEFINE S == {m \in Nat : \E g : Folds(g, r0, ts, m)}
  <1>1. 0 \in S
    <2>1. SUBSET (1 .. 0) = {{}}
      OBVIOUS
    <2> DEFINE g0 == [s \in SUBSET (1 .. 0) |-> r0]
    <2>2. g0 = [s \in SUBSET (1 .. 0) |-> Turn(g0, r0, ts, s)]
      BY <2>1 DEF Turn
    <2> QED BY <2>2 DEF Folds
  <1>2. ASSUME NEW m \in S \cap Nat PROVE m + 1 \in S
    <2>1. PICK g : g = [s \in SUBSET (1 .. m) |-> Turn(g, r0, ts, s)]
      BY DEF Folds
    <2> DEFINE h == [s \in SUBSET (1 .. m + 1) |->
                       IF m + 1 \in s THEN Read(g[s \ {m + 1}], ts[m + 1]) ELSE g[s]]
    <2>2. ASSUME NEW s \in SUBSET (1 .. m + 1), m + 1 \in s PROVE h[s] = Turn(h, r0, ts, s)
      <3>1. m + 1 \in Nat /\ s \subseteq 1 .. m + 1
        OBVIOUS
      <3>1a. Top(s) = m + 1
        BY <2>2, <3>1, TopIs
      <3>2. s \ {m + 1} \in SUBSET (1 .. m + 1) /\ m + 1 \notin s \ {m + 1}
        OBVIOUS
      <3>3. h[s \ {m + 1}] = g[s \ {m + 1}]
        BY <3>2
      <3>4. h[s] = Read(g[s \ {m + 1}], ts[m + 1])
        BY <2>2
      <3>5. Turn(h, r0, ts, s) = Read(h[s \ {m + 1}], ts[m + 1])
        BY <2>2, <3>1a DEF Turn
      <3> QED BY <3>3, <3>4, <3>5
    <2>3. ASSUME NEW s \in SUBSET (1 .. m + 1), m + 1 \notin s PROVE h[s] = Turn(h, r0, ts, s)
      <3>1. s \in SUBSET (1 .. m)
        BY <2>3
      <3>2. h[s] = Turn(g, r0, ts, s)
        BY <2>1, <2>3, <3>1
      <3>3. s \ {Top(s)} \in SUBSET (1 .. m + 1) /\ m + 1 \notin s \ {Top(s)}
        BY <2>3
      <3>4. h[s \ {Top(s)}] = g[s \ {Top(s)}]
        BY <3>3
      <3> QED BY <3>2, <3>4 DEF Turn
    <2>4. h = [s \in SUBSET (1 .. m + 1) |-> Turn(h, r0, ts, s)]
      <3> HIDE DEF h
      <3>1. \A s \in SUBSET (1 .. m + 1) : h[s] = Turn(h, r0, ts, s)
        BY <2>2, <2>3
      <3>2. h = [s \in SUBSET (1 .. m + 1) |-> h[s]]
        BY DEF h
      <3> QED BY <3>1, <3>2
    <2>5. \E f : Folds(f, r0, ts, m + 1)
      BY <2>4 DEF Folds
    <2> QED BY <2>5
  <1>3. Nat \subseteq S
    BY <1>1, <1>2, Induct
  <1> QED BY <1>3

\* What has been read after k tokens.
LEMMA FoldSteps ==
  ASSUME NEW r0, NEW ts, ts \in Seq(Range(ts))
  PROVE  \E r : /\ r[0] = r0
                /\ \A k \in 1 .. Len(ts) : r[k] = Read(r[k - 1], ts[k])
                /\ r[Len(ts)] = FoldLeft(Read, r0, ts)
  <1> DEFINE n == Len(ts)
  <1>1. n \in Nat /\ DOMAIN ts = 1 .. n
    OBVIOUS
  <1>2. \E g : Folds(g, r0, ts, n)
    BY <1>1, FoldExists
  <1> HIDE DEF n
  <1> DEFINE G == CHOOSE g : g = [s \in SUBSET (1 .. n) |-> Turn(g, r0, ts, s)]
  <1>3. G = [s \in SUBSET (1 .. n) |-> Turn(G, r0, ts, s)]
    BY <1>2 DEF Folds
  <1>4. FoldLeft(Read, r0, ts) = G[1 .. n]
    BY <1>1, FoldDef
  <1> HIDE DEF G
  <1> DEFINE r == [k \in 0 .. n |-> G[1 .. k]]
  <1>5. r[0] = r0
    <2>1. 1 .. 0 = {} /\ {} \in SUBSET (1 .. n) /\ 0 \in 0 .. n
      BY <1>1
    <2>2. r[0] = G[{}]
      BY <2>1
    <2> QED BY <1>3, <2>1, <2>2 DEF Turn
  <1>6. ASSUME NEW k \in 1 .. n PROVE r[k] = Read(r[k - 1], ts[k])
    <2>1. k \in Nat /\ k \in 0 .. n /\ k - 1 \in 0 .. n /\ k \in 1 .. k /\ 1 .. k \in SUBSET (1 .. n)
      BY <1>1
    <2>2. Top(1 .. k) = k
      BY <2>1, TopIs
    <2>3. (1 .. k) \ {k} = 1 .. (k - 1) /\ 1 .. k # {}
      BY <2>1
    <2>4. G[1 .. k] = Turn(G, r0, ts, 1 .. k)
      BY <1>3, <2>1
    <2>5. G[1 .. k] = Read(G[1 .. (k - 1)], ts[k])
      BY <2>2, <2>3, <2>4 DEF Turn
    <2>6. r[k] = G[1 .. k] /\ r[k - 1] = G[1 .. (k - 1)]
      BY <2>1
    <2> QED BY <2>5, <2>6
  <1>7. r[n] = FoldLeft(Read, r0, ts)
    BY <1>1, <1>4
  <1> HIDE DEF r
  <1> QED BY <1>5, <1>6, <1>7 DEF n

-----------------------------------------------------------------------------
(* Reading a line: what is left of it, from what has been read so far, ends *)
(* in what the whole line asks for.                                         *)

Token == DOMAIN Number

Ends(r, ts, e) ==
  \E f : f[0] = r /\ (\A k \in 1 .. Len(ts) : f[k] = Read(f[k - 1], ts[k])) /\ f[Len(ts)] = e

LEMMA EndsFold ==
  ASSUME NEW r, NEW ts \in Seq(Token)
  PROVE  Ends(r, ts, FoldLeft(Read, r, ts))
  <1>1. ts \in Seq(Range(ts))
    BY DEF Range
  <1> QED BY <1>1, FoldSteps DEF Ends

LEMMA EndsNil ==
  ASSUME NEW r, NEW e, Ends(r, <<>>, e)
  PROVE  r = e
  BY DEF Ends

\* The first token is read.
LEMMA EndsHead ==
  ASSUME NEW r, NEW e, NEW ts \in Seq(Token), ts # <<>>, Ends(r, ts, e)
  PROVE  Ends(Read(r, Head(ts)), Tail(ts), e)
  <1> DEFINE n == Len(ts)
  <1>1. n \in Nat /\ n >= 1 /\ Head(ts) = ts[1] /\ Len(Tail(ts)) = n - 1 /\ \A k \in 1 .. n - 1 : Tail(ts)[k] = ts[k + 1]
    BY HeadTailProperties, EmptySeq, LenProperties
  <1>2. PICK f : f[0] = r /\ (\A k \in 1 .. n : f[k] = Read(f[k - 1], ts[k])) /\ f[n] = e
    BY DEF Ends
  <1> HIDE DEF n
  <1> DEFINE h == [k \in 0 .. n - 1 |-> f[k + 1]]
  <1>3. h[0] = Read(r, Head(ts))
    <2>1. 0 \in 0 .. n - 1 /\ 1 \in 1 .. n
      BY <1>1
    <2>2. f[1] = Read(f[1 - 1], ts[1])
      BY <1>2, <2>1
    <2>3. 1 - 1 = 0 /\ 0 + 1 = 1
      OBVIOUS
    <2> QED BY <1>1, <1>2, <2>1, <2>2, <2>3
  <1>4. ASSUME NEW k \in 1 .. n - 1 PROVE h[k] = Read(h[k - 1], Tail(ts)[k])
    <2>1. k \in 0 .. n - 1 /\ k - 1 \in 0 .. n - 1 /\ k + 1 \in 1 .. n /\ (k + 1) - 1 = k /\ (k - 1) + 1 = k
      BY <1>1
    <2>2. f[k + 1] = Read(f[(k + 1) - 1], ts[k + 1])
      BY <1>2, <2>1
    <2>3. h[k] = f[k + 1] /\ h[k - 1] = f[k]
      BY <2>1
    <2> QED BY <1>1, <2>1, <2>2, <2>3
  <1>5. h[n - 1] = e
    BY <1>1, <1>2
  <1> HIDE DEF h
  <1> QED BY <1>1, <1>3, <1>4, <1>5 DEF Ends

\* It may have been read from something else that it is read from alike.
LEMMA EndsAlike ==
  ASSUME NEW r, NEW r2, NEW e, NEW ts \in Seq(Token), ts # <<>>, Ends(r, ts, e), Read(r2, Head(ts)) = Read(r, Head(ts))
  PROVE  Ends(r2, ts, e)
  <1> DEFINE n == Len(ts)
  <1>1. n \in Nat /\ n >= 1 /\ Head(ts) = ts[1]
    BY HeadTailProperties, EmptySeq, LenProperties
  <1>2. PICK f : f[0] = r /\ (\A k \in 1 .. n : f[k] = Read(f[k - 1], ts[k])) /\ f[n] = e
    BY DEF Ends
  <1> HIDE DEF n
  <1> DEFINE h == [k \in 0 .. n |-> IF k = 0 THEN r2 ELSE f[k]]
  <1>3. h[0] = r2 /\ h[n] = e
    BY <1>1, <1>2
  <1>4. ASSUME NEW k \in 1 .. n, k # 1 PROVE h[k] = Read(h[k - 1], ts[k])
    <2>1. k \in 0 .. n /\ k # 0 /\ k - 1 \in 0 .. n /\ k - 1 # 0
      BY <1>1, <1>4
    <2> QED BY <1>2, <2>1
  <1>5. h[1] = Read(h[1 - 1], ts[1])
    <2>1. 1 \in 0 .. n /\ 1 \in 1 .. n /\ 1 - 1 = 0 /\ 0 \in 0 .. n
      BY <1>1
    <2>2. f[1] = Read(f[1 - 1], ts[1])
      BY <1>2, <2>1
    <2>3. h[1] = f[1] /\ h[1 - 1] = r2
      BY <2>1
    <2> QED BY <1>1, <1>2, <2>1, <2>2, <2>3
  <1>6. \A k \in 1 .. n : h[k] = Read(h[k - 1], ts[k])
    BY <1>4, <1>5
  <1> HIDE DEF h
  <1> QED BY <1>3, <1>6 DEF Ends, n

-----------------------------------------------------------------------------
(* What reading a token does to what is asked.                              *)

IsExample(x) == x = [interval |-> x.interval, on |-> x.on, value |-> x.value, sure |-> x.sure]
IsReading(r) ==
  /\ r = [cmd |-> r.cmd, val |-> r.val, waits |-> r.waits, asked |-> r.asked]
  /\ \A i \in Index : IsExample(r.asked[i])

\* The state enable and disable give a group.
Turned(cmd) == cmd = "enable"

LEMMA WishParts ==
  ASSUME NEW x, IsExample(x), NEW cmd, NEW v
  PROVE  /\ IsExample(Wish(x, cmd, v))
         /\ Wish(x, cmd, v).sure = x.sure
         /\ Wish(x, cmd, v).interval = IF cmd = "interval" THEN Number[v] ELSE x.interval
         /\ Wish(x, cmd, v).on = IF cmd \in {"disable", "enable"} THEN Turned(cmd) ELSE x.on
         /\ Wish(x, cmd, v).value = IF cmd = "set" THEN Number[v] ELSE x.value
  <1>1. CASE cmd = "disable"
    <2>1. Turned(cmd) = FALSE
      BY <1>1 DEF Turned
    <2>2. Wish(x, cmd, v) = [interval |-> x.interval, on |-> Turned(cmd), value |-> x.value, sure |-> x.sure]
      BY <1>1, <2>1 DEF Wish, IsExample
    <2> QED BY <1>1, <2>2 DEF IsExample
  <1>2. CASE cmd = "enable"
    <2>1. Turned(cmd) = TRUE
      BY <1>2 DEF Turned
    <2>2. Wish(x, cmd, v) = [interval |-> x.interval, on |-> Turned(cmd), value |-> x.value, sure |-> x.sure]
      BY <1>2, <2>1 DEF Wish, IsExample
    <2> QED BY <1>2, <2>2 DEF IsExample
  <1>3. CASE cmd = "interval"
    <2>1. Wish(x, cmd, v) = [interval |-> Number[v], on |-> x.on, value |-> x.value, sure |-> x.sure]
      BY <1>3 DEF Wish, IsExample
    <2> QED BY <1>3, <2>1 DEF IsExample
  <1>4. CASE cmd = "set"
    <2>1. Wish(x, cmd, v) = [interval |-> x.interval, on |-> x.on, value |-> Number[v], sure |-> x.sure]
      BY <1>4 DEF Wish, IsExample
    <2> QED BY <1>4, <2>1 DEF IsExample
  <1>5. CASE cmd \notin {"disable", "enable", "interval", "set"}
    <2>1. Wish(x, cmd, v) = x
      BY <1>5 DEF Wish
    <2> QED BY <1>5, <2>1
  <1> QED BY <1>1, <1>2, <1>3, <1>4, <1>5

\* A wish fulfilled twice is fulfilled once.
LEMMA WishAgain ==
  ASSUME NEW x, IsExample(x), NEW cmd, NEW v
  PROVE  Wish(Wish(x, cmd, v), cmd, v) = Wish(x, cmd, v)
  <1> DEFINE y == Wish(x, cmd, v)
             z == Wish(y, cmd, v)
  <1>1. IsExample(y)
    BY WishParts
  <1> HIDE DEF y
  <1>1a. IsExample(z)
    BY <1>1, WishParts
  <1>2. z.sure = y.sure /\ z.interval = y.interval /\ z.on = y.on /\ z.value = y.value
    <2>1. /\ z.sure = y.sure
          /\ z.interval = IF cmd = "interval" THEN Number[v] ELSE y.interval
          /\ z.on = IF cmd \in {"disable", "enable"} THEN Turned(cmd) ELSE y.on
          /\ z.value = IF cmd = "set" THEN Number[v] ELSE y.value
      BY <1>1, WishParts
    <2>2. /\ cmd = "interval" => y.interval = Number[v]
          /\ cmd \in {"disable", "enable"} => y.on = Turned(cmd)
          /\ cmd = "set" => y.value = Number[v]
      BY WishParts DEF y
    <2> QED BY <2>1, <2>2
  <1> HIDE DEF z
  <1>3. z = y
    BY <1>1, <1>1a, <1>2 DEF IsExample
  <1> QED BY <1>3 DEF y, z

\* What the command makes of an example.
Gets(x, C, i, cmd, v) == IF i \in C THEN Wish(x, cmd, v) ELSE x

LEMMA ToldParts ==
  ASSUME NEW x, IsExample(x), NEW i, NEW r, NEW t
  PROVE  LET y == Told(x, i, r, t)
             z == Gets(x, Chosen(r.cmd, t), i, r.cmd, r.val)
         IN  /\ IsExample(y) /\ y.sure = (x.sure /\ i \notin Misread(r.cmd, t))
             /\ y.interval = z.interval /\ y.on = z.on /\ y.value = z.value
  <1> DEFINE z == Gets(x, Chosen(r.cmd, t), i, r.cmd, r.val)
             b == x.sure /\ i \notin Misread(r.cmd, t)
  <1>1. IsExample(z) /\ z.sure = x.sure
    <2>1. CASE i \in Chosen(r.cmd, t)
      BY <2>1, WishParts DEF Gets
    <2>2. CASE i \notin Chosen(r.cmd, t)
      BY <2>2 DEF Gets
    <2> QED BY <2>1, <2>2
  <1>2. Told(x, i, r, t) = [z EXCEPT !.sure = @ /\ i \notin Misread(r.cmd, t)]
    BY DEF Told, Gets
  <1> HIDE DEF z
  <1>3. Told(x, i, r, t) = [interval |-> z.interval, on |-> z.on, value |-> z.value, sure |-> b]
    BY <1>1, <1>2 DEF IsExample
  <1> HIDE DEF b
  <1>4. IsExample(Told(x, i, r, t)) /\ Told(x, i, r, t).sure = b
        /\ Told(x, i, r, t).interval = z.interval /\ Told(x, i, r, t).on = z.on /\ Told(x, i, r, t).value = z.value
    BY <1>3 DEF IsExample
  <1> QED BY <1>4 DEF z, b

LEMMA SelectionParts ==
  ASSUME NEW r, IsReading(r), NEW t
  PROVE  LET r2 == ReadSelection(r, t)
         IN  /\ IsReading(r2)
             /\ r2.cmd = Behind(r.cmd, t) /\ r2.val = r.val /\ r2.waits = r.waits
             /\ \A i \in Index : r2.asked[i] = Told(r.asked[i], i, r, t)
  <1> DEFINE a == [i \in Index |-> Told(r.asked[i], i, r, t)]
  <1>1. ReadSelection(r, t) = [cmd |-> Behind(r.cmd, t), val |-> r.val, waits |-> r.waits, asked |-> a]
    <2>1. ReadSelection(r, t) = [r EXCEPT !.asked = a, !.cmd = Behind(@, t)]
      BY DEF ReadSelection
    <2> HIDE DEF a
    <2> QED BY <2>1 DEF IsReading
  <1>2. \A i \in Index : a[i] = Told(r.asked[i], i, r, t)
    OBVIOUS
  <1>3. \A i \in Index : IsExample(a[i])
    BY <1>2, ToldParts DEF IsReading
  <1> HIDE DEF a
  <1> QED BY <1>1, <1>2, <1>3 DEF IsReading

LEMMA NewAsked == \A i \in Index : IsExample([j \in Index |-> NewExample][i])
  BY DEF IsExample, NewExample

LEMMA OperandParts ==
  ASSUME NEW r, IsReading(r), NEW t
  PROVE  LET r2 == ReadOperand(r, t)
         IN  /\ IsReading(r2) /\ r2.waits = FALSE
             /\ r.cmd = "example" => r2.cmd = "none"
             /\ r.cmd # "example" => r2.cmd = r.cmd /\ r2.val = t
             /\ IF r.cmd = "example" /\ t = "on" THEN r2.asked = [i \in Index |-> NewExample] ELSE r2.asked = r.asked
  <1>1. CASE r.cmd = "example"
    <2> DEFINE a == IF t = "on" THEN [i \in Index |-> NewExample] ELSE r.asked
    <2>1. ReadOperand(r, t) = [cmd |-> "none", val |-> r.val, waits |-> FALSE, asked |-> a]
      BY <1>1 DEF ReadOperand, IsReading
    <2>2. \A i \in Index : IsExample(a[i])
      BY NewAsked DEF IsReading
    <2> QED BY <1>1, <2>1, <2>2 DEF IsReading
  <1>2. CASE r.cmd # "example"
    <2>1. ReadOperand(r, t) = [cmd |-> r.cmd, val |-> t, waits |-> FALSE, asked |-> r.asked]
      BY <1>2 DEF ReadOperand, IsReading
    <2> QED BY <1>2, <2>1 DEF IsReading
  <1> QED BY <1>1, <1>2

LEMMA CommandParts ==
  ASSUME NEW r, IsReading(r), ~ r.waits, NEW t \in CommandWords
  PROVE  LET r2 == Read(r, t)
         IN  /\ IsReading(r2) /\ r2.cmd = t /\ r2.asked = r.asked
             /\ r2.waits = (t \in {"interval", "set", "example"})
  <1>1. Read(r, t) = [cmd |-> t, val |-> r.val, waits |-> t \in {"interval", "set", "example"}, asked |-> r.asked]
    BY DEF Read, IsReading
  <1> QED BY <1>1 DEF IsReading

-----------------------------------------------------------------------------
(* What is asked holds on a server with groups w and variables v.           *)
Has(s, w, v, a) ==
  \A i \in Index : a[i].sure =>
    /\ s.group[w[i]].interval = a[i].interval /\ s.group[w[i]].on = a[i].on
    /\ i \in Valued => s.var[v[i]] = a[i].value

\* A command with value x has reached the examples C, and no other but of M.
Reached(s, t, w, v, cmd, x, C, M) ==
  \A i \in Index \ M :
    /\ t.group[w[i]].interval = IF i \in C /\ cmd = "interval" THEN Number[x] ELSE s.group[w[i]].interval
    /\ t.group[w[i]].on = IF i \in C /\ cmd \in {"disable", "enable"} THEN Turned(cmd) ELSE s.group[w[i]].on
    /\ i \in Valued => t.var[v[i]] = IF i \in C /\ cmd = "set" THEN Number[x] ELSE s.var[v[i]]

LEMMA ReachedHas ==
  ASSUME NEW s, NEW t, NEW w, NEW v, NEW cmd, NEW x, NEW C, NEW M, Reached(s, t, w, v, cmd, x, C, M),
         NEW a, NEW a2, Has(s, w, v, a), \A i \in Index : IsExample(a[i]),
         \A i \in Index : /\ a2[i].sure => a[i].sure /\ i \notin M
                          /\ a2[i].interval = Gets(a[i], C, i, cmd, x).interval
                          /\ a2[i].on = Gets(a[i], C, i, cmd, x).on
                          /\ a2[i].value = Gets(a[i], C, i, cmd, x).value
  PROVE  Has(t, w, v, a2)
  <1> SUFFICES ASSUME NEW i \in Index, a2[i].sure
               PROVE  /\ t.group[w[i]].interval = a2[i].interval /\ t.group[w[i]].on = a2[i].on
                      /\ i \in Valued => t.var[v[i]] = a2[i].value
    BY DEF Has
  <1>1. a[i].sure /\ i \in Index \ M
    OBVIOUS
  <1>2. /\ s.group[w[i]].interval = a[i].interval /\ s.group[w[i]].on = a[i].on
        /\ i \in Valued => s.var[v[i]] = a[i].value
    BY <1>1 DEF Has
  <1>3. /\ t.group[w[i]].interval = IF i \in C /\ cmd = "interval" THEN Number[x] ELSE s.group[w[i]].interval
        /\ t.group[w[i]].on = IF i \in C /\ cmd \in {"disable", "enable"} THEN Turned(cmd) ELSE s.group[w[i]].on
        /\ i \in Valued => t.var[v[i]] = IF i \in C /\ cmd = "set" THEN Number[x] ELSE s.var[v[i]]
    BY <1>1 DEF Reached
  <1>4. CASE i \in C
    <2>1. Gets(a[i], C, i, cmd, x) = Wish(a[i], cmd, x)
      BY <1>4 DEF Gets
    <2>2. /\ a2[i].interval = IF cmd = "interval" THEN Number[x] ELSE a[i].interval
          /\ a2[i].on = IF cmd \in {"disable", "enable"} THEN Turned(cmd) ELSE a[i].on
          /\ a2[i].value = IF cmd = "set" THEN Number[x] ELSE a[i].value
      BY <2>1, WishParts
    <2> QED BY <1>2, <1>3, <1>4, <2>2
  <1>5. CASE i \notin C
    <2>1. Gets(a[i], C, i, cmd, x) = a[i]
      BY <1>5 DEF Gets
    <2> QED BY <1>2, <1>3, <1>5, <2>1
  <1> QED BY <1>4, <1>5

-----------------------------------------------------------------------------
(* The commands reach the examples they name and no other: while the        *)
(* examples are on, each has a group and a variable of its own.             *)
OwnIds(s, w, v) ==
  /\ \A i \in Index : w[i] \in DOMAIN s.group /\ \A j \in Index : w[i] = w[j] => i = j
  /\ \A i \in Valued : v[i] \in DOMAIN s.var /\ \A j \in Valued : v[i] = v[j] => i = j

LEMMA SwitchReaches ==
  ASSUME NEW s, IsServer(s), NEW w, NEW v, OwnIds(s, w, v), NEW C, C \subseteq Index,
         NEW cmd \in {"disable", "enable"}, NEW x, NEW S, S = {w[i] : i \in C}, NEW t, t = WithState(s, S, Turned(cmd))
  PROVE  Reached(s, t, w, v, cmd, x, C, {})
  <1> DEFINE y == Turned(cmd)
             G == [g \in DOMAIN s.group |-> IF g \in S THEN Switched(s.group[g], y) ELSE s.group[g]]
  <1>1. t = Groups(s, G)
    BY DEF WithState, Groups, Switched
  <1>2. /\ \A g \in DOMAIN s.group \ S : G[g] = s.group[g]
        /\ \A g \in DOMAIN s.group \cap S : G[g] = Switched(s.group[g], y)
    OBVIOUS
  <1>3. ASSUME NEW i \in Index PROVE w[i] \in S <=> i \in C
    BY DEF OwnIds
  <1> HIDE DEF G
  <1>4. t.group = G /\ t.var = s.var
    BY <1>1, GroupsParts DEF IsServer
  <1>5. ASSUME NEW i \in Index
        PROVE  /\ G[w[i]].interval = s.group[w[i]].interval
               /\ G[w[i]].on = IF i \in C THEN y ELSE s.group[w[i]].on
    <2>1. w[i] \in DOMAIN s.group /\ IsGroup(s.group[w[i]])
      BY DEF OwnIds, IsServer
    <2> HIDE DEF y
    <2> QED BY <1>2, <1>3, <2>1, SwitchedParts
  <1>6. Reached(s, t, w, v, cmd, x, C, {})
    BY <1>4, <1>5 DEF Reached
  <1> QED BY <1>6

LEMMA IntervalReaches ==
  ASSUME NEW s, IsServer(s), NEW w, NEW v, OwnIds(s, w, v), NEW C, NEW D, D \subseteq Index, NEW M,
         \A i \in Index \ M : i \in C <=> i \in D, NEW x, NEW S, S = {w[i] : i \in D},
         NEW t, t = WithInterval(s, S, Number[x])
  PROVE  Reached(s, t, w, v, "interval", x, C, M)
  <1> DEFINE y == Number[x]
             G == [g \in DOMAIN s.group |-> IF g \in S THEN Paced(s.group[g], y) ELSE s.group[g]]
  <1>1. t = Groups(s, G)
    BY DEF WithInterval, Groups, Paced
  <1>2. /\ \A g \in DOMAIN s.group \ S : G[g] = s.group[g]
        /\ \A g \in DOMAIN s.group \cap S : G[g] = Paced(s.group[g], y)
    OBVIOUS
  <1>3. ASSUME NEW i \in Index PROVE w[i] \in S <=> i \in D
    BY DEF OwnIds
  <1> HIDE DEF G
  <1>4. t.group = G /\ t.var = s.var
    BY <1>1, GroupsParts DEF IsServer
  <1>5. ASSUME NEW i \in Index
        PROVE  /\ G[w[i]].on = s.group[w[i]].on
               /\ G[w[i]].interval = IF i \in D THEN y ELSE s.group[w[i]].interval
    <2>1. w[i] \in DOMAIN s.group /\ IsGroup(s.group[w[i]])
      BY DEF OwnIds, IsServer
    <2> HIDE DEF y
    <2> QED BY <1>2, <1>3, <2>1, PacedParts
  <1>6. Reached(s, t, w, v, "interval", x, C, M)
    BY <1>4, <1>5 DEF Reached
  <1> QED BY <1>6

LEMMA SetReaches ==
  ASSUME NEW s, IsServer(s), NEW w, NEW v, OwnIds(s, w, v), NEW C, C \subseteq Valued, NEW x, NEW V,
         V = [u \in DOMAIN s.var |-> IF u \in {v[i] : i \in C} THEN Number[x] ELSE s.var[u]]
  PROVE  Reached(s, Variables(s, V), w, v, "set", x, C, {})
  <1> DEFINE t == Variables(s, V)
  <1>1. t.group = s.group /\ t.var = V
    BY VariablesParts DEF IsServer
  <1>2. ASSUME NEW i \in Valued PROVE V[v[i]] = IF i \in C THEN Number[x] ELSE s.var[v[i]]
    BY DEF OwnIds
  <1> HIDE DEF t
  <1>3. Reached(s, t, w, v, "set", x, C, {})
    BY <1>1, <1>2 DEF Reached
  <1> QED BY <1>3 DEF t

LEMMA NameIs ==
  ASSUME NEW t \in DOMAIN Name
  PROVE  Selected(t) = {Name[t]} /\ Name[t] \in Index /\ t # "all" /\ t \notin CommandWords
  BY ExampleConstantsOK DEF Selected

LEMMA SelectedAll == Selected("all") = Index
  BY DEF Selected

\* The groups SetInterval sends the interval to, and the examples it is asked for.
LEMMA UpdatedIs ==
  ASSUME DOMAIN wg = Index, NEW t
  PROVE  \E D : /\ D \subseteq Index /\ Updated(t) = {wg[i] : i \in D}
                /\ \A i \in Index \ Misread("interval", t) : i \in Chosen("interval", t) <=> i \in D
  <1>0. Chosen("interval", t) = Selected(t)
    BY DEF Chosen, Takes
  <1>1. CASE t = "all"
    <2>1. Updated(t) = {wg[i] : i \in Index}
      BY <1>1 DEF Updated, Range
    <2> QED BY <1>0, <1>1, <2>1, SelectedAll
  <1>2. CASE t # "all"
    <2> DEFINE D == {IF i = "sbyte" THEN "byte" ELSE i : i \in Selected(t)}
    <2>1. D \subseteq Index
      BY SelectedInside, ExampleConstantsOK
    <2>2. Updated(t) = {wg[i] : i \in D}
      <3>1. Updated(t) = {wg[IF i = "sbyte" THEN "byte" ELSE i] : i \in Selected(t)}
        BY <1>2 DEF Updated
      <3> QED BY <3>1
    <2>3. \A i \in Index \ Misread("interval", t) : i \in Selected(t) <=> i \in D
      <3>1. CASE t \in DOMAIN Name
        <4>1. PICK n \in Index : Selected(t) = {n}
          BY <3>1, NameIs
        <4>2. CASE n = "sbyte"
          BY <4>1, <4>2 DEF Misread
        <4>3. CASE n # "sbyte"
          BY <4>1, <4>3
        <4> QED BY <4>2, <4>3
      <3>2. CASE t \notin DOMAIN Name
        <4>1. Selected(t) = {}
          BY <1>2, <3>2 DEF Selected
        <4> QED BY <4>1
      <3> QED BY <3>1, <3>2
    <2> HIDE DEF D
    <2> QED BY <1>0, <2>1, <2>2, <2>3
  <1> QED BY <1>1, <1>2

-----------------------------------------------------------------------------
(* What the loops of the source have read is something the rest of the line *)
(* may be read from.                                                        *)
Selecting == {"disable", "enable", "interval", "set"}

\* Further selections change nothing: all examples have it already.
Done(r) ==
  /\ r.cmd \in {"disable", "enable", "interval"}
  /\ \A i \in Index : Wish(r.asked[i], r.cmd, r.val) = r.asked[i]
Settled(r) == r.cmd \in {"none", "behind double"} \/ Done(r)

\* decode may skip t: what it asks for is there already, and so it stays.
Skippable(r, t) ==
  /\ Settled(ReadSelection(r, t))
  /\ \A i \in Chosen(r.cmd, t) : Wish(r.asked[i], r.cmd, r.val) = r.asked[i]

Stands(l, ts, x, r) ==
  /\ IsReading(r)
  /\ IF l = "decode"
     THEN ts = <<>> \/ (~ r.waits /\ (Settled(r) \/ Head(ts) \in CommandWords \/ Skippable(r, Head(ts))))
     ELSE ~ r.waits /\ r.cmd = l /\ (l \in {"interval", "set"} => r.val = x)

Follows(r, e) ==
  /\ Stands(loop, toks, val, r) /\ Ends(r, toks, e) /\ e.asked = asked
  /\ live => Has(srv, wg, varNode, r.asked)

Reading ==
  /\ toks \in Seq(Token) /\ loop \in {"idle", "decode"} \cup Selecting
  /\ loop = "idle" => toks = <<>> /\ (\A i \in Index : IsExample(asked[i])) /\ (live => Has(srv, wg, varNode, asked))
  /\ loop # "idle" => \E r, e : Follows(r, e)

OInv == IInv /\ (live => OwnIds(srv, wg, varNode)) /\ Reading

LEMMA ChosenIn == ASSUME NEW cmd, NEW t PROVE Chosen(cmd, t) \subseteq Index
  BY SelectedInside DEF Chosen

\* Wishes that are fulfilled change nothing but that an example is sure.
LEMMA SkipKeeps ==
  ASSUME NEW r, IsReading(r), NEW t, Skippable(r, t), NEW s, NEW w, NEW v, Has(s, w, v, r.asked)
  PROVE  Has(s, w, v, ReadSelection(r, t).asked)
  <1> DEFINE a == ReadSelection(r, t).asked
  <1>1. ASSUME NEW i \in Index
        PROVE  /\ a[i].sure => r.asked[i].sure
               /\ a[i].interval = r.asked[i].interval /\ a[i].on = r.asked[i].on /\ a[i].value = r.asked[i].value
    <2> DEFINE x == r.asked[i]
               y == a[i]
    <2>1. IsExample(x) /\ y = Told(x, i, r, t)
      BY SelectionParts DEF IsReading
    <2>2. Gets(x, Chosen(r.cmd, t), i, r.cmd, r.val) = x
      BY DEF Gets, Skippable
    <2> HIDE DEF x, y
    <2>3. y.sure = (x.sure /\ i \notin Misread(r.cmd, t)) /\ y.interval = x.interval /\ y.on = x.on /\ y.value = x.value
      BY <2>1, <2>2, ToldParts
    <2> QED BY <2>3 DEF x, y
  <1> HIDE DEF a
  <1>2. Has(s, w, v, a)
    BY <1>1 DEF Has
  <1> QED BY <1>2 DEF a

LEMMA SettledSkips ==
  ASSUME NEW r, IsReading(r), Settled(r), NEW t
  PROVE  Skippable(r, t)
  <1> DEFINE r2 == ReadSelection(r, t)
  <1>0. /\ IsReading(r2) /\ r2.cmd = Behind(r.cmd, t) /\ r2.val = r.val
        /\ \A i \in Index : r2.asked[i] = Told(r.asked[i], i, r, t)
    BY SelectionParts
  <1> HIDE DEF r2
  <1>1. CASE r.cmd \in {"none", "behind double"}
    <2>1. \A i \in Chosen(r.cmd, t) : Wish(r.asked[i], r.cmd, r.val) = r.asked[i]
      BY <1>1 DEF Wish
    <2>2. r2.cmd \in {"none", "behind double"}
      BY <1>0, <1>1 DEF Behind
    <2> QED BY <2>1, <2>2 DEF Skippable, Settled, r2
  <1>2. CASE Done(r)
    <2>1. \A i \in Chosen(r.cmd, t) : Wish(r.asked[i], r.cmd, r.val) = r.asked[i]
      BY <1>2, ChosenIn DEF Done
    <2>2. r2.cmd \in {"none", "behind double"} \/ r2.cmd = r.cmd
      BY <1>0 DEF Behind
    <2>3. ASSUME NEW i \in Index PROVE Wish(r2.asked[i], r.cmd, r.val) = r2.asked[i]
      <3> DEFINE x == r.asked[i]
                 y == r2.asked[i]
                 z == Wish(y, r.cmd, r.val)
      <3>1. IsExample(x) /\ IsExample(y) /\ y = Told(x, i, r, t)
        BY <1>0 DEF IsReading
      <3>2. Wish(x, r.cmd, r.val) = x
        BY <1>2 DEF Done
      <3>3. Gets(x, Chosen(r.cmd, t), i, r.cmd, r.val) = x
        BY <3>2 DEF Gets
      <3> HIDE DEF x, y
      <3>4. y.interval = x.interval /\ y.on = x.on /\ y.value = x.value
        BY <3>1, <3>3, ToldParts
      <3>5. /\ x.interval = IF r.cmd = "interval" THEN Number[r.val] ELSE x.interval
            /\ x.on = IF r.cmd \in {"disable", "enable"} THEN Turned(r.cmd) ELSE x.on
            /\ x.value = IF r.cmd = "set" THEN Number[r.val] ELSE x.value
        BY <3>1, <3>2, WishParts
      <3>6. /\ IsExample(z) /\ z.sure = y.sure
            /\ z.interval = IF r.cmd = "interval" THEN Number[r.val] ELSE y.interval
            /\ z.on = IF r.cmd \in {"disable", "enable"} THEN Turned(r.cmd) ELSE y.on
            /\ z.value = IF r.cmd = "set" THEN Number[r.val] ELSE y.value
        BY <3>1, WishParts
      <3> HIDE DEF z
      <3>7. z = y
        BY <3>1, <3>4, <3>5, <3>6 DEF IsExample
      <3> QED BY <3>7 DEF z, y
    <2>4. Settled(r2)
      BY <1>0, <1>2, <2>2, <2>3 DEF Settled, Done
    <2> QED BY <2>1, <2>4 DEF Skippable, r2
  <1> QED BY <1>1, <1>2 DEF Settled

LEMMA NotNil == ASSUME NEW u, Len(u) # 0 PROVE u # <<>>
  OBVIOUS

LEMMA FirstIs ==
  ASSUME NEW ts \in Seq(Token), ts # <<>>
  PROVE  /\ Len(ts) \in Nat /\ Len(ts) >= 1 /\ Head(ts) = ts[1]
         /\ Tail(ts) \in Seq(Token) /\ Len(Tail(ts)) = Len(ts) - 1
         /\ \A k \in 1 .. Len(ts) - 1 : Tail(ts)[k] = ts[k + 1]
  BY HeadTailProperties, EmptySeq, LenProperties

\* What is left behind one token, and behind two.
LEMMA OneBehind ==
  ASSUME NEW ts \in Seq(Token), ts # <<>>
  PROVE  Head(ts) \in Token /\ Tail(ts) \in Seq(Token) /\ (Len(ts) = 1 <=> Tail(ts) = <<>>)
  <1>1. Len(ts) \in Nat /\ Len(ts) >= 1 /\ Head(ts) \in Token /\ Tail(ts) \in Seq(Token) /\ Len(Tail(ts)) = Len(ts) - 1
    BY HeadTailProperties, EmptySeq, LenProperties
  <1>2. Len(Tail(ts)) = 0 <=> Tail(ts) = <<>>
    BY <1>1, EmptySeq
  <1> QED BY <1>1, <1>2

LEMMA TwoBehind ==
  ASSUME NEW ts \in Seq(Token), ts # <<>>
  PROVE  /\ Len(ts) = 1 => From(ts, 3) = <<>>
         /\ Len(ts) # 1 => Tail(ts) # <<>> /\ Head(Tail(ts)) = ts[2] /\ From(ts, 3) = Tail(Tail(ts))
         /\ Len(ts) # 1 => (Len(ts) < 3 <=> From(ts, 3) = <<>>)
         /\ From(ts, 3) \in Seq(Token)
  <1> DEFINE n == Len(ts)
  <1>1. /\ n \in Nat /\ n >= 1 /\ Tail(ts) \in Seq(Token) /\ Len(Tail(ts)) = n - 1
        /\ \A k \in 1 .. n - 1 : Tail(ts)[k] = ts[k + 1]
    BY HeadTailProperties, EmptySeq, LenProperties
  <1>2. From(ts, 3) = [k \in 1 .. (IF 3 <= n THEN n - 2 ELSE 0) |-> ts[k + 2]]
    BY <1>1 DEF From
  <1>3. CASE n < 3
    <2>1. From(ts, 3) = <<>>
      BY <1>1, <1>2, <1>3
    <2>2. ASSUME n # 1
          PROVE  Tail(ts) # <<>> /\ Head(Tail(ts)) = ts[2] /\ Tail(Tail(ts)) = <<>>
      <3>1. n = 2
        BY <1>1, <1>3, <2>2
      <3>2. Tail(ts) # <<>>
        <4>1. Len(Tail(ts)) # 0
          BY <1>1, <3>1
        <4> QED BY <4>1, NotNil
      <3> DEFINE u == Tail(ts)
      <3>3a. u \in Seq(Token) /\ u # <<>> /\ Len(u) = 1
        BY <1>1, <3>1, <3>2
      <3> HIDE DEF u
      <3>3b. Head(u) = u[1] /\ Tail(u) \in Seq(Token) /\ Len(Tail(u)) = 0
        BY <3>3a, FirstIs
      <3>3. Head(Tail(ts)) = Tail(ts)[1] /\ Tail(Tail(ts)) \in Seq(Token) /\ Len(Tail(Tail(ts))) = 0
        BY <3>3b DEF u
      <3>4. Tail(Tail(ts)) = <<>>
        BY <3>3, EmptySeq
      <3> QED BY <1>1, <3>1, <3>2, <3>3, <3>4
    <2>3. <<>> \in Seq(Token)
      BY EmptySeq
    <2> QED BY <1>3, <2>1, <2>2, <2>3
  <1>4. CASE n >= 3
    <2>1. Tail(ts) # <<>>
      BY <1>1, <1>4, EmptySeq
    <2>2. /\ Head(Tail(ts)) = Tail(ts)[1] /\ Tail(Tail(ts)) \in Seq(Token) /\ Len(Tail(Tail(ts))) = n - 2
          /\ \A k \in 1 .. n - 2 : Tail(Tail(ts))[k] = Tail(ts)[k + 1]
      <3> DEFINE u == Tail(ts)
      <3>1. u \in Seq(Token) /\ u # <<>> /\ Len(u) = n - 1 /\ (n - 1) - 1 = n - 2
        BY <1>1, <2>1
      <3> HIDE DEF u
      <3>2. Head(u) = u[1] /\ Tail(u) \in Seq(Token) /\ Len(Tail(u)) = n - 2 /\ \A k \in 1 .. n - 2 : Tail(u)[k] = u[k + 1]
        BY <3>1, FirstIs
      <3> QED BY <3>2 DEF u
    <2>3. \A k \in 1 .. n - 2 : Tail(Tail(ts))[k] = ts[k + 2]
      <3>1. ASSUME NEW k \in 1 .. n - 2 PROVE Tail(Tail(ts))[k] = ts[k + 2]
        <4>1. k + 1 \in 1 .. n - 1 /\ (k + 1) + 1 = k + 2
          BY <1>1
        <4> QED BY <1>1, <2>2, <4>1
      <3> QED BY <3>1
    <2>4. Tail(Tail(ts)) = [k \in 1 .. n - 2 |-> Tail(Tail(ts))[k]]
      BY <1>1, <2>2, LenProperties
    <2>5. Tail(Tail(ts)) = From(ts, 3)
      BY <1>1, <1>2, <1>4, <2>3, <2>4
    <2>6. From(ts, 3) # <<>>
      BY <1>1, <1>4, <2>2, <2>5, EmptySeq
    <2>7. Head(Tail(ts)) = ts[2]
      <3>1. 1 \in 1 .. n - 1 /\ 1 + 1 = 2
        BY <1>1, <1>4
      <3>2. Tail(ts)[1] = ts[1 + 1]
        BY <1>1, <3>1
      <3> QED BY <2>2, <3>1, <3>2
    <2>8. From(ts, 3) \in Seq(Token)
      BY <2>2, <2>5
    <2>9. ~ (n < 3) /\ n # 1
      BY <1>1, <1>4
    <2> QED BY <2>1, <2>5, <2>6, <2>7, <2>8, <2>9
  <1> QED BY <1>1, <1>3, <1>4

-----------------------------------------------------------------------------
(* The actions once more, for what is asked.                                *)

LEMMA IdsThere ==
  ASSUME IInv, live, \A i \in Index : \A j \in Index : wg[i] = wg[j] => i = j,
         \A i \in Valued : varNode[i] \in DOMAIN srv.var /\ \A j \in Valued : varNode[i] = varNode[j] => i = j
  PROVE  OwnIds(srv, wg, varNode)
  BY DEF OwnIds, IInv, ExamplesThere

\* The server is the same to the examples.
Alike(s, t, w) == (\A i \in Index : w[i] \in DOMAIN t.group /\ t.group[w[i]] = s.group[w[i]]) /\ t.var = s.var

LEMMA AlikeKeeps ==
  ASSUME NEW s, NEW t, NEW w, NEW v, Alike(s, t, w)
  PROVE  /\ OwnIds(s, w, v) => OwnIds(t, w, v)
         /\ \A a : Has(s, w, v, a) => Has(t, w, v, a)
  BY DEF Alike, OwnIds, Has

LEMMA AddVar ==
  ASSUME NEW s, IsServer(s), NEW c, NEW p, NEW G, NEW n, NEW who
  PROVE  /\ AddConnection(s, c, p, G, n, who).var = s.var
         /\ \A g \in G : AddConnection(s, c, p, G, n, who).group[g] = Group(c, n, who)
         /\ IsTables(AddConnection(s, c, p, G, n, who))
  <1> DEFINE e == Group(c, n, who)
             b == Conn(p, who)
             t == AddConnection(s, c, p, G, n, who)
  <1>1. t = Both(s, Put(s.conn, {c}, b), Put(s.group, G, e))
    BY DEF AddConnection, Both, Conn, Group
  <1> HIDE DEF e, b, t
  <1>2. t.var = s.var /\ t.group = Put(s.group, G, e) /\ IsTables(t)
    BY <1>1, BothParts DEF IsServer
  <1>3. \A g \in G : t.group[g] = e
    BY <1>2, PutParts
  <1> QED BY <1>2, <1>3 DEF t, e

LEMMA RemoveVar ==
  ASSUME NEW s, IsServer(s), NEW c
  PROVE  RemoveConnection(s, c).var = s.var
  <1> DEFINE C == Restrict(s.conn, DOMAIN s.conn \ {c})
             G == Restrict(s.group, {g \in DOMAIN s.group : s.group[g].conn # c})
  <1>1. RemoveConnection(s, c) = Both(s, C, G)
    BY DEF RemoveConnection, Both
  <1> HIDE DEF C, G
  <1> QED BY <1>1, BothParts DEF IsServer

\* At the end of a line nothing is left to read.
LEMMA IdleKeeps ==
  ASSUME OInv, loop = "idle", IInv', UNCHANGED <<toks, loop, asked, wg, varNode>>,
         live' => live /\ Alike(srv, srv', wg)
  PROVE  OInv'
  <1>1. live' => OwnIds(srv', wg, varNode) /\ Has(srv', wg, varNode, asked)
    BY AlikeKeeps DEF OInv, Reading
  <1>2. Reading'
    BY <1>1 DEF OInv, Reading
  <1> QED BY <1>1, <1>2 DEF OInv

LEMMA RestartObeys == ASSUME OInv, NEW l, Restart(l) PROVE OInv'
  <1>1. IInv'
    BY RestartKeeps DEF OInv
  <1>2. loop = "idle" /\ UNCHANGED <<toks, loop, asked, wg, varNode>> /\ ~ live'
    BY DEF Restart, statics
  <1> QED BY <1>1, <1>2, IdleKeeps

LEMMA AddTreeObeys == ASSUME OInv, NEW p, AddTree(p) PROVE OInv'
  <1>1. IInv'
    BY AddTreeKeeps DEF OInv
  <1>2. loop = "idle" /\ UNCHANGED <<toks, loop, asked, wg, varNode, live>>
    BY DEF AddTree, statics
  <1>3. PICK c \in Fresh(DOMAIN srv.conn), g \in Fresh(DOMAIN srv.group) :
          srv' = AddConnection(srv, c, p, {g}, 100, "tree")
    BY DEF AddTree
  <1>4. IInv /\ IsServer(srv)
    BY DEF OInv, IInv
  <1>5. PICK G : Added(srv, srv', c, G, "tree")
    BY <1>3, <1>4, OneAdded
  <1>6. srv'.var = srv.var
    BY <1>3, <1>4, AddVar
  <1>7. live => Alike(srv, srv', wg)
    BY <1>4, <1>5, <1>6 DEF Alike, Added, IInv, ExamplesThere
  <1> QED BY <1>1, <1>2, <1>7, IdleKeeps

LEMMA RemoveTreeObeys == ASSUME OInv, RemoveTree PROVE OInv'
  <1> DEFINE t == RemoveConnection(srv, tree.conn)
  <1>1. IInv'
    BY RemoveTreeKeeps DEF OInv
  <1>2. loop = "idle" /\ UNCHANGED <<toks, loop, asked, wg, varNode>>
    BY DEF RemoveTree, statics
  <1>3. live' => live /\ tree.conn # connId /\ tree.group \notin Range(wg)
    BY DEF RemoveTree
  <1>4. IInv /\ IsServer(srv) /\ srv' = RemoveGroup(t, tree.group)
    BY DEF OInv, IInv, RemoveTree
  <1>5. Removed(srv, t, tree.conn) /\ t.var = srv.var
    BY <1>4, RemoveIsRemoved, RemoveVar
  <1> HIDE DEF t
  <1>6. Dropped(t, srv', tree.group)
    BY <1>4, <1>5, RemoveIsDropped DEF Removed
  <1>7. live' => \A k \in Index : wg[k] # tree.group
    BY <1>3, <1>4 DEF IInv, ExamplesThere, Range
  <1>8. live' => Alike(srv, srv', wg)
    BY <1>3, <1>4, <1>5, <1>6, <1>7 DEF Alike, Removed, Dropped, IInv, ExamplesThere
  <1> QED BY <1>1, <1>2, <1>3, <1>8, IdleKeeps

LEMMA EnterLineObeys == ASSUME OInv, NEW l \in Lines, EnterLine(l) PROVE OInv'
  <1>1. IInv' /\ UNCHANGED <<connId, wg, varNode, srv, live>>
    <2>1. UNCHANGED <<connId, wg, varNode, srv, live>>
      BY DEF EnterLine, statics
    <2> QED BY <2>1, QuietKeeps DEF OInv
  <1>2. loop = "idle" /\ loop' = "decode" /\ toks' = l /\ asked' = FoldLeft(Read, Unread, l).asked
    BY DEF EnterLine, Continue, AskedBy
  <1>2a. PICK r : r = Unread
    OBVIOUS
  <1>2b. PICK e : e = FoldLeft(Read, r, l)
    OBVIOUS
  <1>3. l \in Seq(Token)
    BY ExampleConstantsOK DEF Token
  <1>4. Ends(r, l, e)
    BY <1>2b, <1>3, EndsFold
  <1>5. IsReading(r) /\ r.cmd = "none" /\ ~ r.waits /\ r.asked = asked
    BY <1>2, <1>2a DEF Unread, IsReading, OInv, Reading
  <1>6. Stands("decode", l, val', r)
    BY <1>5 DEF Stands, Settled
  <1>7. live => Has(srv, wg, varNode, r.asked)
    BY <1>2, <1>5 DEF OInv, Reading
  <1>8. Follows(r, e)'
    BY <1>1, <1>2, <1>2a, <1>2b, <1>4, <1>6, <1>7 DEF Follows
  <1>9. Reading'
    BY <1>2, <1>3, <1>8 DEF Reading
  <1> QED BY <1>1, <1>9 DEF OInv

\* A step after which something is still to be read, or nothing.
LEMMA ReadsFurther ==
  ASSUME IInv', live' => OwnIds(srv', wg', varNode'), toks' \in Seq(Token), loop' \in {"decode"} \cup Selecting,
         NEW r, NEW e, Stands(loop', toks', val', r), Ends(r, toks', e), e.asked = asked',
         live' => Has(srv', wg', varNode', r.asked)
  PROVE  OInv'
  <1>1. Follows(r, e)'
    BY DEF Follows
  <1>2. Reading'
    BY <1>1 DEF Reading, Selecting
  <1> QED BY <1>2 DEF OInv

\* Steps that leave the examples alone.
Quiet == UNCHANGED <<connId, wg, varNode, srv, live, asked>>

LEMMA QuietIds ==
  ASSUME OInv, Quiet
  PROVE  /\ IInv' /\ (live' => OwnIds(srv', wg', varNode'))
         /\ \A a : (live => Has(srv, wg, varNode, a)) => (live' => Has(srv', wg', varNode', a))
  <1>1. IInv'
    BY QuietKeeps DEF OInv, Quiet
  <1> QED BY <1>1 DEF OInv, Quiet

LEMMA LineDoneObeys == ASSUME OInv, LineDone PROVE OInv'
  <1>1. loop = "decode" /\ toks = <<>> /\ loop' = "idle" /\ toks' = <<>> /\ Quiet
    BY DEF LineDone, At, Continue, statics, Quiet
  <1>2. PICK r, e : Follows(r, e)
    BY <1>1 DEF OInv, Reading
  <1>3. r = e
    BY <1>1, <1>2, EndsNil DEF Follows
  <1>4. \A i \in Index : IsExample(asked[i])
    BY <1>2, <1>3 DEF Follows, Stands, IsReading
  <1>5. live' => Has(srv', wg', varNode', asked)
    BY <1>1, <1>2, <1>3, QuietIds DEF Follows
  <1>6. toks' \in Seq(Token) /\ asked' = asked
    BY <1>1, EmptySeq DEF Quiet
  <1>7. Reading'
    BY <1>1, <1>4, <1>5, <1>6 DEF Reading
  <1> QED BY <1>1, <1>7, QuietIds DEF OInv

LEMMA InvalidObeys == ASSUME OInv, Invalid PROVE OInv'
  <1>1. loop = "decode" /\ toks # <<>> /\ Head(toks) \notin CommandWords /\ loop' = "decode" /\ toks' = Tail(toks) /\ Quiet
    BY DEF Invalid, At, Continue, statics, Quiet
  <1>2. PICK r, e : Follows(r, e)
    BY <1>1 DEF OInv, Reading
  <1>3. IsReading(r) /\ ~ r.waits /\ (Settled(r) \/ Skippable(r, Head(toks)))
    BY <1>1, <1>2 DEF Follows, Stands
  <1>4. Skippable(r, Head(toks))
    BY <1>3, SettledSkips
  <1>5. PICK r2 : r2 = ReadSelection(r, Head(toks))
    OBVIOUS
  <1>6. Read(r, Head(toks)) = r2
    BY <1>1, <1>3, <1>5 DEF Read
  <1>7. toks \in Seq(Token) /\ toks' \in Seq(Token)
    BY <1>1, OneBehind DEF OInv, Reading
  <1>8. Ends(r2, toks', e)
    BY <1>1, <1>2, <1>6, <1>7, EndsHead DEF Follows
  <1>9. Stands("decode", toks', val', r2)
    <2>1. IsReading(r2) /\ r2.waits = r.waits
      BY <1>3, <1>5, SelectionParts
    <2>2. Settled(r2)
      BY <1>4, <1>5 DEF Skippable
    <2> QED BY <1>3, <2>1, <2>2 DEF Stands
  <1>10. live' => Has(srv', wg', varNode', r2.asked)
    <2>1. live => Has(srv, wg, varNode, r2.asked)
      BY <1>2, <1>3, <1>4, <1>5, SkipKeeps DEF Follows
    <2> QED BY <1>1, <2>1, QuietIds
  <1>11. e.asked = asked' /\ IInv' /\ (live' => OwnIds(srv', wg', varNode'))
    BY <1>1, <1>2, QuietIds DEF Follows, Quiet
  <1> QED BY <1>1, <1>7, <1>8, <1>9, <1>10, <1>11, ReadsFurther

LEMMA NoMoreObeys == ASSUME OInv, NoMoreSelections PROVE OInv'
  <1>1. loop # "idle" /\ toks = <<>> /\ loop' = "decode" /\ toks' = <<>> /\ Quiet
    BY DEF NoMoreSelections, Continue, statics, Quiet, CommandWords
  <1>2. PICK r, e : Follows(r, e)
    BY <1>1 DEF OInv, Reading
  <1>3. Stands("decode", toks', val', r)
    BY <1>1, <1>2 DEF Follows, Stands
  <1>4. Ends(r, toks', e) /\ e.asked = asked' /\ toks' \in Seq(Token)
    BY <1>1, <1>2, EmptySeq DEF Follows, Quiet
  <1>5. live' => Has(srv', wg', varNode', r.asked)
    BY <1>1, <1>2, QuietIds DEF Follows
  <1> QED BY <1>1, <1>3, <1>4, <1>5, QuietIds, ReadsFurther

\* decode reads a command.
LEMMA CommandRead ==
  ASSUME OInv, NEW word \in CommandWords, Command(word)
  PROVE  \E r, e : /\ IsReading(r) /\ r.cmd = word /\ r.waits = (word \in {"interval", "set", "example"})
                   /\ Ends(r, Tail(toks), e) /\ e.asked = asked
                   /\ live => Has(srv, wg, varNode, r.asked)
  <1>1. loop = "decode" /\ toks # <<>> /\ Head(toks) = word /\ toks \in Seq(Token)
    BY DEF Command, At, OInv, Reading
  <1>2. PICK r0, e : Follows(r0, e)
    BY <1>1 DEF OInv, Reading
  <1>3. IsReading(r0) /\ ~ r0.waits
    BY <1>1, <1>2 DEF Follows, Stands
  <1>4. PICK r : r = Read(r0, word)
    OBVIOUS
  <1>5. IsReading(r) /\ r.cmd = word /\ r.asked = r0.asked /\ r.waits = (word \in {"interval", "set", "example"})
    BY <1>3, <1>4, CommandParts
  <1>6. Ends(r, Tail(toks), e)
    BY <1>1, <1>2, <1>4, EndsHead DEF Follows
  <1> QED BY <1>2, <1>5, <1>6 DEF Follows

LEMMA PlainObeys == ASSUME OInv, NEW word, Plain(word) PROVE OInv'
  <1>1. /\ Command(word) /\ word \in {"disable", "enable"} /\ Quiet
        /\ toks' = Tail(toks) /\ loop' = IF Len(toks) = 1 THEN "decode" ELSE word
    BY DEF Plain, Continue, statics, Quiet
  <1>2. toks # <<>> /\ toks \in Seq(Token)
    BY <1>1 DEF Command, OInv, Reading
  <1>3. toks' \in Seq(Token) /\ (Len(toks) = 1 => toks' = <<>>)
    BY <1>1, <1>2, OneBehind
  <1>4. PICK r, e : /\ IsReading(r) /\ r.cmd = word /\ r.waits = (word \in {"interval", "set", "example"})
                    /\ Ends(r, Tail(toks), e) /\ e.asked = asked
                    /\ live => Has(srv, wg, varNode, r.asked)
    BY <1>1, CommandRead DEF CommandWords
  <1>5. ~ r.waits
    BY <1>1, <1>4
  <1>6. Stands(loop', toks', val', r)
    BY <1>1, <1>3, <1>4, <1>5 DEF Stands
  <1>7. Ends(r, toks', e) /\ e.asked = asked'
    BY <1>1, <1>4 DEF Quiet
  <1>8. live' => Has(srv', wg', varNode', r.asked)
    BY <1>1, <1>4, QuietIds
  <1>9. loop' \in {"decode"} \cup Selecting
    BY <1>1 DEF Selecting
  <1> QED BY <1>1, <1>3, <1>6, <1>7, <1>8, <1>9, QuietIds, ReadsFurther

\* The token behind a command that waits for one.
LEMMA OperandRead ==
  ASSUME NEW r, IsReading(r), r.waits, NEW e, toks \in Seq(Token), toks # <<>>, Len(toks) # 1, Ends(r, Tail(toks), e)
  PROVE  /\ IsReading(ReadOperand(r, toks[2])) /\ Ends(ReadOperand(r, toks[2]), From(toks, 3), e)
  <1>1. Tail(toks) \in Seq(Token) /\ Tail(toks) # <<>> /\ Head(Tail(toks)) = toks[2] /\ From(toks, 3) = Tail(Tail(toks))
    BY OneBehind, TwoBehind
  <1>2. Read(r, toks[2]) = ReadOperand(r, toks[2])
    BY DEF Read
  <1>3. Ends(Read(r, Head(Tail(toks))), Tail(Tail(toks)), e)
    BY <1>1, EndsHead
  <1> QED BY <1>1, <1>2, <1>3, OperandParts

LEMMA WithValueObeys == ASSUME OInv, NEW word, WithValue(word) PROVE OInv'
  <1>1. /\ Command(word) /\ word \in {"interval", "set"} /\ Quiet
        /\ Len(toks) < 3 => loop' = "decode" /\ toks' = <<>>
        /\ ~ (Len(toks) < 3) => loop' = word /\ toks' = From(toks, 3) /\ val' = toks[2]
    BY DEF WithValue, Continue, statics, Quiet
  <1>2. toks # <<>> /\ toks \in Seq(Token) /\ Len(toks) \in Nat
    BY <1>1, LenProperties DEF Command, OInv, Reading
  <1>3. toks' \in Seq(Token) /\ (Len(toks) # 1 => toks' = From(toks, 3)) /\ (Len(toks) = 1 => toks' = Tail(toks))
    BY <1>1, <1>2, OneBehind, TwoBehind, EmptySeq
  <1>4. PICK r, e : /\ IsReading(r) /\ r.cmd = word /\ r.waits = (word \in {"interval", "set", "example"})
                    /\ Ends(r, Tail(toks), e) /\ e.asked = asked
                    /\ live => Has(srv, wg, varNode, r.asked)
    BY <1>1, CommandRead DEF CommandWords
  <1>5. loop' \in {"decode"} \cup Selecting /\ e.asked = asked'
    BY <1>1, <1>4 DEF Selecting, Quiet
  <1>6. CASE Len(toks) = 1
    <2>1. Stands(loop', toks', val', r)
      BY <1>1, <1>4, <1>6 DEF Stands
    <2>2. Ends(r, toks', e)
      BY <1>3, <1>4, <1>6
    <2>3. live' => Has(srv', wg', varNode', r.asked)
      BY <1>1, <1>4, QuietIds
    <2> QED BY <1>1, <1>3, <1>5, <2>1, <2>2, <2>3, QuietIds, ReadsFurther
  <1>7. CASE Len(toks) # 1
    <2>1. PICK r2 : r2 = ReadOperand(r, toks[2])
      OBVIOUS
    <2>2. IsReading(r2) /\ Ends(r2, toks', e)
      BY <1>1, <1>2, <1>3, <1>4, <1>7, <2>1, OperandRead
    <2>3. r2.waits = FALSE /\ r2.cmd = word /\ r2.val = toks[2] /\ r2.asked = r.asked
      <3>1. PICK t : t = toks[2]
        OBVIOUS
      <3>2. IsReading(r) /\ r.cmd # "example" /\ r2 = ReadOperand(r, t)
        BY <1>1, <1>4, <2>1, <3>1
      <3>3. r2.waits = FALSE /\ r2.cmd = r.cmd /\ r2.val = t /\ r2.asked = r.asked
        BY <3>2, OperandParts
      <3> QED BY <1>4, <3>1, <3>3
    <2>4. Stands(loop', toks', val', r2)
      BY <1>1, <2>2, <2>3 DEF Stands
    <2>5. live' => Has(srv', wg', varNode', r2.asked)
      BY <1>1, <1>4, <2>3, QuietIds
    <2> QED BY <1>1, <1>3, <1>5, <2>2, <2>4, <2>5, QuietIds, ReadsFurther
  <1> QED BY <1>6, <1>7

\* Examples switched on are new, and everything asked before is forgotten.
LEMMA OnHas ==
  ASSUME OInv, GetOldExample, NEW a, a = [i \in Index |-> NewExample]
  PROVE  IInv' /\ live' /\ OwnIds(srv', wg', varNode') /\ Has(srv', wg', varNode', a)
  <1>1. IInv' /\ live'
    BY OnKeeps DEF OInv, GetOldExample
  <1>2. PICK c \in Fresh(DOMAIN srv.conn), f \in FreshFor(Index, DOMAIN srv.group),
             v \in FreshFor(Valued, DOMAIN srv.var) :
          /\ wg' = f /\ varNode' = v
          /\ srv' = [AddConnection(srv, c, 4840, Range(f), 1000, "example") EXCEPT !.var = Put(@, Range(v), 0)]
    BY DEF GetOldExample
  <1>3. /\ f \in Injection(Index, NodeId \ DOMAIN srv.group)
        /\ v \in Injection(Valued, NodeId \ DOMAIN srv.var)
    BY ExampleConstantsOK DEF FreshFor, Valued
  <1>4. /\ DOMAIN f = Index /\ \A i \in Index : f[i] \in Range(f) /\ \A j \in Index : f[i] = f[j] => i = j
        /\ DOMAIN v = Valued /\ \A i \in Valued : v[i] \in Range(v) /\ \A j \in Valued : v[i] = v[j] => i = j
    BY <1>3 DEF Injection, IsInjective, Range
  <1> DEFINE t == AddConnection(srv, c, 4840, Range(f), 1000, "example")
             V == Put(t.var, Range(v), 0)
  <1>5. \A g \in Range(f) : t.group[g] = Group(c, 1000, "example")
    BY AddVar DEF OInv, IInv
  <1>6. IsTables(t)
    BY AddVar DEF OInv, IInv
  <1>7. srv' = Variables(t, V)
    BY <1>2 DEF Variables
  <1>8. \A i \in Valued : v[i] \in DOMAIN V /\ V[v[i]] = 0
    BY <1>4, PutParts
  <1> HIDE DEF t, V
  <1>9. srv'.group = t.group /\ srv'.var = V
    BY <1>6, <1>7, VariablesParts
  <1>10. OwnIds(srv', wg', varNode')
    <2>1. \A i \in Index : wg'[i] \in DOMAIN srv'.group
      BY <1>1 DEF IInv, ExamplesThere
    <2> QED BY <1>2, <1>4, <1>8, <1>9, <2>1 DEF OwnIds
  <1>11. \A i \in Index : srv'.group[f[i]] = Group(c, 1000, "example")
    BY <1>4, <1>5, <1>9
  <1>12. Has(srv', wg', varNode', a)
    <2>1. ASSUME NEW i \in Index
          PROVE  /\ srv'.group[wg'[i]].interval = a[i].interval /\ srv'.group[wg'[i]].on = a[i].on
                 /\ i \in Valued => srv'.var[varNode'[i]] = a[i].value
      <3>1. a[i] = NewExample
        OBVIOUS
      <3>2. srv'.group[wg'[i]] = Group(c, 1000, "example")
        BY <1>2, <1>11
      <3>3. i \in Valued => srv'.var[varNode'[i]] = 0
        BY <1>2, <1>8, <1>9
      <3>4. /\ Group(c, 1000, "example").interval = NewExample.interval /\ Group(c, 1000, "example").on = NewExample.on
            /\ NewExample.value = 0
        BY DEF NewExample, Group
      <3> QED BY <3>1, <3>2, <3>3, <3>4
    <2> QED BY <2>1 DEF Has
  <1> QED BY <1>1, <1>10, <1>12

LEMMA ExampleObeys == ASSUME OInv, Example PROVE OInv'
  <1> DEFINE what == IF Len(toks) = 1 THEN "none" ELSE toks[2]
  <1>1. /\ Command("example") /\ loop' = "decode" /\ toks' = From(toks, 3) /\ asked' = asked
        /\ what = "on" => GetOldExample
        /\ what = "off" => ExampleOff
        /\ what = "hello" => PublishHelloWorld
        /\ what \notin {"on", "off", "hello"} => UNCHANGED <<statics, srv, port, live>>
    BY DEF Example, Continue
  <1>2. IInv'
    BY ExampleKeeps DEF OInv
  <1>3. toks # <<>> /\ toks \in Seq(Token)
    BY <1>1 DEF Command, OInv, Reading
  <1>4. toks' \in Seq(Token)
    BY <1>1, <1>3, TwoBehind
  <1>5. PICK r, e : /\ IsReading(r) /\ r.cmd = "example" /\ r.waits = ("example" \in {"interval", "set", "example"})
                    /\ Ends(r, Tail(toks), e) /\ e.asked = asked
                    /\ live => Has(srv, wg, varNode, r.asked)
    BY <1>1, CommandRead DEF CommandWords
  <1>6. what # "on" => /\ live' => OwnIds(srv', wg', varNode')
                       /\ live' => Has(srv', wg', varNode', r.asked)
    <2>1. CASE what \in {"off", "hello"}
      BY <1>1, <2>1 DEF ExampleOff, PublishHelloWorld
    <2>2. CASE what \notin {"on", "off", "hello"}
      BY <1>1, <1>5, <2>2, QuietIds DEF Quiet, statics
    <2> QED BY <2>1, <2>2
  <1>7. CASE Len(toks) = 1
    <2>1. what # "on" /\ toks' = <<>> /\ Tail(toks) = <<>>
      BY <1>1, <1>3, <1>7, OneBehind, TwoBehind
    <2>2. Stands(loop', toks', val', r)
      BY <1>1, <1>5, <2>1 DEF Stands
    <2>3. Ends(r, toks', e) /\ e.asked = asked'
      BY <1>1, <1>5, <2>1
    <2> QED BY <1>1, <1>2, <1>4, <1>6, <2>1, <2>2, <2>3, ReadsFurther
  <1>8. CASE Len(toks) # 1
    <2>1. what = toks[2]
      BY <1>8
    <2> HIDE DEF what
    <2>2. PICK r2 : r2 = ReadOperand(r, what)
      OBVIOUS
    <2>3. IsReading(r2) /\ Ends(r2, toks', e)
      BY <1>1, <1>3, <1>5, <1>8, <2>1, <2>2, OperandRead
    <2>4. /\ r2.waits = FALSE /\ r2.cmd = "none"
          /\ IF what = "on" THEN r2.asked = [i \in Index |-> NewExample] ELSE r2.asked = r.asked
      BY <1>5, <2>2, OperandParts
    <2>5. Stands(loop', toks', val', r2)
      BY <1>1, <2>3, <2>4 DEF Stands, Settled
    <2>6. (live' => OwnIds(srv', wg', varNode')) /\ (live' => Has(srv', wg', varNode', r2.asked))
      <3>1. CASE what = "on"
        BY <1>1, <2>4, <3>1, OnHas
      <3>2. CASE what # "on"
        BY <1>6, <2>4, <3>2
      <3> QED BY <3>1, <3>2
    <2> QED BY <1>1, <1>2, <1>4, <1>5, <2>3, <2>5, <2>6, ReadsFurther
  <1> QED BY <1>7, <1>8

-----------------------------------------------------------------------------
(* The turns of the four commands.                                          *)
Wished(r, t) == [r EXCEPT !.asked = [i \in Index |-> Gets(@[i], Chosen(r.cmd, t), i, r.cmd, r.val)]]

LEMMA WishedParts ==
  ASSUME NEW r, IsReading(r), NEW t
  PROVE  LET r2 == Wished(r, t)
         IN  /\ IsReading(r2) /\ r2.cmd = r.cmd /\ r2.val = r.val /\ r2.waits = r.waits
             /\ \A i \in Index : r2.asked[i] = Gets(r.asked[i], Chosen(r.cmd, t), i, r.cmd, r.val)
  <1> DEFINE a == [i \in Index |-> Gets(r.asked[i], Chosen(r.cmd, t), i, r.cmd, r.val)]
  <1>1. Wished(r, t) = [cmd |-> r.cmd, val |-> r.val, waits |-> r.waits, asked |-> a]
    BY DEF Wished, IsReading
  <1>2. \A i \in Index : IsExample(a[i])
    BY WishParts DEF IsReading, Gets
  <1> QED BY <1>1, <1>2 DEF IsReading

\* What is fulfilled already reads alike.
LEMMA WishedReads ==
  ASSUME NEW r, IsReading(r), NEW t
  PROVE  ReadSelection(Wished(r, t), t) = ReadSelection(r, t)
  <1>1. PICK r2 : r2 = Wished(r, t)
    OBVIOUS
  <1>2. /\ IsReading(r2) /\ r2.cmd = r.cmd /\ r2.val = r.val /\ r2.waits = r.waits
        /\ \A i \in Index : r2.asked[i] = Gets(r.asked[i], Chosen(r.cmd, t), i, r.cmd, r.val)
    BY <1>1, WishedParts
  <1>3. ASSUME NEW i \in Index PROVE Told(r2.asked[i], i, r2, t) = Told(r.asked[i], i, r, t)
    <2>1. IsExample(r.asked[i])
      BY DEF IsReading
    <2>2. CASE i \in Chosen(r.cmd, t)
      <3>1. r2.asked[i] = Wish(r.asked[i], r.cmd, r.val)
        BY <1>2, <2>2 DEF Gets
      <3>2. Wish(r2.asked[i], r2.cmd, r2.val) = Wish(r.asked[i], r.cmd, r.val)
        BY <1>2, <2>1, <3>1, WishAgain
      <3> QED BY <1>2, <2>2, <3>2 DEF Told
    <2>3. CASE i \notin Chosen(r.cmd, t)
      <3>1. r2.asked[i] = r.asked[i]
        BY <1>2, <2>3 DEF Gets
      <3> QED BY <1>2, <2>3, <3>1 DEF Told
    <2> QED BY <2>2, <2>3
  <1>4. [i \in Index |-> Told(r2.asked[i], i, r2, t)] = [i \in Index |-> Told(r.asked[i], i, r, t)]
    BY <1>3
  <1> DEFINE a2 == [i \in Index |-> Told(r2.asked[i], i, r2, t)]
             a == [i \in Index |-> Told(r.asked[i], i, r, t)]
  <1>5. /\ ReadSelection(r2, t) = [r2 EXCEPT !.asked = a2, !.cmd = Behind(@, t)]
        /\ ReadSelection(r, t) = [r EXCEPT !.asked = a, !.cmd = Behind(@, t)]
    BY DEF ReadSelection
  <1> HIDE DEF a, a2
  <1>6. /\ ReadSelection(r2, t) = [cmd |-> Behind(r2.cmd, t), val |-> r2.val, waits |-> r2.waits, asked |-> a2]
        /\ ReadSelection(r, t) = [cmd |-> Behind(r.cmd, t), val |-> r.val, waits |-> r.waits, asked |-> a]
    BY <1>2, <1>5 DEF IsReading
  <1>7. a = a2
    BY <1>4 DEF a, a2
  <1> QED BY <1>1, <1>2, <1>6, <1>7

\* A turn whose selection is consumed.
LEMMA TurnTaken ==
  ASSUME NEW r, IsReading(r), ~ r.waits, NEW t, GoesOn(r.cmd, t), r.cmd \in Selecting
  PROVE  LET r2 == Read(r, t)
         IN  /\ IsReading(r2) /\ ~ r2.waits /\ r2.cmd = r.cmd /\ r2.val = r.val
             /\ r2 = ReadSelection(r, t)
  <1>1. t \notin CommandWords
    BY NameIs DEF GoesOn, CommandWords
  <1>2. Read(r, t) = ReadSelection(r, t)
    BY <1>1 DEF Read
  <1>3. Behind(r.cmd, t) = r.cmd
    <2>1. CASE t \in DOMAIN Name /\ Takes(r.cmd, Name[t]) /\ ~ (r.cmd = "enable" /\ Name[t] = "double")
      <3>1. Selected(t) = {Name[t]} /\ t # "all"
        BY <2>1, NameIs
      <3>2. Name[t] \in Chosen(r.cmd, t)
        BY <2>1, <3>1 DEF Chosen
      <3>3. ~ (r.cmd = "enable" /\ Selected(t) = {"double"})
        BY <2>1, <3>1
      <3> QED BY <3>2, <3>3 DEF Behind
    <2>2. CASE r.cmd = "set" /\ t = "all"
      BY <2>2 DEF Behind
    <2> QED BY <2>1, <2>2 DEF GoesOn
  <1> QED BY <1>2, <1>3, SelectionParts

LEMMA TakenHas ==
  ASSUME NEW r, IsReading(r), NEW t, NEW s, NEW s2, NEW w, NEW v, Has(s, w, v, r.asked),
         Reached(s, s2, w, v, r.cmd, r.val, Chosen(r.cmd, t), Misread(r.cmd, t))
  PROVE  Has(s2, w, v, ReadSelection(r, t).asked)
  <1>1. PICK a, a2 : a = r.asked /\ a2 = ReadSelection(r, t).asked
    OBVIOUS
  <1>2. ASSUME NEW i \in Index
        PROVE  /\ a2[i].sure => a[i].sure /\ i \notin Misread(r.cmd, t)
               /\ a2[i].interval = Gets(a[i], Chosen(r.cmd, t), i, r.cmd, r.val).interval
               /\ a2[i].on = Gets(a[i], Chosen(r.cmd, t), i, r.cmd, r.val).on
               /\ a2[i].value = Gets(a[i], Chosen(r.cmd, t), i, r.cmd, r.val).value
    <2>1. IsExample(a[i]) /\ a2[i] = Told(a[i], i, r, t)
      BY <1>1, SelectionParts DEF IsReading
    <2>2. PICK x, y, z : x = a[i] /\ y = a2[i] /\ z = Gets(x, Chosen(r.cmd, t), i, r.cmd, r.val)
      OBVIOUS
    <2>3. y.sure = (x.sure /\ i \notin Misread(r.cmd, t)) /\ y.interval = z.interval /\ y.on = z.on /\ y.value = z.value
      BY <2>1, <2>2, ToldParts
    <2>4. y.sure => x.sure /\ i \notin Misread(r.cmd, t)
      BY <2>3
    <2> QED BY <2>2, <2>3, <2>4
  <1>3. \A i \in Index : IsExample(a[i])
    BY <1>1 DEF IsReading
  <1> QED BY <1>1, <1>2, <1>3, ReachedHas

\* A turn whose token is left to decode.
LEMMA TurnLeft ==
  ASSUME NEW r, IsReading(r), ~ r.waits, NEW t, t \notin CommandWords, ~ GoesOn(r.cmd, t), r.cmd \in Selecting
  PROVE  LET r2 == Wished(r, t)
         IN  Settled(r2) \/ Skippable(r2, t)
  <1>1. PICK r2 : r2 = Wished(r, t)
    OBVIOUS
  <1>2. /\ IsReading(r2) /\ r2.cmd = r.cmd /\ r2.val = r.val
        /\ \A i \in Index : r2.asked[i] = Gets(r.asked[i], Chosen(r.cmd, t), i, r.cmd, r.val)
    BY <1>1, WishedParts
  <1>3. ASSUME NEW i \in Chosen(r.cmd, t) PROVE Wish(r2.asked[i], r.cmd, r.val) = r2.asked[i]
    <2>1. i \in Index /\ IsExample(r.asked[i])
      BY ChosenIn DEF IsReading
    <2>2. r2.asked[i] = Wish(r.asked[i], r.cmd, r.val)
      BY <1>2, <2>1 DEF Gets
    <2> QED BY <2>1, <2>2, WishAgain
  <1>4. CASE t = "all"
    <2>1. r.cmd \in {"disable", "enable", "interval"} /\ Chosen(r.cmd, t) = Index
      BY <1>4, SelectedAll DEF GoesOn, Selecting, Chosen, Takes
    <2>2. Done(r2)
      BY <1>2, <1>3, <2>1 DEF Done
    <2> QED BY <1>1, <2>2 DEF Settled
  <1>5. CASE t # "all"
    <2>1. Behind(r.cmd, t) \in {"none", "behind double"}
      <3>1. CASE t \in DOMAIN Name /\ r.cmd = "enable" /\ Name[t] = "double"
        <4>1. Selected(t) = {"double"}
          BY <3>1, NameIs
        <4> QED BY <3>1, <4>1 DEF Behind
      <3>2. CASE t \in DOMAIN Name /\ ~ Takes(r.cmd, Name[t])
        <4>1. Chosen(r.cmd, t) = {}
          <5>1. Selected(t) = {Name[t]}
            BY <3>2, NameIs
          <5> QED BY <3>2, <5>1 DEF Chosen
        <4> QED BY <1>5, <4>1 DEF Behind
      <3>3. CASE t \notin DOMAIN Name
        <4>1. Chosen(r.cmd, t) = {}
          <5>1. Selected(t) = {}
            BY <1>5, <3>3 DEF Selected
          <5> QED BY <5>1 DEF Chosen
        <4> QED BY <1>5, <4>1 DEF Behind
      <3> QED BY <3>1, <3>2, <3>3 DEF GoesOn
    <2>2. ReadSelection(r2, t).cmd \in {"none", "behind double"}
      BY <1>2, <2>1, SelectionParts
    <2>3. Settled(ReadSelection(r2, t))
      BY <2>2 DEF Settled
    <2>4. Skippable(r2, t)
      BY <1>2, <1>3, <2>3 DEF Skippable
    <2> QED BY <1>1, <2>4
  <1> QED BY <1>4, <1>5

\* Nothing is misread that the loop does not take.
LEMMA LeftRead ==
  ASSUME NEW cmd \in Selecting, NEW t, ~ GoesOn(cmd, t)
  PROVE  Misread(cmd, t) = {}
  <1>1. CASE cmd = "interval" /\ Selected(t) = {"sbyte"}
    <2>1. t # "all"
      BY <1>1, SelectedAll, ExampleConstantsOK
    <2>2. t \in DOMAIN Name
      BY <1>1, <2>1 DEF Selected
    <2> QED BY <1>1, <2>2 DEF GoesOn, Takes
  <1>2. CASE ~ (cmd = "interval" /\ Selected(t) = {"sbyte"})
    BY <1>2 DEF Misread, Selecting
  <1> QED BY <1>1, <1>2

LEMMA WishedHas ==
  ASSUME NEW r, IsReading(r), NEW t, NEW s, NEW s2, NEW w, NEW v, Has(s, w, v, r.asked),
         Reached(s, s2, w, v, r.cmd, r.val, Chosen(r.cmd, t), {})
  PROVE  Has(s2, w, v, Wished(r, t).asked)
  <1>1. PICK a, a2 : a = r.asked /\ a2 = Wished(r, t).asked
    OBVIOUS
  <1>2. ASSUME NEW i \in Index
        PROVE  /\ a2[i].sure => a[i].sure /\ i \notin {}
               /\ a2[i] = Gets(a[i], Chosen(r.cmd, t), i, r.cmd, r.val)
    <2>1. IsExample(a[i]) /\ a2[i] = Gets(a[i], Chosen(r.cmd, t), i, r.cmd, r.val)
      BY <1>1, WishedParts DEF IsReading
    <2>2. Wish(a[i], r.cmd, r.val).sure = a[i].sure
      BY <2>1, WishParts
    <2> QED BY <2>1, <2>2 DEF Gets
  <1>3. \A i \in Index : IsExample(a[i])
    BY <1>1 DEF IsReading
  <1> QED BY <1>1, <1>2, <1>3, ReachedHas

\* One turn of one of the four loops.
LEMMA TurnObeys ==
  ASSUME OInv, NEW cmd \in Selecting, At(cmd), toks # <<>>, Next1(cmd), UNCHANGED <<wg, varNode, val, asked, live>>,
         IInv', DOMAIN srv'.var = DOMAIN srv.var,
         live => Reached(srv, srv', wg, varNode, cmd, val, Chosen(cmd, Head(toks)), Misread(cmd, Head(toks)))
  PROVE  OInv'
  <1>1. loop = cmd /\ loop # "idle" /\ toks \in Seq(Token)
    BY DEF At, Selecting, OInv, Reading
  <1>2. PICK r, e : Follows(r, e)
    BY <1>1 DEF OInv, Reading
  <1>3. IsReading(r) /\ ~ r.waits /\ r.cmd = cmd /\ (cmd \in {"interval", "set"} => r.val = val)
    BY <1>1, <1>2 DEF Follows, Stands, Selecting
  <1>4. PICK t : t = Head(toks)
    OBVIOUS
  <1>5. live' => OwnIds(srv', wg', varNode')
    BY IdsThere DEF OInv, OwnIds, IInv, ExamplesThere
  <1>6. live => Reached(srv, srv', wg, varNode, cmd, r.val, Chosen(cmd, t), Misread(cmd, t))
    BY <1>3, <1>4 DEF Reached, Selecting
  <1>7. CASE GoesOn(cmd, t)
    <2>1. loop' = cmd /\ toks' = Tail(toks) /\ toks' \in Seq(Token)
      BY <1>1, <1>4, <1>7, OneBehind DEF Next1, Continue
    <2>2. PICK r2 : r2 = Read(r, t)
      OBVIOUS
    <2>3. IsReading(r2) /\ ~ r2.waits /\ r2.cmd = cmd /\ r2.val = r.val /\ r2 = ReadSelection(r, t)
      BY <1>3, <1>7, <2>2, TurnTaken
    <2>4. Stands(loop', toks', val', r2)
      BY <1>3, <2>1, <2>3 DEF Stands, Selecting
    <2>5. Ends(r2, toks', e) /\ e.asked = asked'
      BY <1>1, <1>2, <1>4, <2>1, <2>2, EndsHead DEF Follows
    <2>6. live' => Has(srv', wg', varNode', r2.asked)
      BY <1>2, <1>3, <1>6, <2>3, TakenHas DEF Follows
    <2>7. loop' \in {"decode"} \cup Selecting
      BY <2>1
    <2> QED BY <1>5, <2>1, <2>4, <2>5, <2>6, <2>7, ReadsFurther
  <1>8. CASE ~ GoesOn(cmd, t)
    <2>1. loop' = "decode" /\ toks' = toks
      BY <1>4, <1>8 DEF Next1, Continue
    <2>2. live => Reached(srv, srv', wg, varNode, cmd, r.val, Chosen(cmd, t), {})
      BY <1>6, <1>8, LeftRead
    <2>3. PICK r2 : r2 = IF t \in CommandWords THEN r ELSE Wished(r, t)
      OBVIOUS
    <2>4. CASE t \in CommandWords
      <3>1. Selected(t) = {}
        BY <2>4, NameIs DEF Selected, CommandWords
      <3>2. Chosen(cmd, t) = {}
        BY <3>1 DEF Chosen
      <3>3. Stands(loop', toks', val', r)
        BY <1>3, <1>4, <2>1, <2>4 DEF Stands
      <3>4. Ends(r, toks', e) /\ e.asked = asked'
        BY <1>2, <2>1 DEF Follows
      <3>5. live' => Has(srv', wg', varNode', r.asked)
        <4>0. PICK a, N : a = r.asked /\ N = {}
          OBVIOUS
        <4>1. ASSUME NEW i \in Index
              PROVE  /\ IsExample(a[i]) /\ (a[i].sure => a[i].sure /\ i \notin N)
                     /\ a[i].interval = Gets(a[i], N, i, cmd, r.val).interval
                     /\ a[i].on = Gets(a[i], N, i, cmd, r.val).on
                     /\ a[i].value = Gets(a[i], N, i, cmd, r.val).value
          <5>1. Gets(a[i], N, i, cmd, r.val) = a[i]
            BY <4>0 DEF Gets
          <5> QED BY <1>3, <4>0, <5>1 DEF IsReading
        <4>2. live => Has(srv, wg, varNode, a) /\ Reached(srv, srv', wg, varNode, cmd, r.val, N, N)
          BY <1>2, <2>2, <3>2, <4>0 DEF Follows
        <4>3. live => Has(srv', wg, varNode, a)
          <5>1. ASSUME live PROVE Has(srv', wg, varNode, a)
            <6>1. Has(srv, wg, varNode, a) /\ Reached(srv, srv', wg, varNode, cmd, r.val, N, N)
              BY <4>2, <5>1
            <6>2. \A i \in Index : IsExample(a[i])
              BY <4>1
            <6>3. PICK a2 : a2 = a
              OBVIOUS
            <6>4. \A i \in Index : /\ a2[i].sure => a[i].sure /\ i \notin N
                                   /\ a2[i].interval = Gets(a[i], N, i, cmd, r.val).interval
                                   /\ a2[i].on = Gets(a[i], N, i, cmd, r.val).on
                                   /\ a2[i].value = Gets(a[i], N, i, cmd, r.val).value
              BY <4>1, <6>3
            <6>5. Has(srv', wg, varNode, a2)
              BY <6>1, <6>2, <6>4, ReachedHas
            <6> QED BY <6>3, <6>5
          <5> QED BY <5>1
        <4> QED BY <4>0, <4>3
      <3> QED BY <1>1, <1>5, <2>1, <3>3, <3>4, <3>5, ReadsFurther
    <2>5. CASE t \notin CommandWords
      <3>1. r2 = Wished(r, t) /\ IsReading(r2) /\ r2.waits = r.waits
        BY <1>3, <2>3, <2>5, WishedParts
      <3>2. Settled(r2) \/ Skippable(r2, t)
        BY <1>3, <1>8, <2>5, <3>1, TurnLeft
      <3>3. Stands(loop', toks', val', r2)
        BY <1>3, <1>4, <2>1, <3>1, <3>2 DEF Stands
      <3>4. Read(r2, t) = Read(r, t)
        BY <1>3, <2>5, <3>1, WishedReads DEF Read
      <3>5. Ends(r2, toks', e) /\ e.asked = asked'
        BY <1>1, <1>2, <1>4, <2>1, <3>4, EndsAlike DEF Follows
      <3>6. live' => Has(srv', wg', varNode', r2.asked)
        BY <1>2, <1>3, <2>2, <3>1, WishedHas DEF Follows
      <3> QED BY <1>1, <1>5, <2>1, <3>3, <3>5, <3>6, ReadsFurther
    <2> QED BY <2>4, <2>5
  <1> QED BY <1>7, <1>8

LEMMA SwitchObeys == ASSUME OInv, NEW cmd, Switch(cmd) PROVE OInv'
  <1>1. /\ At(cmd) /\ cmd \in {"disable", "enable"} /\ toks # <<>> /\ Next1(cmd)
        /\ UNCHANGED <<wg, varNode, val, asked, live>>
        /\ srv' = WithState(srv, GroupsOf(Head(toks)), cmd = "enable")
    BY DEF Switch, statics
  <1>2. IInv' /\ cmd \in Selecting /\ IsServer(srv)
    BY <1>1, SwitchKeeps DEF OInv, Selecting, IInv
  <1>3. PICK C : C = Chosen(cmd, Head(toks))
    OBVIOUS
  <1>4. GroupsOf(Head(toks)) = {wg[i] : i \in C} /\ C \subseteq Index
    BY <1>1, <1>3, ChosenIn DEF GroupsOf, Chosen, Takes
  <1>5. Misread(cmd, Head(toks)) = {}
    BY <1>1 DEF Misread
  <1>6. live => Reached(srv, srv', wg, varNode, cmd, val, C, {})
    <2>1. PICK S : S = GroupsOf(Head(toks))
      OBVIOUS
    <2>2. srv' = WithState(srv, S, Turned(cmd))
      BY <1>1, <2>1 DEF Turned
    <2>3. ASSUME live PROVE Reached(srv, srv', wg, varNode, cmd, val, C, {})
      <3>1. OwnIds(srv, wg, varNode) /\ cmd \in {"disable", "enable"} /\ IsServer(srv)
        BY <1>1, <1>2, <2>3 DEF OInv
      <3>2. S = {wg[i] : i \in C} /\ C \subseteq Index
        BY <1>4, <2>1
      <3> QED BY <2>2, <3>1, <3>2, SwitchReaches
    <2> QED BY <2>3
  <1>7. srv'.var = srv.var
    <2>1. PICK G : srv' = Groups(srv, G)
      BY <1>1 DEF WithState, Groups
    <2> QED BY <1>2, <2>1, GroupsParts DEF IsServer
  <1> QED BY <1>1, <1>2, <1>3, <1>5, <1>6, <1>7, TurnObeys

LEMMA SetIntervalObeys == ASSUME OInv, SetInterval PROVE OInv'
  <1>1. /\ At("interval") /\ toks # <<>> /\ Next1("interval")
        /\ UNCHANGED <<wg, varNode, val, asked, live>>
        /\ srv' = WithInterval(srv, Updated(Head(toks)), Number[val])
    BY DEF SetInterval
  <1>2. IInv' /\ "interval" \in Selecting /\ IsServer(srv)
    BY <1>1, SetIntervalKeeps DEF OInv, Selecting, IInv
  <1>3. PICK C, M : C = Chosen("interval", Head(toks)) /\ M = Misread("interval", Head(toks))
    OBVIOUS
  <1>4. ASSUME live PROVE Reached(srv, srv', wg, varNode, "interval", val, C, M)
    <2>1. OwnIds(srv, wg, varNode) /\ DOMAIN wg = Index
      BY <1>4 DEF OInv, IInv, ExamplesThere
    <2>2. PICK D : /\ D \subseteq Index /\ Updated(Head(toks)) = {wg[i] : i \in D}
                   /\ \A i \in Index \ M : i \in C <=> i \in D
      BY <1>3, <2>1, UpdatedIs
    <2>3. PICK S : S = Updated(Head(toks))
      OBVIOUS
    <2>4. srv' = WithInterval(srv, S, Number[val])
      BY <1>1, <2>3
    <2> QED BY <1>2, <2>1, <2>2, <2>3, <2>4, IntervalReaches
  <1>5. srv'.var = srv.var
    <2>1. PICK G : srv' = Groups(srv, G)
      BY <1>1 DEF WithInterval, Groups
    <2> QED BY <1>2, <2>1, GroupsParts DEF IsServer
  <1> QED BY <1>1, <1>2, <1>3, <1>4, <1>5, TurnObeys

LEMMA SetObeys == ASSUME OInv, Set PROVE OInv'
  <1>1. PICK C : C = IF Head(toks) = "all" THEN {} ELSE Selected(Head(toks)) \cap Valued
    OBVIOUS
  <1>2. PICK V : V = [v \in DOMAIN srv.var |-> IF v \in {varNode[i] : i \in C} THEN Number[val] ELSE srv.var[v]]
    OBVIOUS
  <1>3. /\ At("set") /\ toks # <<>> /\ Next1("set")
        /\ UNCHANGED <<wg, varNode, val, asked, live>>
        /\ srv' = Variables(srv, V)
    BY <1>1, <1>2 DEF Set, statics, Variables
  <1>4. IInv' /\ "set" \in Selecting /\ IsServer(srv)
    BY SetKeeps DEF OInv, Selecting, IInv
  <1>5. Chosen("set", Head(toks)) = C /\ C \subseteq Valued
    BY <1>1, SelectedInside DEF Chosen, Takes, Valued
  <1>6. Misread("set", Head(toks)) = {}
    BY DEF Misread
  <1>7. live => Reached(srv, srv', wg, varNode, "set", val, C, {})
    BY <1>2, <1>3, <1>4, <1>5, SetReaches DEF OInv
  <1>8. DOMAIN srv'.var = DOMAIN srv.var
    BY <1>2, <1>3, <1>4, VariablesParts DEF IsServer
  <1> QED BY <1>3, <1>4, <1>5, <1>6, <1>7, <1>8, TurnObeys

LEMMA ObeysNext == OInv /\ [Next]_vars => OInv'
  <1> SUFFICES ASSUME OInv, [Next]_vars PROVE OInv'
    OBVIOUS
  <1>1. CASE UNCHANGED vars
    <2>1. UNCHANGED <<connId, wg, varNode, srv, live, asked, toks, loop, val>>
      BY <1>1 DEF vars, statics, line
    <2>2. IInv'
      BY <2>1, QuietKeeps DEF OInv
    <2>3. Reading'
      BY <2>1 DEF OInv, Reading, Follows
    <2> QED BY <2>1, <2>2, <2>3 DEF OInv
  <1>2. CASE Step
    BY <1>2, LineDoneObeys, InvalidObeys, ExampleObeys, NoMoreObeys, SetIntervalObeys, SetObeys,
       PlainObeys, WithValueObeys, SwitchObeys DEF Step
  <1> QED BY <1>1, <1>2, EnterLineObeys, RestartObeys, AddTreeObeys, RemoveTreeObeys DEF Next

LEMMA ObeysInit == Init => OInv
  <1> SUFFICES ASSUME Init PROVE OInv
    OBVIOUS
  <1>1. IInv
    BY InitKeeps
  <1>2. toks = <<>> /\ loop = "idle" /\ live = FALSE /\ asked = [i \in Index |-> NewExample]
    BY DEF Init
  <1>3. \A i \in Index : IsExample(asked[i])
    BY <1>2, NewAsked
  <1>4. Reading
    BY <1>2, <1>3, EmptySeq DEF Reading
  <1> QED BY <1>1, <1>2, <1>4 DEF OInv

(* At the end of every line the examples have what the lines asked for,     *)
(* whatever lines are typed: with every mixture of commands, selections,    *)
(* words that are none, and "all", and however the server chooses its ids.  *)
(* An rm that takes an object of the examples for one of the tree's, whose  *)
(* ids it remembers from before, ends what can be said of them.             *)
THEOREM SelectionsReached == Spec => []SelectionsObeyed
  <1>1. Spec => []OInv
    BY ObeysInit, ObeysNext, PTL DEF Spec
  <1>2. OInv => SelectionsObeyed
    BY DEF OInv, Reading, IInv, ExamplesThere, Has, SelectionsObeyed
  <1> QED BY <1>1, <1>2, PTL
=============================================================================
