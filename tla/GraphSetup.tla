----------------------------- MODULE GraphSetup -----------------------------
(***************************************************************************)
(* What happens to a flowgraph before its threads start.  The application  *)
(* connects ports, adds schedulers with a list of nodes each, and calls    *)
(* initialize: the ports of size 0 are given sizes, the graph is cut into  *)
(* one graph per scheduler, hierarchical blocks are replaced by the blocks *)
(* inside, and each scheduler in turn makes buffers, readers and threads.  *)
(*                                                                         *)
(* An edge is a pair of stream ports.  The ports of a hierarchical block   *)
(* are pads: inside it, edges lead from its input pads and to its output   *)
(* pads.  No stream port is optional (none of blocklib's is).  "failed" is *)
(* an exception or the use of a null pointer, which the model does not     *)
(* tell apart.                                                             *)
(***************************************************************************)
EXTENDS Integers, Sequences, FiniteSets, SequencesExt

CONSTANTS
  Blocks,        (* the blocks the application connects                     *)
  Hiers,         (* the hierarchical blocks it connects                     *)
  Inputs,        (* [node -> Seq(port)] input_ports, also of inner blocks   *)
  Outputs,       (* [node -> Seq(port)] output_ports                        *)
  HierEdges,     (* [Hiers -> Seq(edge)] the edges inside                   *)
  Declared,      (* [port -> Nat] itemsize, 0 when it is to be found        *)
  Complex,       (* sizeof(gr_complex)                                      *)
  Groups,        (* add_block_group: those whose blocks are in its list, for *)
                 (* each scheduler                                          *)
  Null,          (* a null pointer                                          *)
  MaxEdges,      (* bound: edges the application connects                   *)
  MaxSchedulers  (* bound: schedulers it adds                               *)

AllNodes == DOMAIN Inputs
PortsOf(n) == ToSet(Inputs[n]) \cup ToSet(Outputs[n])
Ports == DOMAIN Declared
Owner == [p \in Ports |-> CHOOSE n \in AllNodes : p \in PortsOf(n)]

ASSUME GraphAssumption ==
  /\ Blocks \cup Hiers \subseteq AllNodes /\ Blocks \cap Hiers = {}
  /\ DOMAIN Outputs = AllNodes /\ DOMAIN HierEdges = Hiers
  /\ \A n \in AllNodes : PortsOf(n) \subseteq Ports
  /\ Declared \in [Ports -> Nat] /\ Complex \in Nat \ {0}
  /\ \A g \in Groups : g \subseteq Blocks
  /\ Null \notin Ports

VARIABLES
  stage,    (* what the runtime is at                                       *)
  edges,    (* Seq(edge) _edges of the flowgraph                            *)
  peers,    (* [Ports -> Seq] _connected_ports                              *)
  size,     (* [Ports -> Nat] _itemsize                                     *)
  lists,    (* Seq(SUBSET node) d_blocks_per_scheduler                      *)
  address,  (* Seq(node) the used nodes in the order of their addresses     *)
  domains,  (* Seq(graph) the graph of each scheduler                       *)
  at,       (* the scheduler that is being initialized                      *)
  place,    (* the node or the edge that a loop is at                       *)
  updated,  (* updated_sizes                                                *)
  flat,     (* [edges, nodes, done] the flat graph of the scheduler         *)
  buffers,  (* {port} outputs that have a buffer                            *)
  readers,  (* {<<scheduler, edge>>} readers added to buffers               *)
  threads   (* {<<scheduler, blocks>>} thread_wrappers made                 *)

graph == <<edges, peers>>
sizing == <<size, address, updated>>
cut == <<lists, domains, at, flat>>
made == <<buffers, readers, threads>>
vars == <<stage, place, graph, sizing, cut, made>>

Ends(es) == UNION {{Owner[e[1]], Owner[e[2]]} : e \in ToSet(es)}
UsedNodes == Ends(edges)

(* port_base::connect, from both sides, and disconnect: std::remove moves   *)
(* the others forward and leaves behind them what was there.               *)
LinkOne(ps, p, q) ==
  IF Contains(ps[p], q) THEN ps ELSE [ps EXCEPT ![p] = Append(@, q)]
Link(ps, p, q) == LinkOne(LinkOne(ps, p, q), q, p)

Removed(s, x) ==
  LET kept == SelectSeq(s, LAMBDA y : y # x)
  IN  [i \in 1..Len(s) |-> IF i <= Len(kept) THEN kept[i]
                           ELSE IF s[i] = x THEN x ELSE Null]
Unlink(ps, p, q) == [ps EXCEPT ![p] = Removed(@, q)]

LinkAll(ps, es) == FoldLeft(LAMBDA f, e : Link(f, e[1], e[2]), ps, es)
PadsOf(h) == PortsOf(h)
InnerEdges(h) ==
  SelectSeq(HierEdges[h], LAMBDA e : {e[1], e[2]} \cap PadsOf(h) = {})

NoFlat == [edges |-> <<>>, nodes |-> {}, done |-> {}]

Init ==
  /\ stage = "build"
  /\ edges = <<>>
  /\ peers = LinkAll([p \in Ports |-> <<>>],
                     FlattenSeq(SetToSeq({InnerEdges(h) : h \in Hiers})))
  /\ size = Declared
  /\ lists = <<>>
  /\ address = <<>>
  /\ domains = <<>>
  /\ at = 1 /\ place = 1 /\ updated = FALSE /\ flat = NoFlat
  /\ buffers = {} /\ readers = {} /\ threads = {}

----------------------------------------------------------------------------
(* The application.  graph::connect throws when both sizes are known and    *)
(* differ, and leaves the graph as it was.                                 *)
Mismatch(e) == size[e[1]] # size[e[2]] /\ size[e[1]] > 0 /\ size[e[2]] > 0

TopInputs == UNION {ToSet(Inputs[n]) : n \in Blocks \cup Hiers}
TopOutputs == UNION {ToSet(Outputs[n]) : n \in Blocks \cup Hiers}

Connect(p, q) ==
  /\ stage = "build" /\ Len(edges) < MaxEdges
  /\ ~Mismatch(<<p, q>>)
  /\ edges' = Append(edges, <<p, q>>)
  /\ peers' = Link(peers, p, q)
  /\ UNCHANGED <<stage, place, sizing, cut, made>>

(* flowgraph::check_connections: every port is connected, and an input only *)
(* once.                                                                   *)
Complete ==
  \A n \in UsedNodes :
     /\ \A p \in PortsOf(n) : peers[p] # <<>>
     /\ \A p \in ToSet(Inputs[n]) : Len(peers[p]) = 1

(* runtime::initialize.  calc_used_nodes sorts pointers: the nodes come in   *)
(* any order, and in the same one each time.                                *)
Initialize ==
  /\ stage = "build" /\ edges # <<>>
  /\ IF Complete
       THEN /\ stage' = "sizes"
            /\ address' \in SetToSeqs(UsedNodes)
       ELSE stage' = "failed" /\ UNCHANGED address
  /\ UNCHANGED <<place, graph, size, updated, cut, made>>

----------------------------------------------------------------------------
(* check_connections: one pass of the loop that gives sizes to ports of     *)
(* size 0.  Every block has message ports, which come before its stream     *)
(* inputs, stay at 0 during the loop, and reset updated_sizes.              *)
FirstPeerSize(s, p) == IF peers[p] = <<>> THEN 0 ELSE s[peers[p][1]]

PassPort(s, p) ==
  IF s.size[p] # 0 THEN s
  ELSE [size |-> [s.size EXCEPT ![p] = FirstPeerSize(s.size, p)],
        updated |-> FirstPeerSize(s.size, p) > 0]

PassNode(s, n) ==
  LET outs == FoldLeft(PassPort, s, Outputs[n])
      msgs == IF n \in Blocks THEN [outs EXCEPT !.updated = FALSE] ELSE outs
  IN  FoldLeft(PassPort, msgs, Inputs[n])

SizeNode ==
  /\ stage = "sizes"
  /\ LET s == PassNode([size |-> size, updated |-> updated], address[place])
         last == place = Len(address)
     IN  /\ place' = IF last THEN 1 ELSE place + 1
         /\ updated' = (~last /\ s.updated)
         /\ IF last /\ ~s.updated
              THEN /\ size' = [p \in Ports |->
                                 IF Owner[p] \in UsedNodes /\ s.size[p] = 0
                                   THEN Complex ELSE s.size[p]]
                   /\ stage' = "domains" /\ address' = <<>>
              ELSE size' = s.size /\ UNCHANGED <<stage, address>>
  /\ UNCHANGED <<graph, cut, made>>

(* add_scheduler, with nodes of the graph.  The lists are first looked at    *)
(* below: that is when the model has the application choose them.           *)
AddScheduler(ns) ==
  /\ stage = "domains" /\ Len(lists) < MaxSchedulers
  /\ lists' = Append(lists, ns)
  /\ UNCHANGED <<stage, place, graph, sizing, domains, at, flat, made>>

----------------------------------------------------------------------------
(* runtime::initialize: the whole graph for one scheduler; for more,        *)
(* graph_utils::partition and connect_crossings.  A graph has its edges,    *)
(* the nodes they connected, and nodes without an edge.  The edge of an     *)
(* input port is the first that find_edge finds.                            *)
Graph(es, ns, os) == [edges |-> es, nodes |-> ns, orphans |-> os]

EdgesInto(ns) ==
  {edges[SelectInSeq(edges, LAMBDA e : e[2] = q)] :
     q \in {e[2] : e \in {f \in ToSet(edges) : Owner[f[2]] \in ns}}}

Within(ns) == {e \in EdgesInto(ns) : Owner[e[1]] \in ns}
Crossing(ns) == EdgesInto(ns) \ Within(ns)
Crossings == UNION {Crossing(lists[i]) : i \in 1..Len(lists)}

(* The first graph that holds a node, which is in every list it is named in. *)
Holders(n) == {i \in 1..Len(lists) : n \in lists[i]}
Home(n) == CHOOSE i \in Holders(n) : \A j \in Holders(n) : i <= j

(* Mutant: a crossing is added to the graph of its destination only.         *)
SubgraphAtEnd(i) ==
  LET within == SetToSeq(Within(lists[i]))
      across == SetToSeq({e \in Crossings : i = Home(Owner[e[2]])})
  IN  Graph(within \o across, Ends(within), lists[i] \ Ends(within))

Subgraph(i) ==
  LET within == SetToSeq(Within(lists[i]))
      across == SetToSeq({e \in Crossings :
                            i \in {Home(Owner[e[1]]), Home(Owner[e[2]])}})
  IN  Graph(within \o across, Ends(within), lists[i] \ Ends(within))

(* connect compares the sizes again; both sides of a crossing are found.     *)
CanPartition ==
  /\ \A i \in 1..Len(lists) : \A e \in Within(lists[i]) : ~Mismatch(e)
  /\ \A e \in Crossings : Holders(Owner[e[1]]) # {}

MakeDomains ==
  /\ stage = "domains"
  /\ IF Len(lists) <= 1
       THEN /\ domains' = <<Graph(edges, Ends(edges), {})>>
            /\ stage' = "schedulers"
     ELSE IF CanPartition
       THEN /\ domains' = [i \in 1..Len(lists) |-> Subgraph(i)]
            /\ stage' = "schedulers"
     ELSE stage' = "failed" /\ UNCHANGED domains
  /\ UNCHANGED <<place, graph, sizing, lists, at, flat, made>>

----------------------------------------------------------------------------
(* flat_graph::make_flat, an edge at a time.  connect is graph::connect of   *)
(* the flat graph, which compares the sizes again.                          *)
FlatConnect(s, e) ==
  IF Mismatch(e) THEN [s EXCEPT !.ok = FALSE]
  ELSE [s EXCEPT !.edges = Append(@, e), !.nodes = Ends(Append(s.edges, e)),
                 !.peers = Link(@, e[1], e[2])]

Disconnect(s, p, q) == [s EXCEPT !.peers = Unlink(@, p, q)]

FlatInner(s, h) ==
  IF h \in s.done THEN s
  ELSE FoldLeft(LAMBDA t, e : FlatConnect(Disconnect(t, e[1], e[2]), e),
                [s EXCEPT !.done = @ \cup {h}], InnerEdges(h))

(* Mutant: disconnects first, as inside the hierarchical block.              *)
IntoHierEarly(s, e) ==
  FoldLeft(LAMBDA t, pad : FlatConnect(Disconnect(t, e[1], e[2]), <<e[1], pad[2]>>),
           s, SelectSeq(HierEdges[Owner[e[2]]], LAMBDA f : f[1] = e[2]))

IntoHier(s, e) ==
  FoldLeft(LAMBDA t, pad : Disconnect(FlatConnect(t, <<e[1], pad[2]>>), e[1], e[2]),
           s, SelectSeq(HierEdges[Owner[e[2]]], LAMBDA f : f[1] = e[2]))

FromHier(s, e) ==
  FoldLeft(LAMBDA t, pad : Disconnect(Disconnect(FlatConnect(t, <<pad[1], e[2]>>),
                                                 e[2], e[1]), pad[1], pad[2]),
           s, SelectSeq(HierEdges[Owner[e[1]]], LAMBDA f : f[2] = e[1]))

FlatEdge(s, e, ns) ==
  LET src == Owner[e[1]]
      dst == Owner[e[2]]
      into == IF dst \in Hiers THEN FlatInner(IntoHier(s, e), dst) ELSE s
  IN  IF ~({src, dst} \subseteq ns) THEN [s EXCEPT !.edges = Append(@, e)]
      ELSE IF src \in Hiers THEN FlatInner(FromHier(into, e), src)
      ELSE IF dst \in Hiers THEN into
      ELSE FlatConnect(s, e)

FlattenEdge ==
  /\ stage = "schedulers" /\ place <= Len(domains[at].edges)
  /\ LET s == FlatEdge([edges |-> flat.edges, nodes |-> flat.nodes,
                        done |-> flat.done, peers |-> peers, ok |-> TRUE],
                       domains[at].edges[place], domains[at].nodes)
     IN  /\ stage' = IF s.ok THEN stage ELSE "failed"
         /\ flat' = [edges |-> s.edges, nodes |-> s.nodes, done |-> s.done]
         /\ peers' = s.peers
         /\ place' = place + 1
  /\ UNCHANGED <<edges, sizing, lists, domains, at, made>>

(* calc_used_blocks *)
FlatBlocks(f, orphans) ==
  (Ends(SelectSeq(f.edges, LAMBDA e : {Owner[e[1]], Owner[e[2]]} \subseteq f.nodes))
     \ Hiers) \cup orphans

(* buffer_manager::initialize_buffers.  get_buffer_num_items follows null    *)
(* pointers for an edge into a hierarchical block; an orphan is taken for a *)
(* block.  A reader needs the buffer of its source, which a scheduler makes *)
(* for the nodes of its own graph.                                          *)
NewBuffers(f) == {e[1] : e \in {d \in ToSet(f.edges) : Owner[d[1]] \in f.nodes}}
InputsIn(bs) == UNION {ToSet(Inputs[b]) : b \in bs}
EdgeInto(f, q) == f.edges[SelectInSeq(f.edges, LAMBDA e : e[2] = q)]
NewReaders(f, bs) ==
  {EdgeInto(f, q) : q \in {r \in InputsIn(bs) : Owner[r] \in f.nodes}}

CanBuffer(f, bs, orphans) ==
  /\ \A e \in ToSet(f.edges) : Owner[e[2]] \notin Hiers
  /\ orphans \cap Hiers = {}
  /\ \A q \in InputsIn(bs) : \E e \in ToSet(f.edges) : e[2] = q
  /\ \A e \in NewReaders(f, bs) : e[1] \in buffers \cup NewBuffers(f)

(* scheduler_nbt::initialize: a thread for each group, then for each block   *)
(* that is in none.                                                         *)
GroupsOf(i) == IF lists = <<>> THEN {} ELSE {g \in Groups : g \subseteq lists[i]}
NewThreads(i, bs) == GroupsOf(i) \cup {{b} : b \in bs \ UNION GroupsOf(i)}

InitScheduler ==
  /\ stage = "schedulers" /\ place > Len(domains[at].edges)
  /\ LET orphans == domains[at].orphans
         bs == FlatBlocks(flat, orphans)
     IN  IF CanBuffer(flat, bs, orphans)
           THEN /\ buffers' = buffers \cup NewBuffers(flat)
                /\ readers' = readers \cup {<<at, e>> : e \in NewReaders(flat, bs)}
                /\ threads' = threads \cup {<<at, t>> : t \in NewThreads(at, bs)}
                /\ at' = at + 1 /\ place' = 1 /\ flat' = NoFlat
                /\ stage' = IF at = Len(domains) THEN "ready" ELSE stage
           ELSE /\ stage' = "failed"
                /\ UNCHANGED <<made, at, place, flat>>
  /\ UNCHANGED <<graph, sizing, lists, domains>>

Next ==
  \/ \E p \in TopOutputs, q \in TopInputs : Connect(p, q)
  \/ Initialize
  \/ \E ns \in SUBSET UsedNodes : AddScheduler(ns)
  \/ SizeNode
  \/ MakeDomains
  \/ FlattenEdge
  \/ InitScheduler

Spec == Init /\ [][Next]_vars

----------------------------------------------------------------------------
(* Properties.  A flow is an output of a block and an input of a block that *)
(* it is to feed, through the pads of hierarchical blocks.                  *)
Sources(p) ==
  IF Owner[p] \in Hiers
    THEN {e[1] : e \in {f \in ToSet(HierEdges[Owner[p]]) : f[2] = p}} ELSE {p}
Sinks(q) ==
  IF Owner[q] \in Hiers
    THEN {e[2] : e \in {f \in ToSet(HierEdges[Owner[q]]) : f[1] = q}} ELSE {q}
UsedHiers == UsedNodes \cap Hiers
Flows == UNION ({Sources(e[1]) \X Sinks(e[2]) : e \in ToSet(edges)}
                  \cup {ToSet(InnerEdges(h)) : h \in UsedHiers})
FlowBlocks == {Owner[f[1]] : f \in Flows} \cup {Owner[f[2]] : f \in Flows}

(* The flowgraph can run: every flow has a buffer that only the readers of  *)
(* its flows are attached to, in items of one size, and every block a       *)
(* thread of its own or its group's, and no other.                          *)
Works ==
  /\ stage = "ready"
  /\ \A f \in Flows : f[1] \in buffers /\ size[f[1]] = size[f[2]] /\ size[f[1]] > 0
  /\ \A f \in Flows : Cardinality({r \in readers : r[2][2] = f[2]}) = 1
  /\ {r[2] : r \in readers} = Flows
  /\ \A b \in FlowBlocks : Cardinality({t \in threads : b \in t[2]}) = 1

(* What a graph and the lists of schedulers must be for that.  The code      *)
(* states none of the rules for several schedulers: their lists are a        *)
(* partition, no edge in or out of a hierarchical block crosses, crossings  *)
(* go to a scheduler added later, and no node has crossings only.           *)
OneList(n) == Cardinality(Holders(n)) = 1
Crosses(e) == Home(Owner[e[1]]) # Home(Owner[e[2]])
Touches(e, n) == n \in {Owner[e[1]], Owner[e[2]]}

Partitioned ==
  /\ \A n \in UsedNodes : OneList(n)
  /\ \A e \in ToSet(edges) : Crosses(e) =>
        /\ {Owner[e[1]], Owner[e[2]]} \cap Hiers = {}
        /\ Home(Owner[e[1]]) < Home(Owner[e[2]])
  /\ \A n \in UsedNodes : \E e \in ToSet(edges) : Touches(e, n) /\ ~Crosses(e)

Connected ==
  \A n \in UsedNodes :
     /\ \A p \in PortsOf(n) : \E e \in ToSet(edges) : p \in ToSet(e)
     /\ \A q \in ToSet(Inputs[n]) : Cardinality({e \in ToSet(edges) : e[2] = q}) = 1

Supported ==
  /\ Connected
  /\ \A f \in Flows : size[f[1]] = size[f[2]]
  /\ \A e \in ToSet(edges) : ~({Owner[e[1]], Owner[e[2]]} \subseteq Hiers)
  /\ Len(lists) > 1 => Partitioned

(* What is set up works exactly when it is one of the supported graphs: no  *)
(* supported graph is refused or left with a block without a buffer, a      *)
(* reader or a thread, and no other graph works by chance.                  *)
WorksIffSupported == stage \in {"ready", "failed"} => (Works <=> Supported)

(* A port of a running block notifies the ports it exchanges items with, on *)
(* both sides of a hierarchical block, and no pad, which has no thread and  *)
(* drops messages: although disconnect takes nothing off the end.           *)
NeighboursNotified ==
  Works => \A b \in FlowBlocks : \A p \in PortsOf(b) :
             ToSet(peers[p]) \ {Null} =
               {f[2] : f \in {g \in Flows : g[1] = p}}
                 \cup {f[1] : f \in {g \in Flows : g[2] = p}}
=============================================================================
