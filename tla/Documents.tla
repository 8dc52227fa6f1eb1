----------------------------- MODULE Documents -----------------------------
(***************************************************************************)
(* The documents of the Xml2 module.  A script knows ids; under each the   *)
(* module keeps, until the process ends, an object that owns a tree of     *)
(* libxml2, points into one, or lists nodes of one.  What a call frees     *)
(* stays in every object that pointed to it; what no call frees is left to *)
(* the destructors of the holders, which run at exit.                      *)
(***************************************************************************)
EXTENDS Naturals, Sequences, FiniteSets, Functions

CONSTANT Texts      \* what the parser makes of a text: the nodes of a tree, in
                    \* the order of the document, each with the place of its
                    \* parent among them, or 0

TreeKinds == {"element", "attribute", "text"}

ASSUME DocumentsAssumption ==
    \A t \in Texts : /\ t \in Seq([kind : TreeKinds, parent : Nat])
                     /\ t # <<>> /\ t[1].parent = 0
                     /\ \A i \in 2..Len(t) : t[i].parent \in 1..(i - 1)

VARIABLES
    nodes,      \* every allocation of libxml2 so far: what it is, its parent
                \* and its document, or 0, and how often it was freed
    handles,    \* id |-> the class of the object, its pointers, whether it owns
    cut,        \* history: nodes that a call of the script freed
    wild,       \* history: freed memory that a destructor read
    gone,       \* the number of holders that exit has destroyed
    process     \* "runs", "exits", or "undefined" once freed memory is used

docVars == <<nodes, handles, cut, wild, gone, process>>

Kinds   == TreeKinds \cup {"namespace", "schema", "parser", "dtd"}
Owners  == {"XmlDocument", "Xml2", "XmlSchema", "XmlDtd"}
XmlClasses == Owners \cup {"XmlNode", "raw node", "XmlNodeList", "XmlXPathResult"}

\* Mutant: the order in which the holders are declared.
Declared == <<"XmlDocument", "XmlNode", "XmlXPathResult", "XmlSchema", "XmlDtd">>

\* Statics are destroyed last first.  The holders of lists have nothing to
\* free, and docHolder and nodeHolder hold pointers, which have no destructor.
Destroyed == <<"XmlDtd", "XmlSchema", "XmlXPathResult", "XmlNode", "XmlDocument">>

Nodes     == DOMAIN nodes
Alive(n)  == nodes[n].freed = 0
Ids(class) == {h \in DOMAIN handles : handles[h].class = class}
Allocation(kind, parent, doc) == [kind |-> kind, parent |-> parent, doc |-> doc, freed |-> 0]
Object(class, at, owns) == [class |-> class, at |-> at, owns |-> owns]
NextId    == Len(handles) + 1
NextNode  == Len(nodes) + 1

DocumentsTypeOK ==
    /\ nodes \in Seq([kind : Kinds, parent : Nat, doc : Nat, freed : Nat])
    /\ handles \in Seq([class : XmlClasses, at : Seq(Nodes), owns : BOOLEAN])
    /\ cut \subseteq Nodes /\ wild \subseteq Nodes
    /\ gone \in 0..Len(Destroyed) /\ process \in {"runs", "exits", "undefined"}

DocumentsInit ==
    /\ nodes = <<>> /\ handles = <<>>
    /\ cut = {} /\ wild = {} /\ gone = 0 /\ process = "runs"

-----------------------------------------------------------------------------
(* Trees of libxml2: a node comes after its parent. *)

\* A list of nodes has them in the order of the document.
Rank(m, S) == Cardinality({k \in S : k <= m})
InOrder(S) == [i \in 1..Cardinality(S) |-> CHOOSE m \in S : Rank(m, S) = i]

Parts(n, kinds) == InOrder({m \in Nodes : nodes[m].parent = n /\ nodes[m].kind \in kinds /\ Alive(m)})
Children(n)   == Parts(n, {"element", "text"})
Attributes(n) == Parts(n, {"attribute"})

Above == [n \in Nodes |-> LET up[m \in Nodes] ==
                              IF nodes[m].parent = 0 THEN {} ELSE {nodes[m].parent} \cup up[nodes[m].parent]
                          IN  up[n]]
Subtree(n) == {m \in Nodes : Alive(m) /\ (m = n \/ n \in Above[m])}

Adjacent(n, s) == {m \in Nodes : \E i \in 1..(Len(s) - 1) : {s[i], s[i + 1]} = {n, m}}
Ends(s)        == IF s = <<>> THEN {} ELSE {s[1], s[Len(s)]}

\* What the navigation of a node can give.
Neighbours(n) ==
    LET up == nodes[n].parent
    IN  Ends(Children(n))
        \cup (IF up = 0 THEN {} ELSE {up} \cup Adjacent(n, Parts(up, IF nodes[n].kind = "attribute"
                                                      THEN {"attribute"} ELSE {"element", "text"})))

\* The nodes of a text that is parsed for the document `doc`.
Parsed(text, doc) ==
    [i \in DOMAIN text |->
        Allocation(text[i].kind, IF text[i].parent = 0 THEN 0 ELSE Len(nodes) + text[i].parent, doc)]

Freed(ns) == [n \in Nodes |-> IF n \in ns THEN [nodes[n] EXCEPT !.freed = @ + 1] ELSE nodes[n]]

-----------------------------------------------------------------------------
(* Documents and the nodes made from them. *)

\* create...Object(): the object is kept under an id of its own, for good.
Keep(class, at, owns) == handles' = Append(handles, Object(class, at, owns))

\* createFromString(), createFromFile(), createDocument(), and the older
\* readMemory() and readFile().
MakeDocument ==
    /\ \/ Keep("XmlDocument", <<>>, TRUE) /\ UNCHANGED nodes
       \/ \E class \in {"XmlDocument", "Xml2"}, text \in Texts :
             /\ Keep(class, <<NextNode>>, class = "XmlDocument")
             /\ nodes' = nodes \o Parsed(text, NextId)
    /\ UNCHANGED <<cut, wild>>

\* getRootElement(): of an Xml2 the node is known to nodeHolder alone.
RootElement(h) ==
    /\ handles[h].class \in {"XmlDocument", "Xml2"} /\ handles[h].at # <<>>
    /\ Keep(IF handles[h].class = "Xml2" THEN "raw node" ELSE "XmlNode", handles[h].at, FALSE)
    /\ UNCHANGED <<nodes, cut, wild>>

\* createElement() and the like: only a CDATA section knows its document.
CreateNode(h) ==
    /\ handles[h].class = "XmlDocument"
    /\ \E kind \in {"element", "text"}, doc \in {0, h} :
          /\ doc = h => kind = "text"
          /\ nodes' = Append(nodes, Allocation(kind, 0, doc))
    /\ Keep("XmlNode", <<NextNode>>, TRUE)
    /\ UNCHANGED <<cut, wild>>

-----------------------------------------------------------------------------
(* Nodes. *)

Usable(h) == Alive(handles[h].at[1]) /\ nodes[handles[h].at[1]].kind # "namespace"
Node(h)   == handles[h].at[1]

\* Any method of a node that was freed; and most of one of a namespace, which
\* is no xmlNode.
UseAnyway(h) == /\ handles[h].class \in {"XmlNode", "raw node"} /\ ~Usable(h)
                /\ process' = "undefined"
                /\ UNCHANGED <<nodes, handles, cut, wild, gone>>

\* getParent(), getFirstChild() and the others.
Navigate(h) ==
    /\ handles[h].class = "XmlNode" /\ Usable(h)
    /\ \E n \in Neighbours(Node(h)) : Keep("XmlNode", <<n>>, FALSE)
    /\ UNCHANGED <<nodes, cut, wild>>

\* getAttributes(): an id in nodeHolder for every element below.
Enumerate(h) ==
    /\ handles[h].class \in {"XmlNode", "raw node"} /\ Usable(h)
    /\ LET below == Parts(Node(h), {"element"})
       IN  /\ below # <<>>
           /\ handles' = handles \o [i \in DOMAIN below |-> Object("raw node", <<below[i]>>, FALSE)]
    /\ UNCHANGED <<nodes, cut, wild>>

\* getChildren().
ListChildren(h) ==
    /\ handles[h].class = "XmlNode" /\ Usable(h)
    /\ Keep("XmlNodeList", Parts(Node(h), {"element"}), FALSE)
    /\ UNCHANGED <<nodes, cut, wild>>

\* setContent() and setTextContent(): the children are freed, whoever points
\* to them, and a text takes their place, if any.
SetContent(h) ==
    LET below == Subtree(Node(h)) \ ({Node(h)} \cup UNION {Subtree(a) : a \in Range(Attributes(Node(h)))})
        text  == Allocation("text", Node(h), nodes[Node(h)].doc)
    IN  /\ handles[h].class = "XmlNode" /\ Usable(h) /\ nodes[Node(h)].kind = "element"
        /\ nodes' \in {Freed(below), Append(Freed(below), text)}
        /\ cut' = cut \cup below
        /\ UNCHANGED <<handles, wild>>

\* setAttribute(), with a name that the element has no attribute of.
SetAttribute(h) ==
    /\ handles[h].class = "XmlNode" /\ Usable(h) /\ nodes[Node(h)].kind = "element"
    /\ nodes' = Append(nodes, Allocation("attribute", Node(h), nodes[Node(h)].doc))
    /\ UNCHANGED <<handles, cut, wild>>

RemoveAttribute(h) ==
    /\ handles[h].class = "XmlNode" /\ Usable(h)
    /\ \E a \in Range(Attributes(Node(h))) : nodes' = Freed({a}) /\ cut' = cut \cup {a}
    /\ UNCHANGED <<handles, wild>>

\* cloneNode(): the copy belongs to no document; a shallow one has no
\* attributes.
CloneNode(h) ==
    /\ handles[h].class = "XmlNode" /\ Usable(h)
    /\ \E deep \in BOOLEAN :
          LET copied == IF deep THEN Subtree(Node(h)) ELSE {Node(h)}
              s      == InOrder(copied)
              copy   == [i \in DOMAIN s |->
                            Allocation(nodes[s[i]].kind,
                                       IF s[i] = Node(h) THEN 0
                                       ELSE Len(nodes) + Rank(nodes[s[i]].parent, copied), 0)]
          IN  nodes' = nodes \o copy
    /\ Keep("XmlNode", <<NextNode>>, TRUE)
    /\ UNCHANGED <<cut, wild>>

-----------------------------------------------------------------------------
(* Selections. *)

\* The document that an expression is evaluated in; a node that has none is
\* refused.
Context(h) == IF handles[h].class = "XmlDocument" THEN h
              ELSE IF handles[h].class = "XmlNode" /\ Usable(h) THEN nodes[Node(h)].doc ELSE 0

\* The nodes that an expression finds.
Found(doc, kind) == InOrder({m \in Nodes : /\ handles[doc].at # <<>> /\ m \in Subtree(handles[doc].at[1])
                                           /\ nodes[m].kind = kind})

\* xpath(): the result is kept, and the namespaces it found with it.
Evaluate(h) ==
    /\ handles[h].class = "XmlDocument"
    /\ \/ /\ \E kind \in TreeKinds : Keep("XmlXPathResult", Found(h, kind), TRUE)
          /\ UNCHANGED nodes
       \/ /\ handles[h].at # <<>>
          /\ nodes' = Append(nodes, Allocation("namespace", 0, 0))
          /\ Keep("XmlXPathResult", <<NextNode>>, TRUE)
    /\ UNCHANGED <<cut, wild>>

\* selectNodes(): the result goes at the end of the call, and the list keeps
\* what it pointed to.
Select(h) ==
    /\ Context(h) # 0
    /\ \/ /\ \E kind \in TreeKinds : Keep("XmlNodeList", Found(Context(h), kind), FALSE)
          /\ UNCHANGED <<nodes, cut>>
       \/ /\ handles[Context(h)].at # <<>>
          /\ nodes' = Append(nodes, [Allocation("namespace", 0, 0) EXCEPT !.freed = 1])
          /\ cut' = cut \cup {NextNode}
          /\ Keep("XmlNodeList", <<NextNode>>, FALSE)
    /\ UNCHANGED wild

\* item() of a list, and selectSingleNode(), which is item(0).
Item(h) ==
    /\ handles[h].class = "XmlNodeList"
    /\ \E i \in DOMAIN handles[h].at : Keep("XmlNode", <<handles[h].at[i]>>, FALSE)
    /\ UNCHANGED <<nodes, cut, wild>>

NodeSet(h) == /\ handles[h].class = "XmlXPathResult"
              /\ Keep("XmlNodeList", handles[h].at, FALSE)
              /\ UNCHANGED <<nodes, cut, wild>>

-----------------------------------------------------------------------------
(* Schemas and DTDs. *)

MakeSchema == /\ \E class \in {"XmlSchema", "XmlDtd"} : Keep(class, <<>>, TRUE)
              /\ UNCHANGED <<nodes, cut, wild>>

\* loadFromString(), loadFromFile(): each pointer that a step returns goes
\* over the one that was there, a null too; a schema that failed at its
\* parser keeps the one it had.
Load(h) ==
    /\ \/ /\ handles[h].class = "XmlSchema"
          /\ \/ /\ nodes' = nodes \o <<Allocation("parser", 0, 0), Allocation("schema", 0, 0)>>
                /\ handles' = [handles EXCEPT ![h].at = <<NextNode, NextNode + 1>>]
             \/ /\ nodes' = Append(nodes, Allocation("parser", 0, 0))
                /\ handles' = [handles EXCEPT ![h].at = <<NextNode>>]
             \/ /\ handles' = [handles EXCEPT ![h].at = InOrder({n \in Range(@) : nodes[n].kind = "schema"})]
                /\ UNCHANGED nodes
       \/ /\ handles[h].class = "XmlDtd"
          /\ \/ /\ nodes' = Append(nodes, Allocation("dtd", 0, 0))
                /\ handles' = [handles EXCEPT ![h].at = <<NextNode>>]
             \/ handles' = [handles EXCEPT ![h].at = <<>>] /\ UNCHANGED nodes
    /\ UNCHANGED <<cut, wild>>

-----------------------------------------------------------------------------
(* The end of the process. *)

\* What the destructor of an object frees, and what it reads to do so: a
\* result reads the type of each of its nodes, and a node that is freed the
\* dictionary of its document.
FreedBy(h) ==
    LET o == handles[h]
    IN  IF ~o.owns THEN {}
        ELSE IF o.class = "XmlXPathResult"
             THEN {n \in Range(o.at) : nodes[n].kind = "namespace"}
             ELSE Range(o.at) \cup UNION {Subtree(n) : n \in Range(o.at)}

DocumentGone(n) == \E i \in 1..gone : nodes[n].doc # 0 /\ Destroyed[i] = handles[nodes[n].doc].class

ReadBy(h) == {n \in FreedBy(h) \cup (IF handles[h].owns THEN Range(handles[h].at) ELSE {}) :
                 ~Alive(n) \/ DocumentGone(n)}

Destroy ==
    LET ids == Ids(Destroyed[gone + 1])
    IN  /\ process # "undefined" /\ handles # <<>> /\ gone < Len(Destroyed)
        /\ process' = "exits" /\ gone' = gone + 1
        /\ nodes' = [n \in Nodes |->
                        [nodes[n] EXCEPT !.freed = @ + Cardinality({h \in ids : n \in FreedBy(h)})]]
        /\ wild' = wild \cup UNION {ReadBy(h) : h \in ids}
        /\ UNCHANGED <<handles, cut>>

\* A call of the script.
DocumentCall ==
    \/ /\ \/ MakeDocument \/ MakeSchema
          \/ \E h \in DOMAIN handles :
                \/ RootElement(h) \/ CreateNode(h) \/ Navigate(h) \/ Enumerate(h) \/ ListChildren(h)
                \/ SetContent(h) \/ SetAttribute(h) \/ RemoveAttribute(h) \/ CloneNode(h)
                \/ Evaluate(h) \/ Select(h) \/ Item(h) \/ NodeSet(h) \/ Load(h)
       /\ UNCHANGED <<gone, process>>
    \/ \E h \in DOMAIN handles : UseAnyway(h)

-----------------------------------------------------------------------------
\* What nothing frees: the trees of Xml2 objects, whose holder has no
\* destructor to run, and what a second load of a schema or DTD replaced.
Leaked(n) == \/ \E h \in Ids("Xml2") : n \in Subtree(handles[h].at[1])
             \/ /\ nodes[n].kind \in {"schema", "parser", "dtd"}
                /\ \A h \in DOMAIN handles : n \notin Range(handles[h].at)

(* Nothing is freed twice, and at the end everything once ("cleanup still  *)
(* happens exactly once", XmlModule.hpp), but for the trees of Xml2 objects*)
(* and what a second load replaced.  A pointer the module keeps leads to   *)
(* freed memory, while the script runs, only if a call of the script freed *)
(* that; and no destructor reads memory freed by another, whatever the     *)
(* script kept.                                                            *)
CleanedUpOnce ==
    /\ \A n \in Nodes : nodes[n].freed <= 1
    /\ process = "runs" => \A h \in DOMAIN handles : \A n \in Range(handles[h].at) : Alive(n) \/ n \in cut
    /\ gone = Len(Destroyed) => \A n \in Nodes : Alive(n) => Leaked(n)
    /\ wild \subseteq cut
=============================================================================
