-------------------------------- MODULE Library --------------------------------
(***************************************************************************)
(* Browsing a container and queueing from it: BrowserProvider and its stub *)
(* (browserprovider.cpp, browserstub.cpp), the operations of PlayerProvider*)
(* that fill and show the play queue, and the conversions between dLeyna's *)
(* answers and the replies.  dLeyna's server (external) holds the          *)
(* container, which others change too.  A client walks through a listing   *)
(* page by page; a call that fails is answered with an empty page, since   *)
(* the stub passes no error pointer.                                       *)
(***************************************************************************)
EXTENDS Conversions

CONSTANTS
    Objects,        \* object paths
    Items,          \* those that are items; the others are containers
    Spare,          \* objects that may be created in the container
    Content,        \* the properties of each object, a function on their keys
    Rank,           \* the order of their display names
    Matching,       \* objects a search finds
    Start,          \* the container's children at first
    Width,          \* range of the numbers of a D-Bus call, 2^32 in the program; no container
                    \* has that many children
    EnqueueLimit,   \* items enqueueUri looks at, 100 in the program
    PlaylistLimit,  \* items openPlaylist takes, 100000 in the program
    Counts,         \* page sizes clients ask for
    Filters,        \* filters clients ask for
    MaxQueue,       \* bound: entries of the play queue
    MaxChanges      \* bound: changes made by others

ASSUME LibraryAssumption ==
    /\ IsFiniteSet(Objects) /\ Items \cup Spare \cup Matching \subseteq Objects
    /\ Rank \in [Objects -> Int] /\ IsInjective(Rank)
    /\ Start \in Seq(Objects) /\ IsInjective(Start)
    /\ Width \in Nat /\ Width > Cardinality(Objects) /\ {EnqueueLimit, PlaylistLimit} \subseteq Nat
    /\ Counts \subseteq Nat \ {0} /\ MaxQueue \in Nat /\ MaxChanges \in Nat

\* Every object has its path, none a property URI; a property is no variant in
\* the one it is sent in, nor a variant in a list another one; and a resource's
\* URL, if it is a string, is one of Urls.
ASSUME ContentAssumption ==
    /\ DOMAIN Content = Objects
    /\ \A o \in Objects :
          /\ "Path" \in DOMAIN Content[o] /\ Content[o].Path = GVariant("object path", o)
          /\ "URI" \notin DOMAIN Content[o]
          /\ \A key \in DOMAIN Content[o] :
                LET list == Content[o][key].value
                IN  /\ Content[o][key].type # "variant"
                    /\ Content[o][key].type = "array" =>
                          /\ DOMAIN list = 1 .. Len(list) /\ Len(list) \in Nat
                          /\ \A i \in DOMAIN list :
                                list[i].type = "variant" => list[i].value.type # "variant"
          /\ URLs([key \in DOMAIN Content[o] |-> ValueToJSON(Content[o][key])])
                \in Seq(Urls \cup {NoUrl})

VARIABLES
    children,       \* the container's children
    changes,        \* made by others so far
    walk,           \* a client's walk through a listing
    playqueue       \* JSON objects

vars == <<children, changes, walk, playqueue>>

Operations == {"containers", "children", "items", "search"}
Orders == {"ASCENDING", "DESCENDING", "unsorted"}

\* got: what the pages brought; over: the client saw a short page; unchanged,
\* answered (history): the container stayed the same, no call failed.
NoWalk == [op |-> "children", order |-> "unsorted", count |-> 1, filter |-> {},
           got |-> <<>>, over |-> TRUE, unchanged |-> TRUE, answered |-> FALSE]

Init ==
    /\ children = Start /\ changes = 0
    /\ walk = NoWalk /\ playqueue = <<>>

-------------------------------------------------------------------------------
(* The server. *)

Kinds == [containers |-> Objects \ Items, items |-> Items, search |-> Matching,
          children |-> Objects]

Selected(op) == Range(children) \cap Kinds[op]

Place(list, o) == CHOOSE i \in DOMAIN list : list[i] = o

Sorted(list, sortKey) ==
    InOrder(list, [o \in list |->
        CASE sortKey = "+DisplayName" -> Rank[o]
          [] sortKey = "-DisplayName" -> -Rank[o]
          [] sortKey = ""             -> Place(children, o)])

\* At most max entries from offset on; max 0 is no limit.
Section(list, offset, max) ==
    SubSeq(list, offset + 1,
           IF max = 0 \/ offset + max > Len(list) THEN Len(list) ELSE offset + max)

Asked(o, filter) == IF "*" \in filter THEN DOMAIN Content[o] ELSE DOMAIN Content[o] \cap filter

\* The properties asked for, each in a variant.
Properties(o, filter) ==
    GVariant("dictionary",
             [key \in Asked(o, filter) |-> GVariant("variant", Content[o][key])])

AsUint32(x) == x % Width

\* A call on the container; the numbers are cut to the width of the message.
ServerList(op, offset, count, filter, sortKey) ==
    LET section == Section(Sorted(Selected(op), sortKey), AsUint32(offset), AsUint32(count))
    IN  GVariant("array", [i \in DOMAIN section |-> Properties(section[i], filter)])

-------------------------------------------------------------------------------
(* BrowserProvider. *)

\* Mutant: the offset counts pages.
listChildrenGeneralByPage(offset, count, filter, sortKey) ==
    postProcessJSON(DLNADictToJSON(
        ServerList("children", offset \div count, count, filter, sortKey)).value)

listContainersGeneral(offset, count, filter, sortKey) ==
    DLNADictToJSON(ServerList("containers", offset, count, filter, sortKey)).value
listChildrenGeneral(offset, count, filter, sortKey) ==
    postProcessJSON(DLNADictToJSON(ServerList("children", offset, count, filter, sortKey)).value)
listItemsGeneral(offset, count, filter, sortKey) ==
    postProcessJSON(DLNADictToJSON(ServerList("items", offset, count, filter, sortKey)).value)
searchObjectsGeneral(offset, count, filter, sortKey) ==
    postProcessJSON(DLNADictToJSON(ServerList("search", offset, count, filter, sortKey)).value)

(* BrowserStubImpl. *)

m_generalFilter == {
    "Path", "Parent", "Type", "TypeEx", "DisplayName", "ChildCount", "Artists", "Artist",
    "Searchable", "MIMEType", "Album", "URI", "Genre", "Size", "TrackNumber", "Bitrate",
    "SampleRate", "Duration", "AlbumArtURL"}

\* Mutant: the order is the wrong way round.
sortKeyToStringReversed(order) ==
    CASE order = "ASCENDING" -> "-DisplayName" [] order = "DESCENDING" -> "+DisplayName"
      [] order = "unsorted"  -> ""
sortKeyToString(order) ==
    CASE order = "ASCENDING" -> "+DisplayName" [] order = "DESCENDING" -> "-DisplayName"
      [] order = "unsorted"  -> ""

\* The reply of searchObjects and, with an order, of searchObjectsEx.
searchObjects(offset, count, filter, order) ==
    resultMapListToCAPIResultMapList(
        searchObjectsGeneral(offset, count, filter, sortKeyToString(order)), m_generalFilter)

\* The reply of listContainers, listChildren, listItems and, with an order, of
\* the same with Ex.
listReply(op, offset, count, filter, order) ==
    LET sortKey == sortKeyToString(order)
        found == CASE op = "containers" -> listContainersGeneral(offset, count, filter, sortKey)
                   [] op = "children"   -> listChildrenGeneral(offset, count, filter, sortKey)
                   [] op = "items"      -> listItemsGeneral(offset, count, filter, sortKey)
    IN  resultMapListToCAPIResultMapList(found, m_generalFilter)

Reply(op, offset, count, filter, order) ==
    IF op = "search" THEN searchObjects(offset, count, filter, order)
    ELSE listReply(op, offset, count, filter, order)

StartWalk ==
    /\ walk = NoWalk
    /\ \E op \in Operations, order \in Orders, count \in Counts, filter \in Filters :
          walk' = [op |-> op, order |-> order, count |-> count, filter |-> filter,
                   got |-> <<>>, over |-> FALSE, unchanged |-> TRUE, answered |-> TRUE]
    /\ UNCHANGED <<children, changes, playqueue>>

EndWalk ==
    /\ walk.over /\ walk' = NoWalk
    /\ UNCHANGED <<children, changes, playqueue>>

\* The client appends a page; one that is shorter than what it asked for it
\* takes for the last.
TakePage(page, answered) ==
    walk' = [walk EXCEPT !.got = @ \o page, !.over = Len(page) < walk.count,
                         !.answered = @ /\ answered]

NextPage ==
    /\ ~walk.over
    /\ TakePage(Reply(walk.op, Len(walk.got), walk.count, walk.filter, walk.order), TRUE)
    /\ UNCHANGED <<children, changes, playqueue>>

\* The path is invalid, or there is no proxy or no answer: the list stays the
\* empty one that the stub made.
PageFails ==
    /\ ~walk.over /\ TakePage(<<>>, FALSE)
    /\ UNCHANGED <<children, changes, playqueue>>

-------------------------------------------------------------------------------
(* Changes of the container. *)

ContentChanges(list) ==
    children' = list /\ walk' = IF walk = NoWalk THEN walk ELSE [walk EXCEPT !.unchanged = FALSE]

New(o) == o \in Spare /\ o \notin Range(children)

\* Done and answered, done with the answer lost, or not done.
createContainer(o) ==
    /\ New(o) /\ o \notin Items
    /\ ContentChanges(Append(children, o)) \/ UNCHANGED <<children, walk>>
    /\ UNCHANGED <<changes, playqueue>>

\* The same for a reference to an item, whose path is dropped.
createReference(o) ==
    /\ New(o) /\ o \in Items
    /\ ContentChanges(Append(children, o)) \/ UNCHANGED <<children, walk>>
    /\ UNCHANGED <<changes, playqueue>>

\* Others add at the front, and remove.
OthersChange ==
    /\ changes < MaxChanges /\ changes' = changes + 1
    /\ \/ \E o \in Spare : New(o) /\ ContentChanges(<<o>> \o children)
       \/ \E i \in DOMAIN children : ContentChanges(RemoveAt(children, i))
    /\ UNCHANGED playqueue

-------------------------------------------------------------------------------
(* PlayerProvider. *)

\* Mutant: all children are listed.
ListedChildren(count) == DLNADictToJSON(ServerList("children", 0, count, {"*"}, "")).value
\* Items as openPlaylist and enqueueUri get them: all their properties.
ListedItems(count) == DLNADictToJSON(ServerList("items", 0, count, {"*"}, "")).value

\* The items of the object's parent are searched for its path.
enqueueUri(o) ==
    /\ Len(playqueue) < MaxQueue /\ o \in Range(children)
    /\ LET listed == ListedItems(EnqueueLimit)
       IN  playqueue' = playqueue \o
              Kept(listed, {i \in DOMAIN listed : listed[i].value.Path.value = o})
    /\ UNCHANGED <<children, changes, walk>>

\* The container's items become the queue, as many of them as are asked for.
openPlaylist ==
    /\ Len(ListedItems(PlaylistLimit)) <= MaxQueue
    /\ playqueue' = ListedItems(PlaylistLimit)
    /\ UNCHANGED <<children, changes, walk>>

dequeueAll ==
    /\ playqueue' = <<>> /\ UNCHANGED <<children, changes, walk>>

\* The copy is a shallow one: the post-processing changes the queue's items.
getCurrentPlayQueue ==
    /\ playqueue' = postProcessJSON(playqueue)
    /\ UNCHANGED <<children, changes, walk>>

\* What that call answers, if made now.
QueueReply(queue) == resultMapListToCAPIResultMapList(postProcessJSON(queue), m_generalFilter)

\* What the renderer would be asked to open for an entry.
Opened(item) == getLocalURL(URLs(item.value))

Next ==
    \/ StartWalk \/ NextPage \/ PageFails \/ EndWalk
    \/ \E o \in Spare : createContainer(o) \/ createReference(o)
    \/ OthersChange
    \/ \E o \in Objects : enqueueUri(o)
    \/ openPlaylist \/ dequeueAll \/ getCurrentPlayQueue

Spec == Init /\ [][Next]_vars

-------------------------------------------------------------------------------
\* The children are distinct objects; the queue holds known items.
TypeOK ==
    /\ Range(children) \subseteq Objects /\ IsInjective(children) /\ changes \in 0 .. MaxChanges
    /\ walk.op \in Operations /\ walk.order \in Orders
    /\ Len(playqueue) <= MaxQueue
    /\ \A i \in DOMAIN playqueue : playqueue[i].value.Path.value \in Items

\* The client can tell the entries apart.
PathsAsked == {"*", "Path"} \cap walk.filter # {}

\* What a client asked for, in the order it asked for.
Wanted ==
    InOrder(Selected(walk.op), [o \in Selected(walk.op) |->
        CASE walk.order = "ASCENDING"  -> Rank[o]
          [] walk.order = "DESCENDING" -> -Rank[o]
          [] walk.order = "unsorted"   -> Place(children, o)])

\* Pages fit together: as long as the container stays the same, whatever calls
\* fail and however large the page, they are the beginning of the listing
\* without a gap or a repetition.  A walk in which no call failed ends with the
\* whole of it, unless its page size is cut to the 32 bits of the call
\* (browserprovider.cpp:36-44, browserstub.cpp:60-75).
PagesAreListing ==
    walk.unchanged /\ PathsAsked =>
        LET paths == [i \in DOMAIN walk.got |-> walk.got[i].Path.value]
        IN  /\ IsPrefix(paths, Wanted)
            /\ walk.over /\ walk.answered /\ walk.count <= Width => paths = Wanted

\* What a member of a list is outside of its variant; those that come out as a
\* string, and which.
Plain(member) == IF member.type = "variant" THEN member.value ELSE member
Dropped == Integral \cup {"boolean", "array", "dictionary"}
Told(element) ==
    IF element.type \in {"string", "object path"} THEN element.value
    ELSE "UNKNOWN: " \o element.type

\* What arrives of a value, for every type: strings, booleans and the integers
\* below the half of a 64-bit one as they are, larger ones as negative; of a list
\* the strings, in its order; of a dictionary nothing; and of any other type, a
\* real number too, which the union could carry, its name only.
Conveyed(property, union) ==
    CASE property.type = "boolean"    -> union = JSON("boolean", property.value)
      [] property.type \in Integral   ->
            union = JSON("integer", IF property.value < LongHalf THEN property.value
                                    ELSE property.value - 2 * LongHalf)
      [] property.type = "dictionary" -> union.kind = "empty"
      [] property.type = "array"      ->
            LET list == property.value
                told == Kept(list, {i \in DOMAIN list : Plain(list[i]).type \notin Dropped})
            IN  union = JSON("strings", [n \in DOMAIN told |-> Told(Plain(told[n]))])
      [] OTHER                        -> union = JSON("string", Told(property))

\* A reply has the properties a client asked for and no other but the URI, each
\* with what Conveyed says arrives of the server's value; neither the order, the
\* page nor the choice of the URI disturbs them (common.cpp:22-73, 131-187).
ReplyIsTrue ==
    PathsAsked => \A i \in DOMAIN walk.got :
        LET entry == walk.got[i]
            o == entry.Path.value
            property == Content[o]
        IN  /\ DOMAIN entry \ {"URI"} = Asked(o, walk.filter) \cap m_generalFilter
            /\ \A key \in DOMAIN entry \ {"URI"} : Conveyed(property[key], entry[key])

ShownOf(entry) == IF "URI" \in DOMAIN entry THEN entry.URI.value ELSE NoUrl

\* The reply has looked at the resources.
ResourcesAsked == {"*", "Resources"} \cap walk.filter # {} /\ walk.op # "containers"

\* The URI clients are shown, for an entry of the queue and wherever they browse,
\* is Consistent with the one the renderer is asked to open: the same, but for
\* the cases named there, in which common.cpp:92-116 and playerprovider.cpp:372-391
\* search differently; and what is shown no URI is not opened.
ShownIsOpened ==
    /\ \A i \in DOMAIN playqueue :
          Consistent(URLs(playqueue[i].value), ShownOf(QueueReply(playqueue)[i]),
                     Opened(playqueue[i]))
    /\ \A i \in DOMAIN walk.got :
          "Path" \in DOMAIN walk.got[i] /\ ("URI" \in DOMAIN walk.got[i] \/ ResourcesAsked) =>
              LET item == ObjectToJSON(Properties(walk.got[i].Path.value, {"*"}))
              IN  Consistent(URLs(item.value), ShownOf(walk.got[i]), Opened(item))

\* Showing the queue, which changes its items, changes neither what is opened
\* for them nor what the next client is shown (playerprovider.cpp:583-585).
ViewChangesNothing ==
    [][getCurrentPlayQueue =>
          /\ \A i \in DOMAIN playqueue : Opened(playqueue'[i]) = Opened(playqueue[i])
          /\ QueueReply(playqueue') = QueueReply(playqueue)]_vars
===============================================================================
