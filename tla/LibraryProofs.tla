----------------------------- MODULE LibraryProofs -----------------------------
(***************************************************************************)
(* Proofs about Library and the conversions, for every container, content, *)
(* page size and number width: pages fit together, replies carry the       *)
(* server's values, and the URI clients are shown is the one opened.       *)
(***************************************************************************)
EXTENDS Library, FiniteSetTheorems, WellFoundedInduction, TLAPS

-------------------------------------------------------------------------------
(* The choice of a URL. *)

UrlLists == Seq(Urls \cup {NoUrl})

\* A set of positions that is not empty has a lowest one.
LEMMA LowestExists ==
    ASSUME NEW S \in SUBSET Nat, S # {}
    PROVE  Lowest(S) \in S /\ \A j \in S : Lowest(S) <= j
<1>1. PICK x \in S : \A y \in S : ~ (<<y, x>> \in OpToRel(<, Nat))
    <2>1. S \subseteq Nat
        OBVIOUS
    <2> QED BY <2>1, NatLessThanWellFounded, WFMin
<1>2. \A y \in S : ~ (y < x)
    BY <1>1 DEF OpToRel
<1>3. \A y \in S : x <= y
    BY <1>2
<1> QED BY <1>3 DEF Lowest

\* A bounded one also has a highest.
LEMMA HighestExists ==
    ASSUME NEW n \in Nat, NEW S \in SUBSET (1 .. n), S # {}
    PROVE  Highest(S) \in S
<1> DEFINE T == {n - i : i \in S}
<1>1. T \in SUBSET Nat /\ T # {}
    OBVIOUS
<1>2. PICK i \in S : Lowest(T) = n - i
    BY <1>1, LowestExists
<1>3. \A j \in S : n - i <= n - j
    BY <1>1, <1>2, LowestExists
<1>4. \A j \in S : i >= j
    BY <1>3
<1> QED BY <1>2, <1>4 DEF Highest

\* What is opened is a URL of the item that begins with file://.
LEMMA OpenedIsLocal ==
    ASSUME NEW urls \in UrlLists, getLocalURL(urls) # NoUrl
    PROVE  \E i \in DOMAIN urls : urls[i] = getLocalURL(urls) /\ urls[i] \in LocalUrls
<1> USE ResourcesAssumption
<1> DEFINE stops == {i \in DOMAIN urls : urls[i] \in LocalUrls \cup {NoUrl}}
<1>1. stops # {} /\ getLocalURL(urls) = urls[Lowest(stops)]
    BY DEF getLocalURL
<1>2. stops \in SUBSET Nat
    BY DEF UrlLists
<1>3. Lowest(stops) \in stops
    BY <1>1, <1>2, LowestExists
<1> QED BY <1>1, <1>3

\* What is shown is a URL of the item, of a resource that has one; nothing is
\* shown only if no resource has one.
THEOREM ShownIsListed ==
    ASSUME NEW urls \in UrlLists
    PROVE  IF \E i \in DOMAIN urls : urls[i] # NoUrl
           THEN \E i \in DOMAIN urls : urls[i] = shownURI(urls) /\ urls[i] \in Urls
           ELSE shownURI(urls) = NoUrl
<1> USE ResourcesAssumption
<1> DEFINE strings == {i \in DOMAIN urls : urls[i] \in Urls}
           naming  == {i \in DOMAIN urls : urls[i] \in NamingUrls}
<1>1. /\ DOMAIN urls = 1 .. Len(urls) /\ Len(urls) \in Nat
      /\ \A i \in DOMAIN urls : urls[i] \in Urls \cup {NoUrl}
    BY DEF UrlLists
<1>2. naming \subseteq strings /\ strings \in SUBSET (1 .. Len(urls)) /\ naming \in SUBSET Nat
    BY <1>1
<1>3. CASE naming # {}
    <2>1. Lowest(naming) \in naming
        BY <1>2, <1>3, LowestExists
    <2>2. shownURI(urls) = urls[Lowest(naming)]
        BY <1>3 DEF shownURI
    <2> QED BY <1>1, <2>1, <2>2
<1>4. CASE naming = {} /\ strings # {}
    <2>1. Highest(strings) \in strings
        BY <1>1, <1>2, <1>4, HighestExists
    <2>2. shownURI(urls) = urls[Highest(strings)]
        BY <1>4 DEF shownURI
    <2> QED BY <1>1, <2>1, <2>2
<1>5. CASE strings = {}
    <2>1. shownURI(urls) = NoUrl /\ \A i \in DOMAIN urls : urls[i] = NoUrl
        BY <1>1, <1>2, <1>5 DEF shownURI
    <2> QED BY <2>1
<1> QED BY <1>2, <1>3, <1>4, <1>5

\* What clients are shown and what the renderer opens are consistent, however
\* many resources of whatever order the item has: the same local URL, unless a
\* resource without a URL comes first, and none opened where none is shown.
THEOREM ChoicesConsistent ==
    ASSUME NEW urls \in UrlLists
    PROVE  Consistent(urls, shownURI(urls), getLocalURL(urls))
<1> USE ResourcesAssumption
<1> DEFINE stops  == {i \in DOMAIN urls : urls[i] \in LocalUrls \cup {NoUrl}}
           naming == {i \in DOMAIN urls : urls[i] \in NamingUrls}
           strings == {i \in DOMAIN urls : urls[i] \in Urls}
           gaps   == {i \in DOMAIN urls : urls[i] = NoUrl}
           locals == {i \in DOMAIN urls : urls[i] \in LocalUrls}
           hidden == \E gap \in gaps : \A i \in locals : gap < i
           shown  == shownURI(urls)
           opened == getLocalURL(urls)
<1>1. stops \in SUBSET Nat /\ naming \in SUBSET Nat /\ gaps \in SUBSET Nat
      /\ locals \in SUBSET Nat /\ strings \in SUBSET (1 .. Len(urls)) /\ Len(urls) \in Nat
    BY DEF UrlLists
<1>2. ASSUME stops # {}
      PROVE  /\ opened = urls[Lowest(stops)] /\ Lowest(stops) \in stops
             /\ \A j \in stops : Lowest(stops) <= j
    BY <1>1, <1>2, LowestExists DEF getLocalURL
<1>3. ASSUME naming # {}
      PROVE  /\ shown = urls[Lowest(naming)] /\ Lowest(naming) \in naming
             /\ \A j \in naming : Lowest(naming) <= j
    BY <1>1, <1>3, LowestExists DEF shownURI
<1>4. stops = {} => opened = NoUrl
    BY DEF getLocalURL
<1>5. naming = {} => shown \notin NamingUrls
    <2>1. CASE naming = {} /\ strings # {}
        <3>1. shown = urls[Highest(strings)] /\ Highest(strings) \in strings
            BY <1>1, <2>1, HighestExists DEF shownURI
        <3> QED BY <2>1, <3>1
    <2>2. CASE naming = {} /\ strings = {}
        BY <2>2 DEF shownURI
    <2> QED BY <2>1, <2>2
<1>6. opened = NoUrl \/ opened \in LocalUrls
    BY <1>2, <1>4
<1>7. stops = gaps \cup locals /\ locals \subseteq naming
    OBVIOUS
<1>8. shown \notin NamingUrls => opened = NoUrl
    <2>1. ASSUME shown \notin NamingUrls PROVE naming = {}
        BY <1>3, <2>1
    <2>2. ASSUME naming = {} PROVE opened = NoUrl
        <3>1. stops = gaps
            BY <1>7, <2>2
        <3> QED BY <1>2, <1>4, <3>1
    <2> QED BY <2>1, <2>2
<1>9. ASSUME shown \in LocalUrls PROVE opened = IF hidden THEN NoUrl ELSE shown
    <2> DEFINE first == Lowest(naming)
               stop  == Lowest(stops)
    <2>1. /\ naming # {} /\ first \in locals /\ shown = urls[first] /\ first \in Nat
          /\ \A j \in locals : first <= j
        BY <1>1, <1>3, <1>5, <1>7, <1>9
    <2>2. /\ stops # {} /\ stop \in stops /\ stop \in Nat /\ opened = urls[stop]
          /\ \A j \in stops : stop <= j
        BY <1>1, <1>2, <1>7, <2>1
    <2> HIDE DEF first, stop, shown, opened
    <2>3. CASE hidden
        <3>1. PICK gap \in gaps : \A i \in locals : gap < i
            BY <2>3
        <3>2. stop <= gap /\ gap \in Nat
            BY <1>1, <1>7, <2>2, <3>1
        <3>3. \A i \in locals : i \in Nat /\ gap < i
            BY <1>1, <3>1
        <3>4. stop \notin locals
            BY <2>2, <3>2, <3>3
        <3> QED BY <1>7, <2>2, <2>3, <3>4
    <2>4. CASE ~ hidden
        <3>1. stop \notin gaps
            <4>1. ASSUME stop \in gaps PROVE FALSE
                <5>1. PICK i \in locals : ~ (stop < i)
                    BY <2>4, <4>1
                <5>2. i \in Nat /\ stop <= i
                    BY <1>1, <1>7, <2>2, <5>1
                <5>3. i = stop
                    BY <2>2, <5>1, <5>2
                <5> QED BY <4>1, <5>1, <5>3
            <4> QED BY <4>1
        <3>2. stop \in locals
            BY <1>7, <2>2, <3>1
        <3>3. first <= stop /\ stop <= first
            BY <1>7, <2>1, <2>2, <3>2
        <3>4. first = stop
            BY <2>1, <2>2, <3>3
        <3> QED BY <2>1, <2>2, <2>4, <3>4
    <2> QED BY <2>3, <2>4
<1>10. ASSUME shown \in NamingUrls \ LocalUrls PROVE opened # shown
    BY <1>6, <1>10
<1> HIDE DEF shown, opened
<1>11. hidden = \E gap \in gaps : \A i \in locals : gap < i
    OBVIOUS
<1> HIDE DEF hidden
<1>12. /\ shown \in LocalUrls => opened = IF hidden THEN NoUrl ELSE shown
       /\ shown \in NamingUrls \ LocalUrls => opened # shown
       /\ shown \notin NamingUrls => opened = NoUrl
    BY <1>8, <1>9, <1>10
<1> QED BY <1>12 DEF Consistent, shown, opened, hidden

-------------------------------------------------------------------------------
(* Orders. *)

\* The sequence has each element of the set once, and nothing else.
Lists(s, S) ==
    /\ s \in Seq(S) /\ Len(s) = Cardinality(S) /\ DOMAIN s = 1 .. Cardinality(S)
    /\ \A i \in DOMAIN s : s[i] \in S
    /\ IsInjective(s) /\ \A x \in S : \E i \in DOMAIN s : s[i] = x

\* Listing a finite set gives each of its elements once.
LEMMA ListedOnce ==
    ASSUME NEW S, IsFiniteSet(S), NEW s \in SetToSeqs(S)
    PROVE  Lists(s, S)
<1> DEFINE D == 1 .. Cardinality(S)
<1>1. Cardinality(S) \in Nat
    BY FS_CardinalityType
<1>2. s \in [D -> S] /\ \A i, j \in D : i # j => s[i] # s[j]
    BY DEF SetToSeqs
<1>3. s \in Seq(S) /\ Len(s) = Cardinality(S) /\ DOMAIN s = D
    BY <1>1, <1>2
<1>4. IsInjective(s) /\ s \in Injection(D, S)
    BY <1>2 DEF IsInjective, Injection
<1>5. Cardinality(D) = Cardinality(S)
    BY <1>1, FS_Interval
<1>6. s \in Surjection(D, S)
    BY <1>4, <1>5, FS_Injection
<1> QED BY <1>2, <1>3, <1>4, <1>6 DEF Surjection, Lists

\* A set whose elements have different keys can be listed in their order, in
\* one way.
LEMMA InOrderCorrect ==
    ASSUME NEW S, IsFiniteSet(S), NEW key, \A x \in S : key[x] \in Int,
           \A x, y \in S : key[x] = key[y] => x = y
    PROVE  Lists(InOrder(S, key), S)
<1> DEFINE n == Cardinality(S)
           below(x) == {y \in S : key[y] <= key[x]}
           rank == [x \in S |-> Cardinality(below(x))]
<1>1. n \in Nat
    BY FS_CardinalityType
<1>2. ASSUME NEW x \in S
      PROVE  IsFiniteSet(below(x)) /\ rank[x] \in 1 .. n
    <2>1. IsFiniteSet(below(x)) /\ Cardinality(below(x)) <= n /\ Cardinality(below(x)) \in Nat
        BY FS_Subset, FS_CardinalityType
    <2>2. below(x) # {}
        OBVIOUS
    <2>3. Cardinality(below(x)) # 0
        BY <2>1, <2>2, FS_EmptySet
    <2> QED BY <1>1, <2>1, <2>3
<1>3. ASSUME NEW x \in S, NEW y \in S, key[x] < key[y]
      PROVE  rank[x] < rank[y]
    <2>1. below(x) \subseteq below(y) /\ y \in below(y) /\ y \notin below(x)
        BY <1>3
    <2>2. below(x) # below(y)
        BY <2>1
    <2>3. Cardinality(below(x)) < Cardinality(below(y))
        BY <1>2, <2>1, <2>2, FS_Subset, FS_CardinalityType
    <2> QED BY <2>3
<1> DEFINE within == 1 .. n
<1>4. \A x \in S : rank[x] \in within
    BY <1>2
<1>5. within \subseteq Int
    BY <1>1
<1> HIDE DEF rank, within
<1>6. \A x, y \in S : rank[x] = rank[y] => x = y
    <2> SUFFICES ASSUME NEW x \in S, NEW y \in S, rank[x] = rank[y] PROVE key[x] = key[y]
        OBVIOUS
    <2>1. rank[x] \in Int /\ rank[y] \in Int
        BY <1>4, <1>5
    <2>2. ~ (key[x] < key[y])
        BY <1>3, <2>1
    <2>3. ~ (key[y] < key[x])
        BY <1>3, <2>1
    <2> QED BY <2>2, <2>3
<1>7. rank \in [S -> 1 .. n]
    BY <1>2 DEF rank
<1>8. IsFiniteSet(1 .. n) /\ Cardinality(1 .. n) = n
    BY <1>1, FS_Interval
<1>9. rank \in Surjection(S, 1 .. n)
    <2>1. rank \in Injection(S, 1 .. n)
        BY <1>6, <1>7 DEF Injection, IsInjective
    <2> QED BY <1>8, <2>1, FS_Injection
<1> DEFINE t == [i \in 1 .. n |-> CHOOSE x \in S : rank[x] = i]
<1>10. ASSUME NEW i \in 1 .. n PROVE t[i] \in S /\ rank[t[i]] = i
    BY <1>9 DEF Surjection
<1> HIDE DEF t
<1>11. t \in [1 .. n -> S]
    BY <1>10 DEF t
<1>12. t \in SetToSeqs(S)
    BY <1>10, <1>11 DEF SetToSeqs
<1>13. ASSUME NEW i \in 1 .. n, NEW j \in 1 .. n, i < j PROVE key[t[i]] < key[t[j]]
    <2>1. rank[t[i]] < rank[t[j]] /\ t[i] \in S /\ t[j] \in S
        BY <1>10, <1>13
    <2>2. ~ (key[t[j]] < key[t[i]]) /\ t[i] # t[j]
        BY <1>3, <1>7, <2>1
    <2> QED BY <2>1, <2>2
<1>14. DOMAIN t = 1 .. n
    BY <1>11
<1>15. \E s \in SetToSeqs(S) : \A i, j \in DOMAIN s : i < j => key[s[i]] < key[s[j]]
    BY <1>12, <1>13, <1>14
<1>16. InOrder(S, key) \in SetToSeqs(S)
    BY <1>15 DEF InOrder
<1> QED BY <1>16, ListedOnce

-------------------------------------------------------------------------------
(* Conversions. *)

\* What is kept of a list: entries of the places asked for, each of them, and
\* no more than places.
LEMMA KeptCorrect ==
    ASSUME NEW list, NEW n \in Nat, DOMAIN list = 1 .. n, NEW places \in SUBSET (1 .. n)
    PROVE  /\ Cardinality(places) \in Nat
           /\ DOMAIN Kept(list, places) = 1 .. Cardinality(places)
           /\ \A i \in DOMAIN Kept(list, places) : \E p \in places : Kept(list, places)[i] = list[p]
           /\ \A p \in places : \E i \in DOMAIN Kept(list, places) : Kept(list, places)[i] = list[p]
<1> DEFINE key == [i \in DOMAIN list |-> i]
           order == InOrder(places, key)
<1>1. IsFiniteSet(places)
    <2>1. IsFiniteSet(1 .. n)
        BY FS_Interval
    <2> QED BY <2>1, FS_Subset
<1>2. /\ \A x \in places : key[x] \in Int
      /\ \A x, y \in places : key[x] = key[y] => x = y
    OBVIOUS
<1> HIDE DEF key
<1>3. Lists(order, places)
    BY <1>1, <1>2, InOrderCorrect
<1>4. /\ DOMAIN order = 1 .. Cardinality(places)
      /\ \A i \in DOMAIN order : order[i] \in places
      /\ \A x \in places : \E i \in DOMAIN order : order[i] = x
    BY <1>3 DEF Lists
<1>5. Cardinality(places) \in Nat
    BY <1>1, FS_CardinalityType
<1>6. Kept(list, places) = [i \in DOMAIN order |-> list[order[i]]]
    BY DEF Kept, key
<1> DEFINE kept == Kept(list, places)
<1> HIDE DEF order, kept
<1>7. DOMAIN kept = DOMAIN order /\ \A i \in DOMAIN order : kept[i] = list[order[i]]
    BY <1>6 DEF kept
<1>8. \A i \in DOMAIN kept : \E p \in places : kept[i] = list[p]
    BY <1>4, <1>7
<1>9. \A p \in places : \E i \in DOMAIN kept : kept[i] = list[p]
    BY <1>4, <1>7
<1> QED BY <1>4, <1>5, <1>7, <1>8, <1>9 DEF kept

\* What is kept of two lists at the same places comes from the same places.
LEMMA KeptAlike ==
    ASSUME NEW list, NEW other, NEW n \in Nat, DOMAIN list = 1 .. n, DOMAIN other = 1 .. n,
           NEW places \in SUBSET (1 .. n)
    PROVE  /\ DOMAIN Kept(list, places) = DOMAIN Kept(other, places)
           /\ \A i \in DOMAIN Kept(list, places) : \E p \in places :
                  Kept(list, places)[i] = list[p] /\ Kept(other, places)[i] = other[p]
<1> DEFINE key == [i \in 1 .. n |-> i]
           order == InOrder(places, key)
<1>1. IsFiniteSet(places)
    <2>1. IsFiniteSet(1 .. n)
        BY FS_Interval
    <2> QED BY <2>1, FS_Subset
<1>2. /\ \A x \in places : key[x] \in Int
      /\ \A x, y \in places : key[x] = key[y] => x = y
    OBVIOUS
<1> HIDE DEF key
<1>3. Lists(order, places)
    BY <1>1, <1>2, InOrderCorrect
<1>4. \A i \in DOMAIN order : order[i] \in places
    BY <1>3 DEF Lists
<1>5. /\ Kept(list, places) = [i \in DOMAIN order |-> list[order[i]]]
      /\ Kept(other, places) = [i \in DOMAIN order |-> other[order[i]]]
    BY DEF Kept, key
<1> HIDE DEF order
<1> QED BY <1>4, <1>5

\* The properties of an object as JSON.
Fields(o, keys) == [key \in keys |-> ValueToJSON(Content[o][key])]

\* An object converted, and a list of them.
LEMMA ObjectConverted ==
    ASSUME NEW o, NEW filter
    PROVE  ObjectToJSON(Properties(o, filter)) = JSON("object", Fields(o, Asked(o, filter)))
<1> DEFINE asked == Asked(o, filter)
           element == Properties(o, filter)
<1>1. /\ element.type = "dictionary" /\ DOMAIN element.value = asked
      /\ \A key \in asked : element.value[key] = GVariant("variant", Content[o][key])
    BY DEF Properties, GVariant
<1>2. ASSUME NEW key \in asked
      PROVE  PropertyToJSON(element.value[key]) = ValueToJSON(Content[o][key])
    <2> DEFINE e == GVariant("variant", Content[o][key])
    <2>1. e.type = "variant" /\ e.value = Content[o][key]
        BY DEF GVariant
    <2> HIDE DEF e
    <2>2. PropertyToJSON(e) = ValueToJSON(e.value)
        BY <2>1 DEF PropertyToJSON, Converted
    <2>3. element.value[key] = e
        BY <1>1 DEF e
    <2> QED BY <2>1, <2>2, <2>3
<1>3. ObjectToJSON(element) =
          JSON("object", [key \in DOMAIN element.value |-> PropertyToJSON(element.value[key])])
    BY <1>1 DEF ObjectToJSON, Converted
<1>4. [key \in DOMAIN element.value |-> PropertyToJSON(element.value[key])] = Fields(o, asked)
    BY <1>1, <1>2 DEF Fields
<1> QED BY <1>3, <1>4

\* An array is converted entry by entry.
LEMMA ArrayConverted ==
    ASSUME NEW list
    PROVE  DLNADictToJSON(GVariant("array", list)).value =
               [i \in DOMAIN list |-> ObjectToJSON(list[i])]
<1>1. DLNADictToJSON(GVariant("array", list)) =
          JSON("array", [i \in DOMAIN list |-> ObjectToJSON(list[i])])
    BY DEF DLNADictToJSON, Converted, GVariant
<1> QED BY <1>1 DEF JSON

\* A value that is in no other.
LEMMA ScalarConverted ==
    ASSUME NEW element
    PROVE  /\ element.type \notin Dropped \cup {"variant"} =>
                  Scalar(element) = JSON("string", Told(element))
           /\ element.type = "boolean" => Scalar(element) = JSON("boolean", element.value)
           /\ element.type \in Integral =>
                  Scalar(element) = JSON("integer", AsInteger(element.value))
    BY DEF Scalar, Integral, Dropped, Told

\* A member of a list or a value on its own, unless it is in a variant: a string,
\* or of a kind that a list of strings drops.
LEMMA PlainConverted ==
    ASSUME NEW element, element.type # "variant"
    PROVE  /\ element.type \notin Dropped =>
                  /\ FieldToJSON(element) = JSON("string", Told(element))
                  /\ MemberToJSON(element) = JSON("string", Told(element))
                  /\ ValueToJSON(element) = JSON("string", Told(element))
           /\ element.type \in Dropped =>
                  FieldToJSON(element).kind # "string" /\ MemberToJSON(element).kind # "string"
<1>1. CASE element.type \notin Dropped
    <2>1. Scalar(element) = JSON("string", Told(element))
        BY <1>1, ScalarConverted
    <2>2. /\ FieldToJSON(element) = Scalar(element) /\ MemberToJSON(element) = Scalar(element)
          /\ ValueToJSON(element) = Scalar(element)
        BY <1>1 DEF FieldToJSON, MemberToJSON, ValueToJSON, Converted, Dropped
    <2> QED BY <1>1, <2>1, <2>2
<1>2. CASE element.type = "boolean" \/ element.type \in Integral
    <2>1. Scalar(element).kind # "string"
        BY <1>2, ScalarConverted DEF JSON
    <2>2. FieldToJSON(element) = Scalar(element) /\ MemberToJSON(element) = Scalar(element)
        BY <1>2 DEF FieldToJSON, MemberToJSON, Converted, Integral
    <2> QED BY <1>2, <2>1, <2>2 DEF Dropped
<1>3. CASE element.type = "array" \/ element.type = "dictionary"
    BY <1>3 DEF FieldToJSON, MemberToJSON, Converted, JSON, Dropped
<1> QED BY <1>1, <1>2, <1>3 DEF Dropped

\* A path is a string.
LEMMA PathConverted ==
    ASSUME NEW element, element.type = "object path"
    PROVE  ValueToJSON(element) = JSON("string", element.value)
<1>1. element.type # "variant" /\ element.type \notin Dropped /\ Told(element) = element.value
    BY DEF Dropped, Integral, Told
<1> QED BY <1>1, PlainConverted

\* A boolean and a number of any integral type.
LEMMA NumberConverted ==
    ASSUME NEW element
    PROVE  /\ element.type = "boolean" => ValueToJSON(element) = JSON("boolean", element.value)
           /\ element.type \in Integral =>
                  ValueToJSON(element) = JSON("integer", AsInteger(element.value))
<1>1. element.type = "boolean" \/ element.type \in Integral =>
          ValueToJSON(element) = Scalar(element)
    BY DEF ValueToJSON, Converted, Integral
<1> QED BY <1>1, ScalarConverted

\* An array among the properties is converted member by member.
LEMMA ListConverted ==
    ASSUME NEW element, element.type = "array"
    PROVE  ValueToJSON(element) =
               JSON("array", [i \in DOMAIN element.value |-> MemberToJSON(element.value[i])])
    BY DEF ValueToJSON, Converted

\* Putting the URI into an object leaves its other members, the resources among
\* them, and is done the second time what it did the first.
LEMMA PostProcessed ==
    ASSUME NEW object
    PROVE  LET uri == shownURI(URLs(object))
               result == postProcessJSONObjectResources(object)
           IN  /\ uri = NoUrl => result = object
               /\ uri # NoUrl => /\ DOMAIN result = DOMAIN object \cup {"URI"}
                                 /\ result["URI"] = JSON("string", uri)
               /\ DOMAIN result \ {"URI"} = DOMAIN object \ {"URI"}
               /\ \A key \in DOMAIN object \ {"URI"} : result[key] = object[key]
    BY DEF postProcessJSONObjectResources

\* The second time nothing changes, and the URLs to choose from stay the same.
LEMMA PostProcessedTwice ==
    ASSUME NEW object
    PROVE  LET result == postProcessJSONObjectResources(object)
           IN  URLs(result) = URLs(object) /\ postProcessJSONObjectResources(result) = result
<1> DEFINE uri == shownURI(URLs(object))
           result == postProcessJSONObjectResources(object)
<1>1. CASE uri = NoUrl
    BY <1>1 DEF postProcessJSONObjectResources
<1>2. CASE uri # NoUrl
    <2> DEFINE keys == DOMAIN object \cup {"URI"}
               value == [key \in keys |-> IF key = "URI" THEN JSON("string", uri) ELSE object[key]]
    <2>1. result = value
        BY <1>2 DEF postProcessJSONObjectResources
    <2>2. ("Resources" \in keys <=> "Resources" \in DOMAIN object)
        OBVIOUS
    <2>3. "Resources" \in DOMAIN object => value.Resources = object.Resources
        OBVIOUS
    <2>4. URLs(value) = URLs(object)
        BY <2>2, <2>3 DEF URLs
    <2>5. postProcessJSONObjectResources(value) =
              [key \in DOMAIN value \cup {"URI"} |->
                  IF key = "URI" THEN JSON("string", uri) ELSE value[key]]
        BY <1>2, <2>4 DEF postProcessJSONObjectResources
    <2>6. [key \in DOMAIN value \cup {"URI"} |->
              IF key = "URI" THEN JSON("string", uri) ELSE value[key]] = value
        OBVIOUS
    <2> QED BY <2>1, <2>4, <2>5, <2>6
<1> QED BY <1>1, <1>2

\* A member of a list, in a variant or not.
LEMMA MemberConverted ==
    ASSUME NEW member, member.type = "variant" => member.value.type # "variant"
    PROVE  IF Plain(member).type \in Dropped THEN MemberToJSON(member).kind # "string"
           ELSE MemberToJSON(member) = JSON("string", Told(Plain(member)))
<1>1. CASE member.type = "variant"
    <2>1. MemberToJSON(member) = FieldToJSON(member.value) /\ Plain(member) = member.value
        BY <1>1 DEF MemberToJSON, Converted, Plain
    <2> QED BY <1>1, <2>1, PlainConverted
<1>2. CASE member.type # "variant"
    BY <1>2, PlainConverted DEF Plain
<1> QED BY <1>1, <1>2

\* A property that can be: no variant, nor, in a list, a variant of a variant.
IsProperty(property) ==
    LET list == property.value
    IN  /\ property.type # "variant"
        /\ property.type = "array" =>
              /\ DOMAIN list = 1 .. Len(list) /\ Len(list) \in Nat
              /\ \A i \in DOMAIN list : list[i].type = "variant" => list[i].value.type # "variant"

\* The strings of a list arrive, in its order, and nothing else of it.
LEMMA ListConveyed ==
    ASSUME NEW property, IsProperty(property), property.type = "array"
    PROVE  LET list == property.value
               told == Kept(list, {i \in DOMAIN list : Plain(list[i]).type \notin Dropped})
           IN  ResultUnion(ValueToJSON(property)) =
                   JSON("strings", [n \in DOMAIN told |-> Told(Plain(told[n]))])
<1> DEFINE list == property.value
           json == [i \in DOMAIN list |-> MemberToJSON(list[i])]
           places == {i \in DOMAIN list : Plain(list[i]).type \notin Dropped}
           strings == Kept(json, places)
           told == Kept(list, places)
<1>1. ValueToJSON(property) = JSON("array", json)
    BY ListConverted
<1>2. /\ DOMAIN list = 1 .. Len(list) /\ Len(list) \in Nat
      /\ \A i \in DOMAIN list : list[i].type = "variant" => list[i].value.type # "variant"
    BY DEF IsProperty
<1> HIDE DEF list
<1>3. \A i \in DOMAIN list : IF i \in places THEN json[i] = JSON("string", Told(Plain(list[i])))
                             ELSE json[i].kind # "string"
    BY <1>2, MemberConverted
<1>4. DOMAIN json = DOMAIN list
    OBVIOUS
<1> HIDE DEF json
<1>5. {i \in DOMAIN json : json[i].kind = "string"} = places
    BY <1>3, <1>4 DEF JSON
<1>6. ResultUnion(JSON("array", json)) = JSON("strings", [i \in DOMAIN strings |-> strings[i].value])
    BY <1>5 DEF ResultUnion, JSON
<1>7. places \in SUBSET (1 .. Len(list)) /\ DOMAIN json = 1 .. Len(list)
    BY <1>2, <1>4
<1> HIDE DEF places
<1>8. /\ DOMAIN strings = DOMAIN told
      /\ \A i \in DOMAIN strings : \E p \in places : strings[i] = json[p] /\ told[i] = list[p]
    BY <1>2, <1>7, KeptAlike
<1> HIDE DEF strings, told
<1>9. \A i \in DOMAIN strings : strings[i].value = Told(Plain(told[i]))
    <2>1. \A p \in places : json[p].value = Told(Plain(list[p]))
        BY <1>3, <1>4, <1>2, <1>7 DEF JSON
    <2> QED BY <1>8, <2>1
<1>10. [i \in DOMAIN strings |-> strings[i].value] = [n \in DOMAIN told |-> Told(Plain(told[n]))]
    BY <1>8, <1>9
<1> QED BY <1>1, <1>6, <1>10 DEF list, told, places

\* What arrives of a value of the server in the union of the reply.
LEMMA ValueConveyed ==
    ASSUME NEW property, IsProperty(property)
    PROVE  Conveyed(property, ResultUnion(ValueToJSON(property)))
<1> DEFINE union == ResultUnion(ValueToJSON(property))
<1>1. CASE property.type \notin Dropped
    <2>1. ValueToJSON(property) = JSON("string", Told(property))
        BY <1>1, PlainConverted DEF IsProperty
    <2>2. union = JSON("string", Told(property))
        BY <2>1 DEF ResultUnion, JSON
    <2> QED BY <1>1, <2>2 DEF Conveyed, Dropped
<1>2. CASE property.type = "boolean"
    <2>1. union = JSON("boolean", property.value)
        BY <1>2, NumberConverted DEF ResultUnion, JSON
    <2> QED BY <1>2, <2>1 DEF Conveyed, Integral
<1>3. CASE property.type \in Integral
    <2>1. union = JSON("integer", AsInteger(property.value))
        BY <1>3, NumberConverted DEF ResultUnion, JSON
    <2> HIDE DEF union
    <2>2. union = JSON("integer", IF property.value < LongHalf THEN property.value
                                  ELSE property.value - 2 * LongHalf)
        BY <2>1 DEF AsInteger
    <2> QED BY <1>3, <2>2 DEF Conveyed, Integral, union
<1>4. CASE property.type = "array"
    <2> HIDE DEF union
    <2>1. LET list == property.value
              told == Kept(list, {i \in DOMAIN list : Plain(list[i]).type \notin Dropped})
          IN  union = JSON("strings", [n \in DOMAIN told |-> Told(Plain(told[n]))])
        BY <1>4, ListConveyed DEF union
    <2>2. property.type \notin Integral
        BY <1>4 DEF Integral
    <2>3. Conveyed(property, union)
        BY <1>4, <2>1, <2>2 DEF Conveyed
    <2> QED BY <2>3 DEF union
<1>5. CASE property.type = "dictionary"
    <2>1. ValueToJSON(property).kind = "object"
        BY <1>5 DEF ValueToJSON, Converted, JSON
    <2>2. union.kind = "empty"
        BY <2>1 DEF ResultUnion, JSON
    <2> QED BY <1>5, <2>2 DEF Conveyed, Integral
<1> QED BY <1>1, <1>2, <1>3, <1>4, <1>5 DEF Dropped

-------------------------------------------------------------------------------
(* Replies. *)

\* What a listing finds of an object, and what the reply says of it.
FoundOf(op, o, filter) ==
    LET fields == Fields(o, Asked(o, filter))
    IN  IF op = "containers" THEN fields ELSE postProcessJSONObjectResources(fields)

Entry(op, o, filter) ==
    [key \in DOMAIN FoundOf(op, o, filter) \cap m_generalFilter |->
        ResultUnion(FoundOf(op, o, filter)[key])]

Listing(op, order) == Sorted(Selected(op), sortKeyToString(order))

Page(op, offset, count, order) ==
    Section(Listing(op, order), AsUint32(offset), AsUint32(count))

\* A call on the server, converted.
LEMMA ServerListConverted ==
    ASSUME NEW op, NEW offset, NEW count, NEW filter, NEW sortKey, NEW section,
           section = Section(Sorted(Selected(op), sortKey), AsUint32(offset), AsUint32(count))
    PROVE  DLNADictToJSON(ServerList(op, offset, count, filter, sortKey)).value =
               [i \in DOMAIN section |->
                   JSON("object", Fields(section[i], Asked(section[i], filter)))]
<1> DEFINE list == [i \in DOMAIN section |-> Properties(section[i], filter)]
           objects == [i \in DOMAIN section |->
                          JSON("object", Fields(section[i], Asked(section[i], filter)))]
<1>1. ServerList(op, offset, count, filter, sortKey) = GVariant("array", list)
    BY DEF ServerList
<1>2. DLNADictToJSON(GVariant("array", list)).value = [i \in DOMAIN list |-> ObjectToJSON(list[i])]
    BY ArrayConverted
<1>3. ASSUME NEW i \in DOMAIN section PROVE ObjectToJSON(list[i]) = objects[i]
    BY ObjectConverted
<1>4. [i \in DOMAIN list |-> ObjectToJSON(list[i])] = objects
    BY <1>3
<1> QED BY <1>1, <1>2, <1>4

\* A reply has an entry for each object of the page, and no other.
LEMMA ReplyEntries ==
    ASSUME NEW op \in Operations, NEW offset, NEW count, NEW filter, NEW order
    PROVE  Reply(op, offset, count, filter, order) =
               [i \in DOMAIN Page(op, offset, count, order) |->
                   Entry(op, Page(op, offset, count, order)[i], filter)]
<1> DEFINE sortKey == sortKeyToString(order)
           page == Page(op, offset, count, order)
           listed == DLNADictToJSON(ServerList(op, offset, count, filter, sortKey)).value
           found == IF op = "containers" THEN listed ELSE postProcessJSON(listed)
           reply == resultMapListToCAPIResultMapList(found, m_generalFilter)
           entries == [i \in DOMAIN page |-> Entry(op, page[i], filter)]
<1>1. listed = [i \in DOMAIN page |-> JSON("object", Fields(page[i], Asked(page[i], filter)))]
    <2>1. page = Section(Sorted(Selected(op), sortKey), AsUint32(offset), AsUint32(count))
        BY DEF Page, Listing
    <2> HIDE DEF page
    <2> QED BY <2>1, ServerListConverted
<1>2. Reply(op, offset, count, filter, order) = reply
    BY DEF Reply, listReply, searchObjects, Operations, listContainersGeneral,
           listChildrenGeneral, listItemsGeneral, searchObjectsGeneral
<1> HIDE DEF page, listed
<1>3. DOMAIN found = DOMAIN page /\ \A i \in DOMAIN page : found[i].value = FoundOf(op, page[i], filter)
    BY <1>1 DEF postProcessJSON, FoundOf, JSON
<1> HIDE DEF found
<1>4. ASSUME NEW i \in DOMAIN page
      PROVE  [key \in DOMAIN found[i].value \cap m_generalFilter |-> ResultUnion(found[i].value[key])]
                 = Entry(op, page[i], filter)
    BY <1>3 DEF Entry
<1>5. reply = entries
    BY <1>3, <1>4 DEF resultMapListToCAPIResultMapList
<1> QED BY <1>2, <1>5 DEF page

\* The URI is shown of the item's resources, and only if they are asked for.
LEMMA URIOfResources ==
    ASSUME NEW o \in Objects, NEW filter, shownURI(URLs(Fields(o, Asked(o, filter)))) # NoUrl
    PROVE  URLs(Fields(o, Asked(o, filter))) = URLs(Fields(o, DOMAIN Content[o]))
<1> DEFINE some == Fields(o, Asked(o, filter))
           all == Fields(o, DOMAIN Content[o])
<1>1. CASE "Resources" \in Asked(o, filter)
    <2>1. "Resources" \in DOMAIN Content[o]
        BY <1>1 DEF Asked
    <2>2. some.Resources = all.Resources
        BY <1>1, <2>1 DEF Fields
    <2>3. "Resources" \in DOMAIN some /\ "Resources" \in DOMAIN all
        BY <1>1, <2>1 DEF Fields
    <2> HIDE DEF some, all
    <2>4. URLs(some) = URLs(all)
        BY <2>2, <2>3 DEF URLs
    <2> QED BY <2>4 DEF some, all
<1>2. CASE "Resources" \notin Asked(o, filter)
    <2>1. URLs(some) = <<>>
        BY <1>2 DEF URLs, Fields
    <2>2. shownURI(<<>>) = NoUrl
        BY DEF shownURI
    <2> QED BY <2>1, <2>2
<1> QED BY <1>1, <1>2

\* Whoever asks for the resources gets all their URLs.
LEMMA ResourcesFound ==
    ASSUME NEW o \in Objects, NEW filter, {"*", "Resources"} \cap filter # {}
    PROVE  URLs(Fields(o, Asked(o, filter))) = URLs(Fields(o, DOMAIN Content[o]))
<1> DEFINE some == Fields(o, Asked(o, filter))
           all == Fields(o, DOMAIN Content[o])
<1>1. "Resources" \in DOMAIN some <=> "Resources" \in DOMAIN all
    BY DEF Fields, Asked
<1>2. "Resources" \in DOMAIN some => some.Resources = all.Resources
    BY DEF Fields, Asked
<1> HIDE DEF some, all
<1>3. URLs(some) = URLs(all)
    BY <1>1, <1>2 DEF URLs
<1> QED BY <1>3 DEF some, all

\* What an entry says of an object is true.
LEMMA EntryIsTrue ==
    ASSUME NEW op, NEW o \in Objects, NEW filter
    PROVE  LET entry == Entry(op, o, filter)
           IN  /\ DOMAIN entry \ {"URI"} = Asked(o, filter) \cap m_generalFilter
               /\ \A key \in DOMAIN entry \ {"URI"} : Conveyed(Content[o][key], entry[key])
<1> DEFINE fields == Fields(o, Asked(o, filter))
           found == FoundOf(op, o, filter)
           entry == Entry(op, o, filter)
<1>1. "URI" \notin Asked(o, filter) /\ Asked(o, filter) \subseteq DOMAIN Content[o]
    BY ContentAssumption DEF Asked
<1>2. DOMAIN fields = Asked(o, filter)
      /\ \A key \in Asked(o, filter) : fields[key] = ValueToJSON(Content[o][key])
    BY DEF Fields
<1>3. /\ DOMAIN found \ {"URI"} = DOMAIN fields \ {"URI"}
      /\ \A key \in DOMAIN fields \ {"URI"} : found[key] = fields[key]
    BY PostProcessed DEF FoundOf
<1> HIDE DEF found, fields
<1>4. DOMAIN entry = DOMAIN found \cap m_generalFilter
      /\ \A key \in DOMAIN entry : entry[key] = ResultUnion(found[key])
    BY DEF Entry, found
<1> HIDE DEF entry
<1>5. DOMAIN entry \ {"URI"} = Asked(o, filter) \cap m_generalFilter
    BY <1>1, <1>2, <1>3, <1>4
<1>6. ASSUME NEW key \in DOMAIN entry \ {"URI"}
      PROVE  Conveyed(Content[o][key], entry[key])
    <2>1. key \in Asked(o, filter) /\ key \in DOMAIN Content[o]
        BY <1>1, <1>5
    <2>2. entry[key] = ResultUnion(ValueToJSON(Content[o][key]))
        BY <1>1, <1>2, <1>3, <1>4, <2>1
    <2>3. IsProperty(Content[o][key])
        BY <2>1, ContentAssumption DEF IsProperty
    <2>4. Conveyed(Content[o][key], ResultUnion(ValueToJSON(Content[o][key])))
        BY <2>3, ValueConveyed
    <2> QED BY <2>2, <2>4
<1> QED BY <1>5, <1>6 DEF entry

\* An entry names its object, if the client asked for its path, and has the URI
\* of the object's resources.
LEMMA EntryNames ==
    ASSUME NEW op, NEW o \in Objects, NEW filter
    PROVE  LET entry == Entry(op, o, filter)
           IN  /\ {"*", "Path"} \cap filter # {} => "Path" \in DOMAIN entry
               /\ "Path" \in DOMAIN entry => entry.Path.value = o
               /\ "URI" \in DOMAIN entry =>
                      entry["URI"].value = shownURI(URLs(Fields(o, DOMAIN Content[o])))
               /\ {"*", "Resources"} \cap filter # {} /\ op # "containers" /\ "URI" \notin DOMAIN entry
                      => shownURI(URLs(Fields(o, DOMAIN Content[o]))) = NoUrl
<1> DEFINE fields == Fields(o, Asked(o, filter))
           found == FoundOf(op, o, filter)
           entry == Entry(op, o, filter)
           uri == shownURI(URLs(fields))
<1>1. /\ "URI" \notin Asked(o, filter) /\ "Path" \in DOMAIN Content[o]
      /\ Content[o].Path.type = "object path" /\ Content[o].Path.value = o
    <2>1. /\ "URI" \notin DOMAIN Content[o] /\ "Path" \in DOMAIN Content[o]
          /\ Content[o].Path = GVariant("object path", o)
        BY ContentAssumption
    <2>2. /\ GVariant("object path", o).type = "object path"
          /\ GVariant("object path", o).value = o
        BY DEF GVariant
    <2>3. Content[o].Path.type = "object path" /\ Content[o].Path.value = o
        BY <2>1, <2>2
    <2> QED BY <2>1, <2>3 DEF Asked
<1>2. /\ DOMAIN entry = DOMAIN found \cap m_generalFilter
      /\ \A key \in DOMAIN entry : entry[key] = ResultUnion(found[key])
    BY DEF Entry
<1>3. ASSUME {"*", "Path"} \cap filter # {} PROVE "Path" \in DOMAIN entry
    <2>1. "Path" \in Asked(o, filter)
        BY <1>1, <1>3 DEF Asked
    <2> QED BY <2>1, EntryIsTrue DEF m_generalFilter
<1>4. ASSUME "Path" \in DOMAIN entry PROVE entry.Path.value = o
    <2>1. "Path" \in Asked(o, filter)
        BY <1>4, EntryIsTrue
    <2>2. "Path" \in DOMAIN fields \ {"URI"} /\ fields.Path = ValueToJSON(Content[o].Path)
        BY <2>1 DEF Fields
    <2>3. found.Path = fields.Path
        BY <2>2, PostProcessed DEF FoundOf
    <2>4. ValueToJSON(Content[o].Path) = JSON("string", o)
        BY <1>1, PathConverted
    <2>5. ResultUnion(JSON("string", o)) = JSON("string", o) /\ JSON("string", o).value = o
        BY DEF ResultUnion, JSON
    <2> QED BY <1>2, <1>4, <2>2, <2>3, <2>4, <2>5
<1>5. ASSUME "URI" \in DOMAIN entry PROVE entry["URI"].value = shownURI(URLs(Fields(o, DOMAIN Content[o])))
    <2>1. "URI" \in DOMAIN found /\ "URI" \notin DOMAIN fields
        BY <1>1, <1>2, <1>5 DEF Fields
    <2>2. uri # NoUrl /\ found["URI"] = JSON("string", uri)
        BY <2>1, PostProcessed DEF FoundOf
    <2>3. uri = shownURI(URLs(Fields(o, DOMAIN Content[o])))
        BY <2>2, URIOfResources
    <2>4. ResultUnion(JSON("string", uri)) = JSON("string", uri) /\ JSON("string", uri).value = uri
        BY DEF ResultUnion, JSON
    <2> QED BY <1>2, <1>5, <2>2, <2>3, <2>4
<1>6. ASSUME {"*", "Resources"} \cap filter # {}, op # "containers", "URI" \notin DOMAIN entry
      PROVE  shownURI(URLs(Fields(o, DOMAIN Content[o]))) = NoUrl
    <2>1. "URI" \notin DOMAIN found /\ found = postProcessJSONObjectResources(fields)
        BY <1>2, <1>6 DEF m_generalFilter, FoundOf
    <2>2. uri = NoUrl
        BY <2>1, PostProcessed
    <2>3. URLs(fields) = URLs(Fields(o, DOMAIN Content[o]))
        BY <1>6, ResourcesFound
    <2> QED BY <2>2, <2>3
<1> QED BY <1>3, <1>4, <1>5, <1>6

-------------------------------------------------------------------------------
(* Listings and pages. *)

\* The children of the container are distinct objects.
ChildrenOK == children \in Seq(Objects) /\ IsInjective(children)

\* A listing has each of the objects it is for once, and fewer of them than a
\* number of the call can count.
LEMMA ListingCorrect ==
    ASSUME ChildrenOK, NEW op \in Operations, NEW order \in Orders
    PROVE  /\ Lists(Listing(op, order), Selected(op))
           /\ Selected(op) \subseteq Objects \cap Kinds[op]
           /\ Cardinality(Selected(op)) \in Nat /\ Cardinality(Selected(op)) < Width
<1> DEFINE S == Selected(op)
           sortKey == sortKeyToString(order)
           key == [o \in S |-> CASE sortKey = "+DisplayName" -> Rank[o]
                                 [] sortKey = "-DisplayName" -> -Rank[o]
                                 [] sortKey = ""             -> Place(children, o)]
<1>1. S \subseteq Range(children) /\ S \subseteq Objects /\ S \subseteq Kinds[op]
    BY DEF Selected, ChildrenOK, Range
<1>2. IsFiniteSet(S) /\ Cardinality(S) \in Nat /\ Cardinality(S) < Width
    <2>1. IsFiniteSet(Objects) /\ Width \in Nat /\ Width > Cardinality(Objects)
        BY LibraryAssumption
    <2>2. IsFiniteSet(S) /\ Cardinality(S) <= Cardinality(Objects)
        BY <1>1, <2>1, FS_Subset
    <2>3. Cardinality(S) \in Nat /\ Cardinality(Objects) \in Nat
        BY <2>1, <2>2, FS_CardinalityType
    <2> HIDE DEF S
    <2> QED BY <2>1, <2>2, <2>3
<1>3. \A o \in S : Place(children, o) \in DOMAIN children /\ children[Place(children, o)] = o
    BY <1>1 DEF Place, Range
<1>4. \A o \in S : Place(children, o) \in Int
    BY <1>3 DEF ChildrenOK
<1>5. \A o \in S : Rank[o] \in Int
    BY <1>1, LibraryAssumption
<1>6. \A x, y \in S : Rank[x] = Rank[y] => x = y
    BY <1>1, LibraryAssumption DEF IsInjective
<1>7. \/ sortKey = "+DisplayName" \/ sortKey = "-DisplayName" \/ sortKey = ""
    BY DEF sortKeyToString, Orders
<1> HIDE DEF S, sortKey
<1>8. (\A x \in S : key[x] \in Int) /\ \A x, y \in S : key[x] = key[y] => x = y
    <2>1. CASE sortKey = "+DisplayName"
        <3>1. \A x \in S : key[x] = Rank[x]
            BY <2>1
        <3> HIDE DEF key
        <3> QED BY <3>1, <1>5, <1>6
    <2>2. CASE sortKey = "-DisplayName"
        <3>1. \A x \in S : key[x] = -Rank[x]
            BY <2>2
        <3> HIDE DEF key
        <3> QED BY <3>1, <1>5, <1>6
    <2>3. CASE sortKey = ""
        <3>1. \A x \in S : key[x] = Place(children, x)
            BY <2>3
        <3> HIDE DEF key
        <3> QED BY <3>1, <1>3, <1>4
    <2> QED BY <1>7, <2>1, <2>2, <2>3
<1>9. Listing(op, order) = InOrder(S, key)
    BY DEF Listing, Sorted, S, sortKey
<1> HIDE DEF key
<1>10. Lists(InOrder(S, key), S)
    BY <1>2, <1>8, InOrderCorrect
<1> QED BY <1>1, <1>2, <1>9, <1>10 DEF S

\* What the client asked for is what the server lists.
LEMMA WantedIsListing ==
    ASSUME walk.order \in Orders
    PROVE  Wanted = Listing(walk.op, walk.order)
<1> DEFINE S == Selected(walk.op)
           sortKey == sortKeyToString(walk.order)
           asked == [o \in S |-> CASE walk.order = "ASCENDING"  -> Rank[o]
                                   [] walk.order = "DESCENDING" -> -Rank[o]
                                   [] walk.order = "unsorted"   -> Place(children, o)]
           sent == [o \in S |-> CASE sortKey = "+DisplayName" -> Rank[o]
                                  [] sortKey = "-DisplayName" -> -Rank[o]
                                  [] sortKey = ""             -> Place(children, o)]
<1> HIDE DEF S
<1>1. asked = sent
    <2>1. CASE walk.order = "ASCENDING"
        <3>1. sortKey = "+DisplayName"
            BY <2>1 DEF sortKeyToString
        <3>2. asked = [o \in S |-> Rank[o]]
            BY <2>1
        <3>3. sent = [o \in S |-> Rank[o]]
            BY <3>1
        <3> QED BY <3>2, <3>3
    <2>2. CASE walk.order = "DESCENDING"
        <3>1. sortKey = "-DisplayName"
            BY <2>2 DEF sortKeyToString
        <3>2. asked = [o \in S |-> -Rank[o]]
            BY <2>2
        <3>3. sent = [o \in S |-> -Rank[o]]
            BY <3>1
        <3> QED BY <3>2, <3>3
    <2>3. CASE walk.order = "unsorted"
        <3>1. sortKey = ""
            BY <2>3 DEF sortKeyToString
        <3>2. asked = [o \in S |-> Place(children, o)]
            BY <2>3
        <3>3. sent = [o \in S |-> Place(children, o)]
            BY <3>1
        <3> QED BY <3>2, <3>3
    <2> QED BY <2>1, <2>2, <2>3 DEF Orders
<1>2. Wanted = InOrder(S, asked) /\ Listing(walk.op, walk.order) = InOrder(S, sent)
    BY DEF Wanted, Listing, Sorted, S
<1> QED BY <1>1, <1>2

\* Numbers of a call that are less than its width arrive as they are, others as
\* some number; the width itself as 0.
LEMMA Uint32Bounds ==
    ASSUME NEW x \in Nat
    PROVE  /\ AsUint32(x) \in Nat
           /\ x < Width => AsUint32(x) = x
           /\ x = Width => AsUint32(x) = 0
<1>1. Width \in Nat /\ Width > 0
    <2>1. IsFiniteSet(Objects) /\ Width \in Nat /\ Width > Cardinality(Objects)
        BY LibraryAssumption
    <2>2. Cardinality(Objects) \in Nat
        BY <2>1, FS_CardinalityType
    <2> QED BY <2>1, <2>2
<1>2. x % Width \in 0 .. (Width - 1)
    BY <1>1
<1>3. x < Width => x % Width = x
    BY <1>1
<1>4. x = Width => x % Width = 0
    BY <1>1
<1> QED BY <1>2, <1>3, <1>4 DEF AsUint32

\* A page that is asked for from where the last one ended continues it, and a
\* short one is the last, if the page size fits into the call.
LEMMA PageContinues ==
    ASSUME NEW list \in Seq(Objects), Len(list) < Width, NEW k \in 0 .. Len(list),
           NEW count \in Nat, NEW page, page = Section(list, AsUint32(k), AsUint32(count))
    PROVE  /\ page \in Seq(Objects) /\ k + Len(page) <= Len(list)
           /\ \A i \in 1 .. Len(page) : page[i] = list[k + i]
           /\ count <= Width /\ Len(page) < count => k + Len(page) = Len(list)
<1> DEFINE n == Len(list)
           max == AsUint32(count)
           last == IF max = 0 \/ k + max > n THEN n ELSE k + max
           section == SubSeq(list, k + 1, last)
<1>1. Width \in Nat
    BY LibraryAssumption
<1>2. max \in Nat
    BY Uint32Bounds
<1>3. AsUint32(k) = k
    <2>1. k \in Nat /\ k < Width
        BY <1>1
    <2> QED BY <2>1, Uint32Bounds
<1>4. count <= Width => max = count \/ max = 0
    BY <1>1, Uint32Bounds
<1> HIDE DEF max
<1>5. page = section
    BY <1>3 DEF Section, max
<1>6. last \in Nat /\ k <= last /\ last <= n
    BY <1>2
<1>7. count <= Width /\ last # n => last = k + count
    BY <1>2, <1>4
<1> HIDE DEF last
<1>8. section \in Seq(Objects) /\ Len(section) = last - k
    BY <1>6
<1>9. \A i \in 1 .. Len(section) : section[i] = list[k + i]
    BY <1>6, <1>8
<1> HIDE DEF section
<1> QED BY <1>1, <1>5, <1>6, <1>7, <1>8, <1>9

\* Wherever a page is asked for, it has objects of the listing only.
LEMMA SectionTyped ==
    ASSUME NEW list \in Seq(Objects), NEW offset \in Nat, NEW max \in Nat
    PROVE  Section(list, offset, max) \in Seq(Objects)
<1> DEFINE last == IF max = 0 \/ offset + max > Len(list) THEN Len(list) ELSE offset + max
<1>1. last \in Nat /\ last <= Len(list)
    OBVIOUS
<1> HIDE DEF last
<1>2. SubSeq(list, offset + 1, last) \in Seq(Objects)
    BY <1>1
<1> QED BY <1>2 DEF Section, last

\* Items as the queue gets them.
Raw(o) == JSON("object", Fields(o, DOMAIN Content[o]))

\* The items that openPlaylist and enqueueUri find: different ones, at most the
\* whole listing.
LEMMA ItemsListed ==
    ASSUME ChildrenOK, NEW count \in Nat
    PROVE  \E page \in Seq(Items) :
               /\ ListedItems(count) = [i \in 1 .. Len(page) |-> Raw(page[i])]
               /\ IsInjective(page) /\ Len(page) <= Cardinality(Selected("items"))
<1> DEFINE list == Listing("items", "unsorted")
           n == Cardinality(Selected("items"))
           page == Section(list, AsUint32(0), AsUint32(count))
<1>1. "items" \in Operations /\ "unsorted" \in Orders /\ sortKeyToString("unsorted") = ""
    BY DEF Operations, Orders, sortKeyToString
<1>2. /\ Lists(list, Selected("items")) /\ Selected("items") \subseteq Objects \cap Items
      /\ n \in Nat /\ n < Width
    <2>1. Kinds["items"] = Items
        BY DEF Kinds
    <2> QED BY <1>1, <2>1, ListingCorrect
<1> HIDE DEF list, n
<1>3. /\ list \in Seq(Objects) /\ Len(list) = n /\ IsInjective(list) /\ DOMAIN list = 1 .. n
      /\ \A i \in 1 .. n : list[i] \in Items
    BY <1>2 DEF Lists, n
<1> HIDE DEF page
<1>4. page \in Seq(Objects) /\ Len(page) <= n /\ \A i \in 1 .. Len(page) : page[i] = list[i]
    <2> DEFINE k == 0
    <2>1. k \in 0 .. Len(list) /\ page = Section(list, AsUint32(k), AsUint32(count))
        BY <1>2, <1>3 DEF page
    <2>2. Len(list) < Width
        BY <1>2, <1>3
    <2> HIDE DEF k
    <2>3. /\ page \in Seq(Objects) /\ k + Len(page) <= Len(list)
          /\ \A i \in 1 .. Len(page) : page[i] = list[k + i]
        BY <1>3, <2>1, <2>2, PageContinues, ZenonT(30)
    <2> QED BY <1>2, <1>3, <2>3 DEF k
<1>5. page \in Seq(Items)
    BY <1>2, <1>3, <1>4
<1>6. IsInjective(page)
    BY <1>2, <1>3, <1>4 DEF IsInjective
<1>7. ListedItems(count) =
          [i \in DOMAIN page |-> JSON("object", Fields(page[i], Asked(page[i], {"*"})))]
    <2> DEFINE filter == {"*"}
               sortKey == ""
               offset == 0
    <2>1. list = Sorted(Selected("items"), sortKey)
        BY <1>1 DEF Listing, list
    <2>2. page = Section(Sorted(Selected("items"), sortKey), AsUint32(offset), AsUint32(count))
        BY <2>1 DEF page
    <2>3. ListedItems(count) =
              DLNADictToJSON(ServerList("items", offset, count, filter, sortKey)).value
        BY DEF ListedItems
    <2> HIDE DEF filter, sortKey, offset
    <2>4. DLNADictToJSON(ServerList("items", offset, count, filter, sortKey)).value =
              [i \in DOMAIN page |-> JSON("object", Fields(page[i], Asked(page[i], filter)))]
        BY <2>2, ServerListConverted
    <2> QED BY <2>3, <2>4 DEF filter
<1>8. \A o : Asked(o, {"*"}) = DOMAIN Content[o]
    BY DEF Asked
<1>9. ListedItems(count) = [i \in 1 .. Len(page) |-> Raw(page[i])]
    BY <1>4, <1>7, <1>8 DEF Raw
<1> QED BY <1>4, <1>5, <1>6, <1>9 DEF n

-------------------------------------------------------------------------------
(* The inductive invariant. *)

\* The entries that replies of a walk can have.
EntriesOf(op, filter) == {Entry(op, o, filter) : o \in Objects}

\* The client's walk is one it may have started, with entries of such replies.
WalkOK ==
    walk \in [op : Operations, order : Orders, count : Nat \ {0}, filter : Filters \cup {{}},
              got : Seq(EntriesOf(walk.op, walk.filter)), over : BOOLEAN,
              unchanged : BOOLEAN, answered : BOOLEAN]

\* As long as the container stays the same, the pages so far are the beginning
\* of the listing; all of it, when a walk that was answered is over.
PagesOK ==
    LET listing == Listing(walk.op, walk.order)
    IN  walk.unchanged =>
            /\ Len(walk.got) <= Len(listing)
            /\ \A i \in 1 .. Len(walk.got) :
                  walk.got[i] = Entry(walk.op, listing[i], walk.filter)
            /\ walk.over /\ walk.answered /\ walk.count <= Width =>
                  Len(walk.got) = Len(listing)

\* The queue has items as the server sent them, or with a URI put in.
Shown(item) == JSON("object", postProcessJSONObjectResources(item.value))
QueueItems == {Raw(o) : o \in Items} \cup {Shown(Raw(o)) : o \in Items}

QueueOK == playqueue \in Seq(QueueItems) /\ Len(playqueue) <= MaxQueue

LibInv ==
    ChildrenOK /\ changes \in 0 .. MaxChanges /\ WalkOK /\ PagesOK /\ QueueOK

\* The listing depends on the container and on what is asked for only.
LEMMA ListingStays ==
    ASSUME UNCHANGED children, walk'.op = walk.op, walk'.order = walk.order
    PROVE  Listing(walk.op, walk.order)' = Listing(walk.op, walk.order)
<1>1. Selected(walk.op)' = Selected(walk.op)
    BY DEF Selected
<1>2. sortKeyToString(walk.order)' = sortKeyToString(walk.order)
    OBVIOUS
<1> QED BY <1>1, <1>2 DEF Listing, Sorted

\* The invariant holds at first.
LEMMA InitLibInv == Init => LibInv
<1> SUFFICES ASSUME Init PROVE LibInv
    OBVIOUS
<1>1. walk = NoWalk /\ NoWalk.got = <<>> /\ ~ NoWalk.answered /\ NoWalk.unchanged
      /\ NoWalk.op = "children" /\ NoWalk.order = "unsorted"
    BY DEF Init, NoWalk
<1>2. ChildrenOK
    BY LibraryAssumption DEF Init, ChildrenOK
<1>3. changes \in 0 .. MaxChanges
    BY LibraryAssumption DEF Init
<1>4. WalkOK
    BY DEF Init, NoWalk, WalkOK, Operations, Orders
<1>5. Len(Listing(walk.op, walk.order)) \in Nat
    BY <1>1, <1>2, ListingCorrect DEF Operations, Orders, Lists
<1>6. PagesOK
    BY <1>1, <1>5 DEF PagesOK
<1>7. QueueOK
    BY LibraryAssumption DEF Init, QueueOK
<1> QED BY <1>2, <1>3, <1>4, <1>6, <1>7 DEF LibInv

\* The listing a walk is about has a length.
LEMMA WalkCounted ==
    ChildrenOK /\ walk.op \in Operations /\ walk.order \in Orders =>
        Len(Listing(walk.op, walk.order)) \in Nat
    BY ListingCorrect DEF Lists

\* ... of a client that has no walk, too.
LEMMA ChildrenCounted == ChildrenOK => Len(Listing("children", "unsorted")) \in Nat
    BY ListingCorrect DEF Operations, Orders, Lists

\* A change of the container leaves a walk without a promise, or there is none.
LEMMA ContainerChanges ==
    ASSUME LibInv, ChildrenOK', NEW list, ContentChanges(list)
    PROVE  WalkOK' /\ PagesOK'
<1>1. CASE walk = NoWalk
    <2>1. walk' = walk /\ walk.got = <<>> /\ ~ walk.answered /\ walk.op = "children"
          /\ walk.order = "unsorted"
        BY <1>1 DEF ContentChanges, NoWalk
    <2>2. WalkOK'
        BY <2>1 DEF LibInv, WalkOK
    <2>3. Len(Listing(walk.op, walk.order))' \in Nat
        <3>1. ChildrenOK' => (Len(Listing("children", "unsorted")) \in Nat)'
            BY ChildrenCounted, PTL
        <3> QED BY <2>1, <3>1
    <2>4. PagesOK'
        BY <2>1, <2>3 DEF PagesOK
    <2> QED BY <2>2, <2>4
<1>2. CASE walk # NoWalk
    <2>1. walk' = [walk EXCEPT !.unchanged = FALSE]
        BY <1>2 DEF ContentChanges
    <2>2. WalkOK'
        BY <2>1 DEF LibInv, WalkOK
    <2>3. ~ walk'.unchanged
        BY <2>1 DEF LibInv, WalkOK
    <2>4. PagesOK'
        BY <2>3 DEF PagesOK
    <2> QED BY <2>2, <2>4
<1> QED BY <1>1, <1>2

\* The walk goes on with a page that continues it.
LEMMA NextPageStep ==
    ASSUME LibInv, NextPage
    PROVE  WalkOK' /\ PagesOK'
<1> DEFINE listing == Listing(walk.op, walk.order)
           n == Len(listing)
           k == Len(walk.got)
           page == Page(walk.op, k, walk.count, walk.order)
           reply == [i \in DOMAIN page |-> Entry(walk.op, page[i], walk.filter)]
           entries == EntriesOf(walk.op, walk.filter)
<1>1. /\ walk \in [op : Operations, order : Orders, count : Nat \ {0}, filter : Filters \cup {{}},
                   got : Seq(entries), over : BOOLEAN, unchanged : BOOLEAN, answered : BOOLEAN]
      /\ walk.got \in Seq(entries) /\ k \in Nat /\ walk.count \in Nat /\ walk.op \in Operations
      /\ walk.order \in Orders
    BY DEF LibInv, WalkOK
<1>2. /\ listing \in Seq(Objects) /\ n \in Nat /\ n < Width
    <2>1. Lists(listing, Selected(walk.op)) /\ Selected(walk.op) \subseteq Objects
          /\ Cardinality(Selected(walk.op)) < Width
        BY <1>1, ListingCorrect DEF LibInv
    <2> HIDE DEF listing
    <2> QED BY <2>1 DEF Lists
<1>3. page = Section(listing, AsUint32(k), AsUint32(walk.count))
    BY DEF Page
<1>4. page \in Seq(Objects)
    <2>1. AsUint32(k) \in Nat /\ AsUint32(walk.count) \in Nat
        BY <1>1, Uint32Bounds
    <2> QED BY <1>2, <1>3, <2>1, SectionTyped
<1>5. Reply(walk.op, k, walk.count, walk.filter, walk.order) = reply
    BY <1>1, ReplyEntries
<1> DEFINE short == Len(reply) < walk.count
           answered == walk.answered /\ TRUE
<1> HIDE DEF reply
<1>6. walk' = [walk EXCEPT !.got = walk.got \o reply, !.over = short, !.answered = answered]
    BY <1>5 DEF NextPage, TakePage
<1> HIDE DEF listing, page, k
<1>7. reply \in Seq(entries) /\ Len(reply) = Len(page) /\ Len(reply) \in Nat
      /\ \A i \in 1 .. Len(page) : reply[i] = Entry(walk.op, page[i], walk.filter)
    BY <1>4 DEF EntriesOf, reply
<1>8. /\ walk'.op = walk.op /\ walk'.order = walk.order /\ walk'.filter = walk.filter
      /\ walk'.count = walk.count /\ walk'.unchanged = walk.unchanged
      /\ walk'.got = walk.got \o reply /\ walk'.over = short
    BY <1>1, <1>6
<1>9. WalkOK'
    <2>1. entries' = entries
        BY <1>8 DEF EntriesOf
    <2>2. walk'.got \in Seq(entries)
        BY <1>1, <1>7, <1>8
    <2>3. short \in BOOLEAN /\ answered \in BOOLEAN
        OBVIOUS
    <2> HIDE DEF entries, short, answered
    <2>4. walk' \in [op : Operations, order : Orders, count : Nat \ {0}, filter : Filters \cup {{}},
                     got : Seq(entries), over : BOOLEAN, unchanged : BOOLEAN, answered : BOOLEAN]
        BY <1>1, <1>6, <1>8, <2>2, <2>3
    <2> QED BY <2>1, <2>4 DEF WalkOK, entries
<1>10. ASSUME walk.unchanged
      PROVE  /\ Len(walk'.got) <= n
             /\ \A i \in 1 .. Len(walk'.got) : walk'.got[i] = Entry(walk.op, listing[i], walk.filter)
             /\ walk'.over /\ walk.count <= Width => Len(walk'.got) = n
    <2>1. k <= n /\ \A i \in 1 .. k : walk.got[i] = Entry(walk.op, listing[i], walk.filter)
        BY <1>10 DEF LibInv, PagesOK, listing, k
    <2>2. k \in 0 .. n
        BY <1>1, <1>2, <2>1
    <2>3. /\ k + Len(page) <= n
          /\ \A i \in 1 .. Len(page) : page[i] = listing[k + i]
          /\ walk.count <= Width /\ Len(page) < walk.count => k + Len(page) = n
        <3> DEFINE count == walk.count
        <3>1. listing \in Seq(Objects) /\ Len(listing) < Width /\ k \in 0 .. Len(listing)
              /\ count \in Nat /\ page = Section(listing, AsUint32(k), AsUint32(count))
            BY <1>1, <1>2, <1>3, <2>2
        <3> HIDE DEF count
        <3>2. /\ k + Len(page) <= Len(listing)
              /\ \A i \in 1 .. Len(page) : page[i] = listing[k + i]
              /\ count <= Width /\ Len(page) < count => k + Len(page) = Len(listing)
            BY <3>1, PageContinues, ZenonT(30)
        <3> QED BY <3>2 DEF count
    <2>4. Len(walk'.got) = k + Len(page)
        <3>1. walk.got \in Seq(entries) /\ reply \in Seq(entries)
            BY <1>1, <1>7
        <3> HIDE DEF entries
        <3>2. Len(walk.got \o reply) = Len(walk.got) + Len(reply)
            BY <3>1
        <3> QED BY <1>7, <1>8, <3>2 DEF k
    <2>5. ASSUME NEW i \in 1 .. (k + Len(page))
          PROVE  walk'.got[i] = Entry(walk.op, listing[i], walk.filter)
        <3>1. CASE i <= k
            <4>1. i \in 1 .. k /\ walk'.got[i] = walk.got[i]
                BY <1>1, <1>7, <1>8, <3>1 DEF k
            <4> QED BY <2>1, <4>1
        <3>2. CASE i > k
            <4>1. i - k \in 1 .. Len(page) /\ walk'.got[i] = reply[i - k] /\ k + (i - k) = i
                BY <1>1, <1>7, <1>8, <3>2 DEF k
            <4>2. reply[i - k] = Entry(walk.op, page[i - k], walk.filter)
                BY <1>7, <4>1
            <4>3. page[i - k] = listing[i]
                BY <2>3, <4>1
            <4> QED BY <4>1, <4>2, <4>3
        <3> QED BY <1>1, <3>1, <3>2
    <2>6. walk'.over => Len(page) < walk.count
        BY <1>7, <1>8
    <2> QED BY <2>3, <2>4, <2>5, <2>6
<1>11. PagesOK'
    <2>1. Listing(walk.op, walk.order)' = listing
        BY <1>8, ListingStays DEF NextPage, listing
    <2> QED BY <1>8, <1>10, <2>1 DEF PagesOK
<1> QED BY <1>9, <1>11

\* An item of the queue is a known one.
LEMMA RawPath ==
    ASSUME NEW o \in Objects
    PROVE  Raw(o).value.Path.value = o
<1>1. /\ "Path" \in DOMAIN Content[o] /\ Content[o].Path = GVariant("object path", o)
    BY ContentAssumption
<1>2. GVariant("object path", o).type = "object path" /\ GVariant("object path", o).value = o
    BY DEF GVariant
<1>3. ValueToJSON(Content[o].Path) = JSON("string", o)
    BY <1>1, <1>2, PathConverted
<1>4. Fields(o, DOMAIN Content[o]).Path = ValueToJSON(Content[o].Path)
    BY <1>1 DEF Fields
<1>5. Raw(o).value = Fields(o, DOMAIN Content[o])
    BY DEF Raw, JSON
<1>6. JSON("string", o).value = o
    BY DEF JSON
<1> QED BY <1>3, <1>4, <1>5, <1>6

\* What the queue holds is a known item with that item's URLs, and showing it
\* makes it such a one again; once shown it stays as it is.
LEMMA QueueItemKnown ==
    ASSUME NEW item \in QueueItems
    PROVE  /\ item.value.Path.value \in Items
           /\ \E o \in Items : URLs(item.value) = URLs(Fields(o, DOMAIN Content[o]))
           /\ Shown(item) \in QueueItems
           /\ Shown(Shown(item)) = Shown(item)
           /\ URLs(Shown(item).value) = URLs(item.value)
           /\ shownURI(URLs(item.value)) = NoUrl => "URI" \notin DOMAIN item.value
<1> DEFINE result(x) == postProcessJSONObjectResources(x.value)
<1>1. PICK o \in Items : item = Raw(o) \/ item = Shown(Raw(o))
    BY DEF QueueItems
<1>2. o \in Objects
    BY LibraryAssumption
<1>3. \A x : Shown(x).value = result(x)
    BY DEF Shown, JSON
<1>4. \A x : URLs(result(x)) = URLs(x.value) /\ postProcessJSONObjectResources(result(x)) = result(x)
    BY PostProcessedTwice
<1>5. \A x : Shown(Shown(x)) = Shown(x)
    <2> TAKE x
    <2>1. Shown(Shown(x)) = JSON("object", postProcessJSONObjectResources(Shown(x).value))
        BY DEF Shown
    <2> QED BY <1>3, <1>4, <2>1 DEF Shown
<1>6. \A x : URLs(Shown(x).value) = URLs(x.value)
    BY <1>3, <1>4
<1>7. Raw(o).value = Fields(o, DOMAIN Content[o])
    BY DEF Raw, JSON
<1>8. URLs(item.value) = URLs(Fields(o, DOMAIN Content[o]))
    BY <1>1, <1>6, <1>7
<1>9. Shown(item) \in QueueItems
    BY <1>1, <1>5 DEF QueueItems
<1>10. item.value.Path.value = o
    <2>1. Raw(o).value.Path.value = o
        BY <1>2, RawPath
    <2>2. "Path" \in DOMAIN Raw(o).value \ {"URI"}
        BY <1>2, <1>7, ContentAssumption DEF Fields
    <2>3. Shown(Raw(o)).value.Path = Raw(o).value.Path
        BY <1>3, <2>2, PostProcessed
    <2> QED BY <1>1, <2>1, <2>3
<1>11. shownURI(URLs(item.value)) = NoUrl => "URI" \notin DOMAIN item.value
    <2>1. "URI" \notin DOMAIN Raw(o).value
        BY <1>2, <1>7, ContentAssumption DEF Fields
    <2>2. shownURI(URLs(Raw(o).value)) = NoUrl => Shown(Raw(o)).value = Raw(o).value
        BY <1>3, PostProcessed
    <2> QED BY <1>1, <1>6, <2>1, <2>2
<1> QED BY <1>5, <1>6, <1>8, <1>9, <1>10, <1>11

\* The object whose path is looked for is found once at most.
LEMMA EnqueueStep ==
    ASSUME LibInv, NEW o \in Objects, enqueueUri(o)
    PROVE  QueueOK'
<1> DEFINE listed == ListedItems(EnqueueLimit)
           places == {i \in DOMAIN listed : listed[i].value.Path.value = o}
           kept == Kept(listed, places)
<1>1. PICK page \in Seq(Items) :
          listed = [i \in 1 .. Len(page) |-> Raw(page[i])] /\ IsInjective(page)
    BY LibraryAssumption, ItemsListed DEF LibInv
<1>2. playqueue' = playqueue \o kept /\ Len(playqueue) < MaxQueue
    BY DEF enqueueUri
<1> HIDE DEF listed
<1>3. Len(page) \in Nat /\ DOMAIN listed = 1 .. Len(page) /\ places \in SUBSET (1 .. Len(page))
    BY <1>1
<1>4. \A i \in 1 .. Len(page) : listed[i] = Raw(page[i]) /\ page[i] \in Items /\ page[i] \in Objects
    BY <1>1, LibraryAssumption
<1>5. \A i \in places : page[i] = o
    BY <1>3, <1>4, RawPath
<1> HIDE DEF places
<1>6. Cardinality(places) <= 1
    <2>1. CASE places = {}
        BY <2>1, FS_EmptySet
    <2>2. CASE places # {}
        <3>1. PICK p \in places : TRUE
            BY <2>2
        <3>2. \A i \in places : i = p
            BY <1>1, <1>3, <1>5, <3>1 DEF IsInjective
        <3>3. places = {p}
            BY <3>1, <3>2
        <3>4. Cardinality({p}) = 1
            BY FS_Singleton
        <3> QED BY <3>3, <3>4
    <2> QED BY <2>1, <2>2
<1>7. /\ Cardinality(places) \in Nat /\ DOMAIN kept = 1 .. Cardinality(places)
      /\ \A i \in DOMAIN kept : \E p \in places : kept[i] = listed[p]
    BY <1>3, KeptCorrect
<1>8. \A i \in DOMAIN kept : kept[i] \in QueueItems
    BY <1>3, <1>4, <1>7 DEF QueueItems
<1>9. kept = [i \in 1 .. Cardinality(places) |-> kept[i]]
    BY <1>7 DEF Kept
<1> HIDE DEF kept
<1>10. kept \in Seq(QueueItems) /\ Len(kept) <= 1
    BY <1>6, <1>7, <1>8, <1>9
<1> QED BY <1>2, <1>10, LibraryAssumption DEF LibInv, QueueOK

\* A playlist fits into the queue.
LEMMA OpenStep ==
    ASSUME LibInv, openPlaylist
    PROVE  QueueOK'
<1> DEFINE listed == ListedItems(PlaylistLimit)
<1>1. PICK page \in Seq(Items) : listed = [i \in 1 .. Len(page) |-> Raw(page[i])]
    BY LibraryAssumption, ItemsListed DEF LibInv
<1>2. playqueue' = listed /\ Len(listed) <= MaxQueue
    BY DEF openPlaylist
<1> HIDE DEF listed
<1>3. \A i \in 1 .. Len(page) : Raw(page[i]) \in QueueItems
    BY DEF QueueItems
<1>4. listed \in Seq(QueueItems)
    BY <1>1, <1>3
<1> QED BY <1>2, <1>4 DEF QueueOK

\* Showing the queue keeps it one of known items.
LEMMA ShowStep ==
    ASSUME LibInv, getCurrentPlayQueue
    PROVE  /\ QueueOK' /\ Len(playqueue') = Len(playqueue)
           /\ \A i \in DOMAIN playqueue : playqueue'[i] = Shown(playqueue[i])
<1>1. playqueue' = [i \in DOMAIN playqueue |-> Shown(playqueue[i])]
    BY DEF getCurrentPlayQueue, postProcessJSON, Shown
<1>2. \A i \in DOMAIN playqueue : playqueue[i] \in QueueItems
    BY DEF LibInv, QueueOK
<1>3. \A i \in DOMAIN playqueue : Shown(playqueue[i]) \in QueueItems
    BY <1>2, QueueItemKnown
<1> QED BY <1>1, <1>3 DEF LibInv, QueueOK

\* What comes into the container is new there.
LEMMA AddStep ==
    ASSUME LibInv, NEW o, New(o)
    PROVE  /\ children' = Append(children, o) => ChildrenOK'
           /\ children' = <<o>> \o children => ChildrenOK'
<1>1. /\ o \in Objects /\ children \in Seq(Objects) /\ Len(children) \in Nat
      /\ \A i \in 1 .. Len(children) : children[i] # o
      /\ \A i, j \in 1 .. Len(children) : children[i] = children[j] => i = j
    BY LibraryAssumption DEF LibInv, ChildrenOK, New, Range, IsInjective
<1>2. ASSUME children' = Append(children, o) PROVE ChildrenOK'
    BY <1>1, <1>2 DEF ChildrenOK, IsInjective
<1>3. ASSUME children' = <<o>> \o children PROVE ChildrenOK'
    <2>1. /\ children' \in Seq(Objects) /\ Len(children') = Len(children) + 1 /\ children'[1] = o
          /\ \A i \in 2 .. Len(children) + 1 : children'[i] = children[i - 1]
        BY <1>1, <1>3
    <2>2. ASSUME NEW i \in 1 .. Len(children) + 1, NEW j \in 1 .. Len(children) + 1,
                 children'[i] = children'[j]
          PROVE  i = j
        <3>1. CASE i = 1 /\ j = 1
            BY <3>1
        <3>2. CASE i = 1 /\ j # 1
            <4>1. j \in 2 .. Len(children) + 1 /\ j - 1 \in 1 .. Len(children)
                BY <1>1, <3>2
            <4> QED BY <1>1, <2>1, <2>2, <3>2, <4>1
        <3>3. CASE i # 1 /\ j = 1
            <4>1. i \in 2 .. Len(children) + 1 /\ i - 1 \in 1 .. Len(children)
                BY <1>1, <3>3
            <4> QED BY <1>1, <2>1, <2>2, <3>3, <4>1
        <3>4. CASE i # 1 /\ j # 1
            <4>1. /\ i \in 2 .. Len(children) + 1 /\ j \in 2 .. Len(children) + 1
                  /\ i - 1 \in 1 .. Len(children) /\ j - 1 \in 1 .. Len(children)
                BY <1>1, <3>4
            <4>2. i - 1 = j - 1
                BY <1>1, <2>1, <2>2, <4>1
            <4> QED BY <4>1, <4>2
        <3> QED BY <3>1, <3>2, <3>3, <3>4
    <2>3. DOMAIN children' = 1 .. Len(children) + 1
        BY <1>1, <2>1
    <2> QED BY <2>1, <2>2, <2>3 DEF ChildrenOK, IsInjective
<1> QED BY <1>2, <1>3

\* What is left after a removal are distinct objects.
LEMMA RemoveStep ==
    ASSUME LibInv, NEW i \in DOMAIN children, children' = RemoveAt(children, i)
    PROVE  ChildrenOK'
<1> DEFINE n == Len(children)
<1>1. /\ children \in Seq(Objects) /\ n \in Nat /\ i \in 1 .. n
      /\ \A j, k \in 1 .. n : children[j] = children[k] => j = k
    BY DEF LibInv, ChildrenOK, IsInjective
<1> HIDE DEF n
<1> DEFINE before == SubSeq(children, 1, i - 1)
           after == SubSeq(children, i + 1, n)
<1>2. /\ before \in Seq(Objects) /\ Len(before) = i - 1
      /\ \A j \in 1 .. i - 1 : before[j] = children[j]
    BY <1>1 DEF n
<1>3. /\ after \in Seq(Objects) /\ Len(after) = n - i
      /\ \A j \in 1 .. n - i : after[j] = children[j + i]
    BY <1>1 DEF n
<1>4. children' = before \o after
    BY DEF RemoveAt, n
<1> HIDE DEF before, after
<1>5. /\ children' \in Seq(Objects) /\ Len(children') = n - 1
      /\ \A j \in 1 .. i - 1 : children'[j] = before[j]
      /\ \A j \in i .. n - 1 : children'[j] = after[j - i + 1]
    <2> DEFINE a == Len(before)
               b == Len(after)
    <2>1. /\ before \o after \in Seq(Objects) /\ Len(before \o after) = a + b
          /\ \A j \in 1 .. a : (before \o after)[j] = before[j]
          /\ \A j \in 1 .. b : (before \o after)[a + j] = after[j]
        BY <1>2, <1>3
    <2>2. a = i - 1 /\ b = n - i
        BY <1>2, <1>3
    <2> HIDE DEF a, b
    <2>3. \A j \in i .. n - 1 : j - i + 1 \in 1 .. b /\ a + (j - i + 1) = j
        BY <1>1, <2>2
    <2>4. \A j \in i .. n - 1 : children'[j] = after[j - i + 1]
        BY <1>4, <2>1, <2>3
    <2>5. children' \in Seq(Objects) /\ Len(children') = a + b
        BY <1>4, <2>1
    <2>6. a + b = n - 1
        BY <1>1, <2>2
    <2>7. \A j \in 1 .. i - 1 : children'[j] = before[j]
        BY <1>4, <2>1, <2>2
    <2> QED BY <2>4, <2>5, <2>6, <2>7
<1>6. ASSUME NEW j \in 1 .. n - 1
      PROVE  \E k \in 1 .. n : /\ children'[j] = children[k] /\ k # i
                               /\ k = IF j < i THEN j ELSE j + 1
    <2>1. CASE j < i
        <3>1. j \in 1 .. i - 1 /\ j \in 1 .. n
            BY <1>1, <2>1
        <3>2. children'[j] = children[j]
            BY <1>2, <1>5, <3>1
        <3> QED BY <1>1, <2>1, <3>1, <3>2
    <2>2. CASE ~ (j < i)
        <3>1. j \in i .. n - 1 /\ j - i + 1 \in 1 .. n - i /\ (j - i + 1) + i = j + 1
              /\ j + 1 \in 1 .. n /\ j + 1 # i
            BY <1>1, <2>2
        <3>2. children'[j] = after[j - i + 1]
            BY <1>5, <3>1
        <3>3. after[j - i + 1] = children[(j - i + 1) + i]
            BY <1>3, <3>1
        <3>4. children'[j] = children[j + 1]
            BY <3>1, <3>2, <3>3
        <3> QED BY <2>2, <3>1, <3>4
    <2> QED BY <2>1, <2>2
<1>7. ASSUME NEW j \in 1 .. n - 1, NEW k \in 1 .. n - 1, children'[j] = children'[k]
      PROVE  j = k
    <2>1. PICK a \in 1 .. n : children'[j] = children[a] /\ a = IF j < i THEN j ELSE j + 1
        BY <1>6
    <2>2. PICK b \in 1 .. n : children'[k] = children[b] /\ b = IF k < i THEN k ELSE k + 1
        BY <1>6
    <2>3. a = b
        BY <1>1, <1>7, <2>1, <2>2
    <2> QED BY <1>1, <2>1, <2>2, <2>3
<1>8. DOMAIN children' = 1 .. n - 1
    BY <1>1, <1>5
<1> QED BY <1>5, <1>7, <1>8 DEF ChildrenOK, IsInjective

\* Nothing but the queue changes.
LEMMA WalkStays ==
    ASSUME LibInv, UNCHANGED <<children, walk>>
    PROVE  ChildrenOK' /\ WalkOK' /\ PagesOK'
<1>1. Listing(walk.op, walk.order)' = Listing(walk.op, walk.order)
    BY ListingStays
<1>2. ChildrenOK' /\ WalkOK'
    BY DEF LibInv, ChildrenOK, WalkOK
<1>3. PagesOK'
    BY <1>1 DEF LibInv, PagesOK
<1> QED BY <1>2, <1>3

\* Creating an object, done or not.
LEMMA CreateStep ==
    ASSUME LibInv, NEW o \in Spare, createContainer(o) \/ createReference(o)
    PROVE  ChildrenOK' /\ WalkOK' /\ PagesOK' /\ UNCHANGED <<changes, playqueue>>
<1>1. /\ New(o) /\ UNCHANGED <<changes, playqueue>> /\ o \in Objects
      /\ ContentChanges(Append(children, o)) \/ UNCHANGED <<children, walk>>
    BY LibraryAssumption DEF createContainer, createReference
<1>2. CASE ContentChanges(Append(children, o))
    <2>1. children' = Append(children, o)
        BY <1>2 DEF ContentChanges
    <2>2. ChildrenOK'
        BY <1>1, <2>1, AddStep
    <2>3. WalkOK' /\ PagesOK'
        BY <1>2, <2>2, ContainerChanges
    <2> QED BY <1>1, <2>2, <2>3
<1>3. CASE UNCHANGED <<children, walk>>
    BY <1>1, <1>3, WalkStays
<1> QED BY <1>1, <1>2, <1>3

\* Others change the container, not the pages a client has got.
LEMMA OthersStep ==
    ASSUME LibInv, OthersChange
    PROVE  ChildrenOK' /\ WalkOK' /\ PagesOK' /\ changes' \in 0 .. MaxChanges
<1>1. changes' \in 0 .. MaxChanges
    BY LibraryAssumption DEF OthersChange, LibInv
<1>2. CASE \E o \in Spare : New(o) /\ ContentChanges(<<o>> \o children)
    <2>1. PICK o \in Spare : New(o) /\ ContentChanges(<<o>> \o children)
        BY <1>2
    <2>2. ChildrenOK'
        BY <2>1, AddStep DEF ContentChanges
    <2> QED BY <1>1, <2>1, <2>2, ContainerChanges
<1>3. CASE \E i \in DOMAIN children : ContentChanges(RemoveAt(children, i))
    <2>1. PICK i \in DOMAIN children : ContentChanges(RemoveAt(children, i))
        BY <1>3
    <2>2. ChildrenOK'
        BY <2>1, RemoveStep DEF ContentChanges
    <2> QED BY <1>1, <2>1, <2>2, ContainerChanges
<1> QED BY <1>2, <1>3 DEF OthersChange

\* A walk starts, fails or ends; the container and the queue stay.
LEMMA WalkStep ==
    ASSUME LibInv, StartWalk \/ PageFails \/ EndWalk
    PROVE  WalkOK' /\ PagesOK'
<1>1. /\ ChildrenOK /\ UNCHANGED children
    BY DEF LibInv, StartWalk, PageFails, EndWalk
<1>2. ASSUME walk'.op \in Operations, walk'.order \in Orders
      PROVE  Len(Listing(walk.op, walk.order))' \in Nat
    <2>1. ChildrenOK'
        BY <1>1 DEF ChildrenOK
    <2>2. (ChildrenOK /\ walk.op \in Operations /\ walk.order \in Orders)' =>
              (Len(Listing(walk.op, walk.order)) \in Nat)'
        BY WalkCounted, PTL
    <2> QED BY <1>2, <2>1, <2>2
<1>3. CASE StartWalk
    <2>1. PICK op \in Operations, order \in Orders, count \in Counts, filter \in Filters :
              walk' = [op |-> op, order |-> order, count |-> count, filter |-> filter,
                       got |-> <<>>, over |-> FALSE, unchanged |-> TRUE, answered |-> TRUE]
        BY <1>3 DEF StartWalk
    <2>2. WalkOK'
        BY <2>1, LibraryAssumption DEF WalkOK
    <2>3. walk'.got = <<>> /\ ~ walk'.over /\ walk'.op \in Operations /\ walk'.order \in Orders
        BY <2>1
    <2> QED BY <1>2, <2>2, <2>3 DEF PagesOK
<1>4. CASE PageFails
    <2> DEFINE entries == EntriesOf(walk.op, walk.filter)
               short == Len(<<>>) < walk.count
    <2>1. walk' = [walk EXCEPT !.got = walk.got \o <<>>, !.over = short,
                               !.answered = walk.answered /\ FALSE]
        BY <1>4 DEF PageFails, TakePage
    <2>2. /\ walk \in [op : Operations, order : Orders, count : Nat \ {0},
                       filter : Filters \cup {{}}, got : Seq(entries), over : BOOLEAN,
                       unchanged : BOOLEAN, answered : BOOLEAN]
          /\ walk.got \o <<>> = walk.got
        BY DEF LibInv, WalkOK
    <2>3. short \in BOOLEAN /\ (walk.answered /\ FALSE) = FALSE
        OBVIOUS
    <2> HIDE DEF short
    <2>4. walk' = [walk EXCEPT !.over = short, !.answered = FALSE]
        <3> HIDE DEF entries
        <3>1. walk' = [walk EXCEPT !.got = walk.got, !.over = short, !.answered = FALSE]
            BY <2>1, <2>2, <2>3
        <3>2. walk = [walk EXCEPT !.got = walk.got]
            BY <2>2
        <3> QED BY <2>2, <3>1, <3>2
    <2>5. /\ walk'.op = walk.op /\ walk'.order = walk.order /\ walk'.filter = walk.filter
          /\ walk'.unchanged = walk.unchanged /\ walk'.got = walk.got /\ ~ walk'.answered
        BY <2>2, <2>4
    <2>6. entries' = entries
        BY <2>5
    <2>7. WalkOK'
        <3> HIDE DEF entries
        <3>1. walk' \in [op : Operations, order : Orders, count : Nat \ {0},
                         filter : Filters \cup {{}}, got : Seq(entries), over : BOOLEAN,
                         unchanged : BOOLEAN, answered : BOOLEAN]
            BY <2>2, <2>3, <2>4
        <3> QED BY <2>6, <3>1 DEF WalkOK, entries
    <2>8. Listing(walk.op, walk.order)' = Listing(walk.op, walk.order)
        BY <1>1, <2>5, ListingStays
    <2> QED BY <2>5, <2>7, <2>8 DEF LibInv, PagesOK
<1>5. CASE EndWalk
    <2>1. walk' = NoWalk
        BY <1>5 DEF EndWalk
    <2>2. WalkOK'
        BY <2>1 DEF WalkOK, NoWalk, Operations, Orders
    <2>3. /\ walk'.got = <<>> /\ ~ walk'.answered /\ walk'.op \in Operations
          /\ walk'.order \in Orders
        BY <2>1 DEF NoWalk, Operations, Orders
    <2> QED BY <1>2, <2>2, <2>3 DEF PagesOK
<1> QED BY <1>3, <1>4, <1>5

\* Every step keeps the invariant.
LEMMA NextLibInv == LibInv /\ [Next]_vars => LibInv'
<1> SUFFICES ASSUME LibInv, [Next]_vars PROVE LibInv'
    OBVIOUS
<1>1. CASE StartWalk \/ PageFails \/ EndWalk
    <2>1. UNCHANGED <<children, changes, playqueue>>
        BY <1>1 DEF StartWalk, PageFails, EndWalk
    <2>2. WalkOK' /\ PagesOK'
        BY <1>1, WalkStep
    <2> QED BY <2>1, <2>2 DEF LibInv, ChildrenOK, QueueOK
<1>2. CASE NextPage
    <2>1. UNCHANGED <<children, changes, playqueue>>
        BY <1>2 DEF NextPage
    <2>2. WalkOK' /\ PagesOK'
        BY <1>2, NextPageStep
    <2> QED BY <2>1, <2>2 DEF LibInv, ChildrenOK, QueueOK
<1>3. ASSUME NEW o \in Spare, createContainer(o) \/ createReference(o) PROVE LibInv'
    BY <1>3, CreateStep DEF LibInv, QueueOK
<1>4. CASE OthersChange
    <2>1. UNCHANGED playqueue
        BY <1>4 DEF OthersChange
    <2> QED BY <1>4, <2>1, OthersStep DEF LibInv, QueueOK
<1>5. ASSUME QueueOK', UNCHANGED <<children, changes, walk>> PROVE LibInv'
    BY <1>5, WalkStays DEF LibInv
<1>6. ASSUME NEW o \in Objects, enqueueUri(o) PROVE LibInv'
    BY <1>5, <1>6, EnqueueStep DEF enqueueUri
<1>7. CASE openPlaylist
    BY <1>5, <1>7, OpenStep DEF openPlaylist
<1>8. CASE dequeueAll
    <2>1. QueueOK'
        BY <1>8, LibraryAssumption DEF dequeueAll, QueueOK
    <2> QED BY <1>5, <1>8, <2>1 DEF dequeueAll
<1>9. CASE getCurrentPlayQueue
    BY <1>5, <1>9, ShowStep DEF getCurrentPlayQueue
<1>10. CASE UNCHANGED vars
    BY <1>10, WalkStays DEF vars, LibInv, QueueOK
<1> QED BY <1>1, <1>2, <1>3, <1>4, <1>6, <1>7, <1>8, <1>9, <1>10 DEF Next

\* The invariant, in every reachable state.
THEOREM LibInvHolds == Spec => []LibInv
    BY InitLibInv, NextLibInv, PTL DEF Spec

-------------------------------------------------------------------------------
(* What the runs check. *)

\* The children are distinct objects and the queue holds known items, no more
\* than its bound, whatever is created, removed and queued.
THEOREM TypeCorrect == Spec => []TypeOK
<1>1. ASSUME LibInv PROVE TypeOK
    <2>1. Range(children) \subseteq Objects /\ IsInjective(children)
        BY <1>1 DEF LibInv, ChildrenOK, Range
    <2>2. walk.op \in Operations /\ walk.order \in Orders
        BY <1>1 DEF LibInv, WalkOK
    <2>3. Len(playqueue) <= MaxQueue /\ \A i \in DOMAIN playqueue : playqueue[i] \in QueueItems
        BY <1>1 DEF LibInv, QueueOK
    <2>4. \A i \in DOMAIN playqueue : playqueue[i].value.Path.value \in Items
        BY <2>3, QueueItemKnown
    <2> QED BY <1>1, <2>1, <2>2, <2>3, <2>4 DEF TypeOK, LibInv
<1> QED BY <1>1, LibInvHolds, PTL

\* Pages fit together, for every container, order, page size and number width.
THEOREM PagesFit == Spec => []PagesAreListing
<1>1. ASSUME LibInv PROVE PagesAreListing
    <2> SUFFICES ASSUME walk.unchanged, PathsAsked
                 PROVE  LET paths == [i \in DOMAIN walk.got |-> walk.got[i].Path.value]
                        IN  /\ IsPrefix(paths, Wanted)
                            /\ walk.over /\ walk.answered /\ walk.count <= Width => paths = Wanted
        BY DEF PagesAreListing
    <2> DEFINE listing == Listing(walk.op, walk.order)
               paths == [i \in DOMAIN walk.got |-> walk.got[i].Path.value]
               k == Len(walk.got)
    <2>1. /\ walk.op \in Operations /\ walk.order \in Orders
          /\ walk.got \in Seq(EntriesOf(walk.op, walk.filter))
        BY <1>1 DEF LibInv, WalkOK
    <2>2. Wanted = listing
        BY <2>1, WantedIsListing
    <2>3. Lists(listing, Selected(walk.op)) /\ Selected(walk.op) \subseteq Objects
        BY <1>1, <2>1, ListingCorrect DEF LibInv
    <2>4. /\ k <= Len(listing)
          /\ \A i \in 1 .. k : walk.got[i] = Entry(walk.op, listing[i], walk.filter)
          /\ walk.over /\ walk.answered /\ walk.count <= Width => k = Len(listing)
        BY <1>1 DEF LibInv, PagesOK
    <2> HIDE DEF listing
    <2>5. listing \in Seq(Objects) /\ Len(listing) \in Nat /\ DOMAIN listing = 1 .. Len(listing)
        BY <2>3 DEF Lists
    <2>6. k \in Nat /\ DOMAIN walk.got = 1 .. k
        BY <2>1
    <2> HIDE DEF k
    <2>7. \A i \in 1 .. k : i \in 1 .. Len(listing) /\ listing[i] \in Objects
        <3>1. k <= Len(listing) /\ Len(listing) \in Nat /\ k \in Nat
            BY <2>4, <2>5, <2>6
        <3>2. 1 .. k \subseteq 1 .. Len(listing)
            BY <3>1
        <3> QED BY <2>5, <3>2
    <2>8. ASSUME NEW i \in 1 .. k PROVE walk.got[i].Path.value = listing[i]
        <3>1. listing[i] \in Objects
            BY <2>7
        <3>2. "Path" \in DOMAIN Entry(walk.op, listing[i], walk.filter)
            BY <3>1, EntryNames DEF PathsAsked
        <3>3. Entry(walk.op, listing[i], walk.filter).Path.value = listing[i]
            BY <3>1, <3>2, EntryNames
        <3> QED BY <2>4, <3>3
    <2>9. paths = [i \in 1 .. k |-> listing[i]]
        BY <2>6, <2>8
    <2> HIDE DEF paths
    <2>10. paths \in Seq(Objects) /\ Len(paths) = k /\ \A i \in 1 .. k : paths[i] = listing[i]
        BY <2>6, <2>9, <2>7
    <2>11. SubSeq(paths, 1, k) = SubSeq(listing, 1, k)
        BY <2>5, <2>6, <2>10, <2>7
    <2>12. IsPrefix(paths, listing)
        BY <2>4, <2>10, <2>11 DEF IsPrefix
    <2>13. k = Len(listing) => paths = listing
        BY <2>5, <2>9
    <2> QED BY <2>2, <2>4, <2>12, <2>13 DEF paths
<1> QED BY <1>1, LibInvHolds, PTL

\* Replies have what was asked for, each value as Conveyed says, for every content,
\* filter and listing.
THEOREM RepliesAreTrue == Spec => []ReplyIsTrue
<1>1. ASSUME LibInv PROVE ReplyIsTrue
    <2> SUFFICES ASSUME PathsAsked, NEW i \in DOMAIN walk.got
                 PROVE  LET entry == walk.got[i]
                            o == entry.Path.value
                            property == Content[o]
                        IN  /\ DOMAIN entry \ {"URI"} = Asked(o, walk.filter) \cap m_generalFilter
                            /\ \A key \in DOMAIN entry \ {"URI"} : Conveyed(property[key], entry[key])
        BY DEF ReplyIsTrue
    <2>1. walk.got \in Seq(EntriesOf(walk.op, walk.filter))
        BY <1>1 DEF LibInv, WalkOK
    <2>2. walk.got[i] \in EntriesOf(walk.op, walk.filter)
        BY <2>1
    <2>3. PICK o \in Objects : walk.got[i] = Entry(walk.op, o, walk.filter)
        BY <2>2 DEF EntriesOf
    <2>4. walk.got[i].Path.value = o
        BY <2>3, EntryNames DEF PathsAsked
    <2>5. /\ DOMAIN walk.got[i] \ {"URI"} = Asked(o, walk.filter) \cap m_generalFilter
          /\ \A key \in DOMAIN walk.got[i] \ {"URI"} : Conveyed(Content[o][key], walk.got[i][key])
        BY <2>3, EntryIsTrue
    <2> QED BY <2>4, <2>5
<1> QED BY <1>1, LibInvHolds, PTL

\* What the queue shows of an entry.
LEMMA QueueShows ==
    ASSUME NEW queue, NEW i \in DOMAIN queue, NEW uri, uri = shownURI(URLs(queue[i].value)),
           uri = NoUrl => "URI" \notin DOMAIN queue[i].value
    PROVE  ShownOf(QueueReply(queue)[i]) = uri
<1> DEFINE result == postProcessJSONObjectResources(queue[i].value)
           processed == postProcessJSON(queue)
           entry == [key \in DOMAIN result \cap m_generalFilter |-> ResultUnion(result[key])]
<1>1. DOMAIN processed = DOMAIN queue /\ processed[i].value = result
    BY DEF postProcessJSON, JSON
<1>2. QueueReply(queue)[i] = entry
    BY <1>1 DEF QueueReply, resultMapListToCAPIResultMapList
<1>3. /\ uri # NoUrl => "URI" \in DOMAIN result /\ result["URI"] = JSON("string", uri)
      /\ uri = NoUrl => "URI" \notin DOMAIN result
    BY PostProcessed
<1> HIDE DEF result
<1>4. CASE uri # NoUrl
    <2>1. "URI" \in DOMAIN entry /\ entry["URI"] = ResultUnion(JSON("string", uri))
        BY <1>3, <1>4 DEF m_generalFilter
    <2>2. ResultUnion(JSON("string", uri)).value = uri
        BY DEF ResultUnion, JSON
    <2> QED BY <1>2, <2>1, <2>2 DEF ShownOf
<1>5. CASE uri = NoUrl
    <2>1. "URI" \notin DOMAIN entry
        BY <1>3, <1>5
    <2> QED BY <1>2, <1>5, <2>1 DEF ShownOf
<1> QED BY <1>4, <1>5

\* The URI clients are shown and what the renderer is asked to open are
\* consistent, for every content, in the queue and wherever they browse.
THEOREM ShownURIsAreOpened == Spec => []ShownIsOpened
<1>1. ASSUME LibInv, NEW i \in DOMAIN playqueue
      PROVE  Consistent(URLs(playqueue[i].value), ShownOf(QueueReply(playqueue)[i]),
                        Opened(playqueue[i]))
    <2> DEFINE urls == URLs(playqueue[i].value)
               uri == shownURI(urls)
    <2>1. playqueue[i] \in QueueItems
        BY <1>1 DEF LibInv, QueueOK
    <2>2. PICK o \in Items : urls = URLs(Fields(o, DOMAIN Content[o]))
        BY <2>1, QueueItemKnown
    <2>3. urls \in UrlLists
        BY <2>2, LibraryAssumption, ContentAssumption DEF UrlLists, Fields
    <2>4. uri = NoUrl => "URI" \notin DOMAIN playqueue[i].value
        BY <2>1, QueueItemKnown
    <2>5. ShownOf(QueueReply(playqueue)[i]) = uri
        BY <2>4, QueueShows
    <2>6. Consistent(urls, uri, getLocalURL(urls))
        BY <2>3, ChoicesConsistent
    <2> QED BY <2>5, <2>6 DEF Opened
<1>2. ASSUME LibInv, NEW i \in DOMAIN walk.got, "Path" \in DOMAIN walk.got[i],
             "URI" \in DOMAIN walk.got[i] \/ ResourcesAsked
      PROVE  LET item == ObjectToJSON(Properties(walk.got[i].Path.value, {"*"}))
             IN  Consistent(URLs(item.value), ShownOf(walk.got[i]), Opened(item))
    <2>1. walk.got \in Seq(EntriesOf(walk.op, walk.filter))
        BY <1>2 DEF LibInv, WalkOK
    <2>2. walk.got[i] \in EntriesOf(walk.op, walk.filter)
        BY <1>2, <2>1
    <2>3. PICK o \in Objects : walk.got[i] = Entry(walk.op, o, walk.filter)
        BY <2>2 DEF EntriesOf
    <2> DEFINE item == ObjectToJSON(Properties(o, {"*"}))
               urls == URLs(Fields(o, DOMAIN Content[o]))
    <2>4. walk.got[i].Path.value = o /\ ShownOf(walk.got[i]) = shownURI(urls)
        BY <1>2, <2>3, EntryNames DEF ResourcesAsked, ShownOf
    <2>5. URLs(item.value) = urls
        <3>1. Asked(o, {"*"}) = DOMAIN Content[o]
            BY DEF Asked
        <3>2. item = JSON("object", Fields(o, DOMAIN Content[o]))
            BY <3>1, ObjectConverted
        <3> QED BY <3>2 DEF JSON
    <2>6. urls \in UrlLists
        BY ContentAssumption DEF UrlLists, Fields
    <2> HIDE DEF urls, item
    <2>7. Consistent(urls, shownURI(urls), getLocalURL(urls))
        BY <2>6, ChoicesConsistent
    <2> QED BY <2>4, <2>5, <2>7 DEF Opened, item
<1>3. ASSUME LibInv PROVE ShownIsOpened
    BY <1>1, <1>2, <1>3 DEF ShownIsOpened
<1> QED BY <1>3, LibInvHolds, PTL

\* Showing the queue changes neither what is opened nor what is shown.
THEOREM ViewsChangeNothing == Spec => ViewChangesNothing
<1>1. ASSUME LibInv, getCurrentPlayQueue
      PROVE  /\ \A i \in DOMAIN playqueue : Opened(playqueue'[i]) = Opened(playqueue[i])
             /\ QueueReply(playqueue') = QueueReply(playqueue)
    <2>1. /\ DOMAIN playqueue' = DOMAIN playqueue
          /\ \A i \in DOMAIN playqueue : playqueue'[i] = Shown(playqueue[i])
        BY <1>1 DEF getCurrentPlayQueue, postProcessJSON, Shown
    <2>2. \A i \in DOMAIN playqueue : playqueue[i] \in QueueItems
        BY <1>1 DEF LibInv, QueueOK
    <2>3. \A i \in DOMAIN playqueue : /\ URLs(playqueue'[i].value) = URLs(playqueue[i].value)
                                      /\ Shown(playqueue'[i]) = Shown(playqueue[i])
        BY <2>1, <2>2, QueueItemKnown
    <2>4. postProcessJSON(playqueue') = postProcessJSON(playqueue)
        BY <2>1, <2>3 DEF postProcessJSON, Shown
    <2> QED BY <2>3, <2>4 DEF Opened, QueueReply
<1>2. LibInv /\ [Next]_vars =>
          [getCurrentPlayQueue =>
              /\ \A i \in DOMAIN playqueue : Opened(playqueue'[i]) = Opened(playqueue[i])
              /\ QueueReply(playqueue') = QueueReply(playqueue)]_vars
    BY <1>1
<1> QED BY <1>2, LibInvHolds, PTL DEF Spec, ViewChangesNothing
===============================================================================
