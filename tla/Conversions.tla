------------------------------ MODULE Conversions ------------------------------
(***************************************************************************)
(* How what dLeyna answers becomes what clients get (common.cpp): GVariants*)
(* to JSON, the choice of the URI, and JSON to the unions of a ResultMap.  *)
(* Each kind of value is a record of its tag and its content; a dictionary *)
(* or JSON object is a function on its keys.                               *)
(***************************************************************************)
EXTENDS Resources, SequencesExt

CONSTANT LongHalf       \* half the range of a json_int_t, 2^63 in the program

ASSUME ConversionsAssumption == LongHalf \in Nat /\ LongHalf > 1

\* The elements of a set, in the order of their keys.
InOrder(S, key) ==
    CHOOSE s \in SetToSeqs(S) : \A i, j \in DOMAIN s : i < j => key[s[i]] < key[s[j]]

\* The entries of a list at some of its places, in the order of the list.
Kept(list, places) ==
    LET order == InOrder(places, [i \in DOMAIN list |-> i])
    IN  [n \in DOMAIN order |-> list[order[n]]]

GVariant(type, value) == [type |-> type, value |-> value]
JSON(kind, value) == [kind |-> kind, value |-> value]

Integral == {"uint32", "int32", "uint64", "int64"}

\* Any of the four integral types as a json_int_t.
AsInteger(x) == IF x < LongHalf THEN x ELSE x - 2 * LongHalf

Scalar(element) ==
    CASE element.type \in {"string", "object path"} -> JSON("string", element.value)
      [] element.type = "boolean"   -> JSON("boolean", element.value)
      [] element.type \in Integral  -> JSON("integer", AsInteger(element.value))
      [] OTHER                      -> JSON("string", "UNKNOWN: " \o element.type)

\* One call of the recursion; Inner is the call for the parts.
Converted(element, Inner(_)) ==
    LET Each == [k \in DOMAIN element.value |-> Inner(element.value[k])]
    IN  CASE element.type = "dictionary" -> JSON("object", Each)
          [] element.type = "array"      -> JSON("array", Each)
          [] element.type = "variant"    -> Inner(element.value)
          [] OTHER                       -> Scalar(element)

\* The recursion, as deep as answers go: an array of objects, whose properties
\* are variants of scalars, of arrays of scalars, or of arrays of dictionaries
\* of variants again.
FieldToJSON(element)    == Converted(element, Scalar)
MemberToJSON(element)   == Converted(element, FieldToJSON)
ValueToJSON(element)    == Converted(element, MemberToJSON)
PropertyToJSON(element) == Converted(element, ValueToJSON)
ObjectToJSON(element)   == Converted(element, PropertyToJSON)
DLNADictToJSON(element) == Converted(element, ObjectToJSON)

\* The URL members of an item's resources.
URLs(object) ==
    IF "Resources" \notin DOMAIN object \/ object.Resources.kind # "array" THEN <<>>
    ELSE LET resources == object.Resources.value
         IN  [i \in DOMAIN resources |->
                 IF "URL" \in DOMAIN resources[i].value /\ resources[i].value.URL.kind = "string"
                 THEN resources[i].value.URL.value ELSE NoUrl]

\* Mutant: the chosen URL goes to the first resource.
postProcessJSONObjectResourcesInPlace(object) ==
    IF shownURI(URLs(object)) = NoUrl THEN object
    ELSE [object EXCEPT !.Resources.value[1].value =
             [k \in DOMAIN @ \cup {"URL"} |->
             IF k = "URL" THEN JSON("string", shownURI(URLs(object))) ELSE @[k]]]

\* The chosen URL is put into the object under the key URI.
postProcessJSONObjectResources(object) ==
    LET uri == shownURI(URLs(object))
    IN  IF uri = NoUrl THEN object
        ELSE [key \in DOMAIN object \cup {"URI"} |->
                 IF key = "URI" THEN JSON("string", uri) ELSE object[key]]

\* Every object of an array is changed in place.
postProcessJSON(array) ==
    [i \in DOMAIN array |-> JSON("object", postProcessJSONObjectResources(array[i].value))]

\* Mutant: an array keeps its first string only.
ResultUnionFirst(json) ==
    IF json.kind = "array" THEN JSON("strings", <<json.value[1].value>>) ELSE json

\* A member of an array that is no string is dropped; an object leaves the
\* union empty.  No conversion gives a real number, which could be passed on.
ResultUnion(json) ==
    CASE json.kind \in {"string", "integer", "real", "boolean"} -> json
      [] json.kind = "array" ->
            LET strings == Kept(json.value, {i \in DOMAIN json.value : json.value[i].kind = "string"})
            IN  JSON("strings", [i \in DOMAIN strings |-> strings[i].value])
      [] OTHER -> JSON("empty", {})

\* Only keys of the filter are passed on.
resultMapListToCAPIResultMapList(from, filter) ==
    [i \in DOMAIN from |->
        [key \in DOMAIN from[i].value \cap filter |-> ResultUnion(from[i].value[key])]]
===============================================================================
