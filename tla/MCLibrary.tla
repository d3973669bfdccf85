------------------------------- MODULE MCLibrary -------------------------------
(* A container with a song and a folder; more of each may be created.        *)
EXTENDS Library

AllUrls == {"file:///a", "http://a", "http://b", "http://c/?file:///a"}
FileUrls == {"file:///a"}
FileMentioned == {"file:///a", "http://c/?file:///a"}

Resource(url) == GVariant("dictionary", [URL |-> GVariant("variant", GVariant("string", url))])
ResourceWithout == GVariant("dictionary", [Size |-> GVariant("variant", GVariant("int64", 1))])
String(s) == GVariant("string", s)

Variant(value) == GVariant("variant", value)

\* A song with a local URL among others; a tune whose local URL stands behind a
\* resource without one; a folder without a local URL, and a box with a misleading
\* one before the local one; in between, values that do not arrive.
Media == [
    song   |-> [Path |-> GVariant("object path", "song"), DisplayName |-> String("s"),
                Artists |-> GVariant("array", <<String("x"), String("y")>>),
                Size |-> GVariant("uint64", 3),
                Resources |-> GVariant("array",
                    <<Resource("http://a"), Resource("file:///a"), Resource("http://b")>>)],
    tune   |-> [Path |-> GVariant("object path", "tune"), DisplayName |-> String("t"),
                Artists |-> GVariant("array",
                    <<Variant(String("x")), Variant(GVariant("boolean", TRUE)),
                      Variant(GVariant("double", "2.5"))>>),
                Duration |-> GVariant("double", "1.5"), Size |-> GVariant("uint64", 5),
                Resources |-> GVariant("array", <<ResourceWithout, Resource("file:///a")>>)],
    folder |-> [Path |-> GVariant("object path", "folder"), DisplayName |-> String("f"),
                ChildCount |-> GVariant("uint32", 2), Searchable |-> GVariant("boolean", TRUE),
                Resources |-> GVariant("array", <<Resource("http://a"), Resource("http://b")>>)],
    box    |-> [Path |-> GVariant("object path", "box"), DisplayName |-> String("b"),
                ChildCount |-> GVariant("uint32", 0),
                Resources |-> GVariant("array",
                    <<Resource("http://c/?file:///a"), Resource("file:///a")>>)]]

AllObjects == DOMAIN Media
MediaItems == {"song", "tune"}
ToCreate == {"box", "tune"}
ByName == [box |-> 1, folder |-> 2, song |-> 3, tune |-> 4]
Found == {"song", "folder"}
AtFirst == <<"song", "folder">>

\* Page sizes of 8 and 9 are no limit and 1 in a call whose numbers go up to 7.
PageSizes == {2, 8, 9}
TwoFilters == {{"*"}, {"Path", "Size", "Resources"}}
===============================================================================
