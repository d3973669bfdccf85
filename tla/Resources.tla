------------------------------- MODULE Resources -------------------------------
(***************************************************************************)
(* The two places where the program picks one URL among the resources of a *)
(* media item: Common::postProcessJSONObjectResources picks what clients   *)
(* are shown as its URI, PlayerProvider::getLocalURL what the renderer is  *)
(* asked to open.  The resources are the sequence of their URL members.    *)
(***************************************************************************)
EXTENDS Integers, Sequences

CONSTANTS
    Urls,
    LocalUrls,      \* those that begin with file://
    NamingUrls,     \* those that have file:// somewhere
    NoUrl           \* a URL member that is missing or no string; no URL found

ASSUME ResourcesAssumption ==
    LocalUrls \subseteq NamingUrls /\ NamingUrls \subseteq Urls /\ NoUrl \notin Urls

Lowest(S) == CHOOSE i \in S : \A j \in S : i <= j
Highest(S)  == CHOOSE i \in S : \A j \in S : i >= j

\* Mutant: the loop does not stop at a local URL.
shownURINoBreak(urls) ==
    LET strings == {i \in DOMAIN urls : urls[i] \in Urls}
    IN  IF strings = {} THEN NoUrl ELSE urls[Highest(strings)]

\* The first URL that has file:// in it, else the last one.
shownURI(urls) ==
    LET strings == {i \in DOMAIN urls : urls[i] \in Urls}
        naming  == {i \in DOMAIN urls : urls[i] \in NamingUrls}
    IN  IF naming # {} THEN urls[Lowest(naming)]
        ELSE IF strings # {} THEN urls[Highest(strings)]
        ELSE NoUrl

\* The first URL that begins with file://; a resource without a URL before it
\* ends the search.
getLocalURL(urls) ==
    LET stops == {i \in DOMAIN urls : urls[i] \in LocalUrls \cup {NoUrl}}
    IN  IF stops # {} THEN urls[Lowest(stops)] ELSE NoUrl

\* What the two choices have to do with each other.  A local URL that is shown
\* is opened, unless a resource without a URL stands before every local one; of
\* a URL that only has another one inside, another one or none is opened; and if
\* neither is shown, nothing is opened.
Consistent(urls, shown, opened) ==
    LET gaps   == {i \in DOMAIN urls : urls[i] = NoUrl}
        locals == {i \in DOMAIN urls : urls[i] \in LocalUrls}
        hidden == \E gap \in gaps : \A i \in locals : gap < i
    IN  /\ shown \in LocalUrls => opened = IF hidden THEN NoUrl ELSE shown
        /\ shown \in NamingUrls \ LocalUrls => opened # shown
        /\ shown \notin NamingUrls => opened = NoUrl
===============================================================================
