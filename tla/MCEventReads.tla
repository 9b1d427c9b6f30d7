---------------------------- MODULE MCEventReads ----------------------------
(* Three events of one owner; slugs given by the owner and made of titles.  *)
EXTENDS EventReads

CONSTANTS
    GivenSlug,      \* slugs in the body of POST and PATCH
    MaxTime         \* startsAt is 1..MaxTime

\* "Fair", "Fair 2.1", an accented and a Cyrillic title, and two words of it.
Title == {<<"a">>, <<"a", " ", "2", "!", "1">>, <<"e'", "-", "a">>, <<"wide">>,
          <<"wide", "wide ", "wide">>}

OwnSlugs == {<<"a">>, <<"2", "-", "a">>}
NoSlugs == {}

Rows == [owner : {1}, state : {"draft", "published"}, startsAt : 1..MaxTime,
         slug : GivenSlug \cup {toSlug(t) : t \in Title}]

Queries == {[state |-> NULL, from |-> NULL], [state |-> "draft", from |-> 2]}
=============================================================================
