------------------------------- MODULE Slugs -------------------------------
(***************************************************************************)
(* How events-service makes a slug of a title (toSlug of @aurora/common),  *)
(* and a number of a path (parseInt).  A character stands for its class:   *)
(*   "a"     any ASCII letter           "1", "2"  digits                   *)
(*   "e'"    an accented letter         "mark"    U+0300 to U+036F         *)
(*   " ", "-"                           "!"       other ASCII, as '.' '/'  *)
(*   "wide"  above U+036F, as Cyrillic  "wide "   a space up there, U+2003 *)
(***************************************************************************)
EXTENDS Integers, SequencesExt

Digit == {"1", "2"}
Letter == {"a"}
Space == {" ", "wide "}
UpToMarks == Digit \cup Letter \cup {" ", "-", "!", "mark"}

\* normalize('NFD')
Decomposed(s) == FlattenSeq([i \in 1..Len(s) |-> IF s[i] = "e'" THEN <<"a", "mark">> ELSE <<s[i]>>])

\* The class of slug.util.ts:4 starts at U+0000 (the file holds the character
\* itself), so it removes more than the accents.
WithoutMarks(s) == SelectSeq(s, LAMBDA c : c \notin UpToMarks)

\* /[^a-z0-9\s-]/g
Plain(s) == SelectSeq(s, LAMBDA c : c \in Digit \cup Letter \cup Space \cup {"-"})

\* A run of spaces and dashes becomes one dash.
Dashed(s) ==
    LET Dash(c) == IF c \in Space THEN "-" ELSE c
        Add(t, c) == IF Dash(c) = "-" /\ t # <<>> /\ Last(t) = "-" THEN t ELSE Append(t, Dash(c))
    IN  FoldLeft(Add, <<>>, s)

\* /^-|-$/g, after which no dash is doubled
Trimmed(s) ==
    LET first == IF s # <<>> /\ s[1] = "-" THEN 2 ELSE 1
        last  == IF s # <<>> /\ s[Len(s)] = "-" THEN Len(s) - 1 ELSE Len(s)
    IN  SubSeq(s, first, last)

toSlug(title) == Trimmed(Dashed(Plain(WithoutMarks(Decomposed(title)))))

\* `${baseSlug}-${counter}`; 0 for the slug that was free at once.
Suffixed(slug, n) == IF n = 0 THEN slug ELSE slug \o <<"-", IF n = 1 THEN "1" ELSE "2">>

----------------------------------------------------------------------------

\* The digits s starts with.
LeadingDigits(s) ==
    LET n == CHOOSE n \in 0..Len(s) :
                 /\ \A i \in 1..n : s[i] \in Digit
                 /\ n < Len(s) => s[n + 1] \notin Digit
    IN  SubSeq(s, 1, n)

Value(digits) == FoldLeft(LAMBDA n, d : 10 * n + (IF d = "1" THEN 1 ELSE 2), 0, digits)

Negative(s) == s # <<>> /\ s[1] = "-"
Unsigned(s) == IF Negative(s) THEN Tail(s) ELSE s

\* parseInt(s, 10) is a number, and which.
IsNumber(s) == LeadingDigits(Unsigned(s)) # <<>>
Number(s) == IF Negative(s) THEN - Value(LeadingDigits(Unsigned(s)))
             ELSE Value(LeadingDigits(Unsigned(s)))
=============================================================================
