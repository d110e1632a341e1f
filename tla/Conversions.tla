---------------------------- MODULE Conversions ----------------------------
(***************************************************************************)
(* Two conversions of the configuration reader, each against a reference:  *)
(* expand_env (config.rs) and camel_to_snake (config/naming.rs).  Both are *)
(* loops over a text, one iteration to a step.  A text is the sequence of  *)
(* its characters, over a small alphabet.                                  *)
(***************************************************************************)
EXTENDS Integers, Sequences, SequencesExt

CONSTANTS
    Templates,  \* texts to expand
    Env,        \* the environment: name -> value
    Phrases     \* sequences of words to spell in camel case

\* A word of a name: small letters and digits, a letter first, and whether it is
\* an acronym.
Word == {w \in [letters : Seq({"x", "y", "0", "1"}), acronym : BOOLEAN] :
            w.letters # <<>> /\ w.letters[1] \in {"x", "y"}}

\* A text is a sequence of characters, a value of the environment is a text.
ASSUME InputAssumption ==
    /\ Templates \subseteq Seq(STRING)
    /\ \A name \in DOMAIN Env : Env[name] \in Seq(STRING)
    /\ Phrases \subseteq Seq(Word)

VARIABLES
    task,   \* "expand" or "snake"
    input,  \* the template or phrase
    text,   \* the text the loop goes over
    i,      \* its position
    out     \* what it has put out

vars == <<task, input, text, i, out>>

-----------------------------------------------------------------------------
\* expand_env

Dollar  == "$"
Open    == "{"
Close   == "}"
Letters == {"x", "y", "X", "Y", "_"}
Digits  == {"0", "1"}

IsShellIdent(name) ==
    /\ name # <<>> /\ name[1] \in Letters
    /\ \A k \in DOMAIN name : name[k] \in Letters \cup Digits

ValueOf(name) == IF name \in DOMAIN Env THEN Env[name] ELSE <<>>

\* The first closing brace behind an opening one at i, 0 if there is none.
ClosingAfter(s, k) ==
    LET closing == {j \in k + 2..Len(s) : s[j] = Close}
    IN IF k + 1 > Len(s) \/ s[k] # Dollar \/ s[k + 1] # Open \/ closing = {} THEN 0
       ELSE CHOOSE j \in closing : \A l \in closing : j <= l

NameAt(k) == SubSeq(text, k + 2, ClosingAfter(text, k) - 1)

Refers(k) == ClosingAfter(text, k) # 0 /\ IsShellIdent(NameAt(k))

\* Mutated form: what stands in braces and is no name is passed over whole.
SubstituteOrSkip ==
    /\ task = "expand" /\ i <= Len(text) /\ ClosingAfter(text, i) # 0
    /\ out' = out \o IF Refers(i) THEN ValueOf(NameAt(i)) ELSE SubSeq(text, i, ClosingAfter(text, i))
    /\ i' = ClosingAfter(text, i) + 1
    /\ UNCHANGED <<task, input, text>>

Substitute ==
    /\ task = "expand" /\ i <= Len(text) /\ Refers(i)
    /\ out' = out \o ValueOf(NameAt(i))
    /\ i' = ClosingAfter(text, i) + 1
    /\ UNCHANGED <<task, input, text>>

Copy ==
    /\ task = "expand" /\ i <= Len(text) /\ ~Refers(i)
    /\ out' = Append(out, text[i])
    /\ i' = i + 1
    /\ UNCHANGED <<task, input, text>>

-----------------------------------------------------------------------------
\* camel_to_snake

Upper == [x |-> "X", y |-> "Y"]
ToUpper(c) == IF c \in DOMAIN Upper THEN Upper[c] ELSE c

IsUpper(c) == c \in {"X", "Y"}
IsLower(c) == c \in {"x", "y"}
ToLower(c) == IF IsUpper(c) THEN CHOOSE l \in DOMAIN Upper : Upper[l] = c ELSE c

\* Mutated form: every capital behind a capital belongs to its acronym.
BoundaryAtCase(s, k) ==
    k > 1 /\ IsUpper(s[k]) /\ (IsLower(s[k - 1]) \/ s[k - 1] \in Digits)

\* A word begins at a capital behind a small letter or a digit, and at the last
\* capital of a row if a small letter follows.
Boundary(s, k) ==
    /\ k > 1 /\ IsUpper(s[k])
    /\ \/ IsLower(s[k - 1]) \/ s[k - 1] \in Digits
       \/ IsUpper(s[k - 1]) /\ k < Len(s) /\ IsLower(s[k + 1])

Rune ==
    /\ task = "snake" /\ i <= Len(text)
    /\ out' = out \o IF Boundary(text, i) THEN <<"_", ToLower(text[i])>> ELSE <<ToLower(text[i])>>
    /\ i' = i + 1
    /\ UNCHANGED <<task, input, text>>

-----------------------------------------------------------------------------
\* A phrase in camel case: the first word small, an acronym all in capitals.
Capitalised(word) ==
    [k \in DOMAIN word.letters |->
        IF k = 1 \/ word.acronym THEN ToUpper(word.letters[k]) ELSE word.letters[k]]

CamelWords(phrase) ==
    [w \in DOMAIN phrase |->
        IF w = 1 /\ ~phrase[w].acronym THEN phrase[w].letters ELSE Capitalised(phrase[w])]

Camel(phrase) == FlattenSeq(CamelWords(phrase))

Init ==
    /\ \/ task = "expand" /\ input \in Templates /\ text = input
       \/ task = "snake" /\ input \in Phrases /\ text = Camel(input)
    /\ i = 1 /\ out = <<>>

Next == Substitute \/ Copy \/ Rune

Spec == Init /\ [][Next]_vars

-----------------------------------------------------------------------------
(***************************************************************************)
(* Properties                                                              *)
(***************************************************************************)

Done == i > Len(text)

\* Every reference of the template: braces around a shell identifier.  No two
\* overlap, whatever stands between them.
References ==
    {r \in (DOMAIN text) \X (DOMAIN text) :
        /\ r[1] + 2 < r[2] /\ text[r[1]] = Dollar /\ text[r[1] + 1] = Open /\ text[r[2]] = Close
        /\ IsShellIdent(SubSeq(text, r[1] + 2, r[2] - 1))}

\* What position k of the template stands for: the value of the reference that
\* begins there, nothing inside of one, and itself elsewhere.
Expansion(k) ==
    IF \E r \in References : r[1] = k
    THEN LET r == CHOOSE r \in References : r[1] = k
         IN ValueOf(SubSeq(text, r[1] + 2, r[2] - 1))
    ELSE IF \E r \in References : r[1] < k /\ k <= r[2] THEN <<>>
    ELSE <<text[k]>>

Expansions == [k \in DOMAIN text |-> Expansion(k)]

\* expand_env replaces every reference by its value and nothing else: one value
\* is never expanded again, an unset name leaves nothing, an unclosed brace or
\* a name that is none hides no reference behind it (config.rs:279).
ExpandsAtOnce == task = "expand" /\ Done => out = FlattenSeq(Expansions)

IsAcronym(word) == word.acronym \/ Len(word.letters) = 1

\* The capitals show where every word begins: no acronym, which a word of one
\* letter is too, is followed by another, or by one whose second character is no
\* small letter, and none has a letter behind a digit.
Clear ==
    /\ \A w \in 1..Len(input) - 1 :
          IsAcronym(input[w]) /\ (w > 1 \/ input[w].acronym) =>
              ~IsAcronym(input[w + 1]) /\ IsLower(input[w + 1].letters[2])
    /\ \A w \in DOMAIN input : input[w].acronym =>
          \A k \in 2..Len(input[w].letters) :
              input[w].letters[k - 1] \in Digits => input[w].letters[k] \in Digits

SnakeWords ==
    [w \in DOMAIN input |->
        IF w = 1 THEN input[w].letters ELSE <<"_">> \o input[w].letters]

\* camel_to_snake finds the words again, acronyms and digits among them:
\* README.md:148, "acronym-aware camelCase -> snake_case".
KeepsWords == task = "snake" /\ Done /\ Clear => out = FlattenSeq(SnakeWords)
=============================================================================
