------------------------------ MODULE AppsFile ------------------------------
(***************************************************************************)
(* Loading the application list (process.cpp: parse and what it calls,     *)
(* refresh): variables in settings are expanded, images are looked at, and *)
(* every application gets the id under which clients know it. A text is a  *)
(* sequence of characters; a name, which only ids look at, is a word and   *)
(* perhaps a number behind it. CRC32 is taken to be injective.             *)
(***************************************************************************)
EXTENDS Integers, Sequences, SequencesExt, FiniteSets

CONSTANTS
  Char,      \* "$", "(", ")" and letters
  MaxText,   \* bound on the length of a text
  App,       \* applications: [name, image], a name a sequence of words and digits
  MaxApps,   \* bound on the length of the list
  Digit,     \* the texts of 0, 1, 2, ...
  None

Text == UNION {[1..n -> Char] : n \in 0..MaxText}
Image == [path : {"", "jpg", "png", "steam"}, asset : BOOLEAN, exists : BOOLEAN, signed : BOOLEAN]

VARIABLES
  raw,       \* the text of the setting being expanded
  picture,   \* the image-path being looked at
  file,      \* the applications in the file: [name, image], name None when it is missing
  loaded     \* proc: the applications with their ids

fileVars == <<raw, picture, file, loaded>>

----------------------------------------------------------------------------
(* Texts *)

\* find_match: the bracket that closes the one at i, or None, which throws.
FindMatch(s, i) ==
  LET Depth(k) == Cardinality({j \in i..k : s[j] = "("}) - Cardinality({j \in i..k : s[j] = ")"})
      ends == {k \in i..Len(s) : Depth(k) = 0}
  IN IF ends = {} THEN None ELSE CHOOSE k \in ends : \A j \in ends : k <= j

NextDollar(s, i) ==
  LET ds == {k \in i..Len(s) : s[k] = "$"}
  IN IF ds = {} THEN Len(s) + 1 ELSE CHOOSE k \in ds : \A j \in ds : k <= j

\* What env holds for a name. Values are not expanded again.
Env(name) == <<"<">> \o name \o <<">">>

\* parse_env_val: the loop over the dollars; what lies before pos is written.
ParseEnvVal(s) ==
  LET Scan[pos \in 1..Len(s) + 1, dollar \in 1..Len(s) + 1] ==
        LET after == dollar + 1 IN
        IF dollar >= Len(s) THEN SubSeq(s, pos, Len(s))
        ELSE IF s[after] = "("
        THEN LET close == FindMatch(s, after)
             IN IF close = None THEN None
                ELSE LET rest == Scan[close + 1, NextDollar(s, close)]
                     IN IF rest = None THEN None
                        ELSE SubSeq(s, pos, dollar - 1) \o Env(SubSeq(s, after + 1, close - 1)) \o rest
        ELSE IF s[after] = "$"
        THEN LET rest == Scan[after + 1, NextDollar(s, after + 1)]
             IN IF rest = None THEN None ELSE SubSeq(s, pos, dollar) \o rest
        ELSE Scan[pos, NextDollar(s, after)]
  IN Scan[1, NextDollar(s, 1)]

----------------------------------------------------------------------------
(* Images and ids *)

\* check_valid_png.
ValidPng(image) == image.signed

\* validate_app_image_path: which file is served. "steam" is the old name of an
\* image that is now packaged.
ValidateImage(image) ==
  IF image.path \notin {"png", "steam"} THEN "default"
  ELSE IF image.asset THEN IF ValidPng(image) THEN "asset" ELSE "default"
  ELSE IF image.path = "steam" THEN "packaged"
  ELSE IF image.exists /\ ValidPng(image) THEN "file" ELSE "default"

\* calculate_app_id: the text that is hashed, without and with the index. It is
\* put together without separators.
AppId(name, image, index) ==
  LET text == name \o (IF image THEN <<"#">> ELSE <<>>)
  IN <<text, Append(text, Digit[index + 1])>>

\* The id without the index unless it is taken.
NewId(ids, possible) == IF possible[1] \in ids THEN possible[2] ELSE possible[1]

\* One turn of the loop of parse: an application with its id, behind those in acc.
Identified(acc, app) ==
  LET ids == {acc[i].id : i \in DOMAIN acc}
      possible == AppId(app.name, app.image, Len(acc))
  IN [name |-> app.name, image |-> app.image, id |-> NewId(ids, possible)]

\* The loop: the list as it is after n turns
ParsedUpTo(list) ==
  LET upTo[n \in 0..Len(list)] ==
        IF n = 0 THEN <<>> ELSE Append(upTo[n - 1], Identified(upTo[n - 1], list[n]))
  IN upTo

\* parse: None when a text or an application is bad, else the list with its ids.
Parse(list) ==
  IF \E i \in DOMAIN list : list[i].name = None THEN None ELSE ParsedUpTo(list)[Len(list)]

----------------------------------------------------------------------------
NoImage == [path |-> "", asset |-> FALSE, exists |-> FALSE, signed |-> FALSE]

Init ==
  /\ raw = <<>> /\ picture = NoImage
  /\ file = <<>> /\ loaded = <<>>

\* An entry that parse rejects
Nameless == [name |-> None, image |-> FALSE]

\* An application is added somewhere, removed, or written without a name.
Edit ==
  /\ \/ /\ Len(file) < MaxApps
        /\ \E i \in 1..Len(file) + 1, a \in App \cup {Nameless} : file' = InsertAt(file, i, a)
     \/ \E i \in DOMAIN file : file' = RemoveAt(file, i)
  /\ UNCHANGED <<raw, picture, loaded>>

\* refresh: a file that cannot be parsed leaves proc as it is.
Refresh ==
  /\ loaded' = IF Parse(file) = None THEN loaded ELSE Parse(file)
  /\ UNCHANGED <<raw, picture, file>>

PickText == \E s \in Text : raw' = s /\ UNCHANGED <<picture, file, loaded>>
PickImage == \E i \in Image : picture' = i /\ UNCHANGED <<raw, file, loaded>>

ListNext == Edit \/ Refresh
TextNext == raw = <<>> /\ picture = NoImage /\ (PickText \/ PickImage)
Next == ListNext \/ TextNext
Spec == Init /\ [][Next]_fileVars

----------------------------------------------------------------------------
\* What a text means: $(NAME) is the variable, $$ a dollar, everything else
\* itself. A bracket that is not closed makes the file unreadable.
Meaning[s \in Text] ==
  LET Then(a, rest) == IF rest = None THEN None ELSE a \o rest
  IN CASE s = <<>> -> <<>>
       [] s[1] = "$" /\ Len(s) > 1 /\ s[2] = "$" -> Then(<<"$">>, Meaning[SubSeq(s, 3, Len(s))])
       [] s[1] = "$" /\ Len(s) > 1 /\ s[2] = "(" ->
            LET close == FindMatch(s, 2)
            IN IF close = None THEN None
               ELSE Then(Env(SubSeq(s, 3, close - 1)), Meaning[SubSeq(s, close + 1, Len(s))])
       [] OTHER -> Then(<<s[1]>>, Meaning[Tail(s)])

\* parse_env_val computes it, although it works on positions of dollars.
ExpandsAsMeant == ParseEnvVal(raw) = Meaning[raw]

\* A client is never sent a file that is no PNG (validate_app_image_path).
ServedIsPng == ValidateImage(picture) \in {"asset", "file"} => picture.signed

\* A name that reads like another one with an index behind it.
Confusable(a, list) == \E i \in DOMAIN list : list[i].name = Front(a.name) /\ Len(a.name) > 1

\* No two applications have the same id, so that a client starts the one it
\* chose, unless a name ends in a number that an index may look like
\* (calculate_app_id puts the text together without separators).
IdsAreUnique ==
  \A i, j \in DOMAIN loaded : i # j /\ loaded[i].id = loaded[j].id =>
    Confusable(loaded[i], loaded) \/ Confusable(loaded[j], loaded)

\* Ids survive edits: an application whose name and image nobody else has keeps
\* its id when others come, go or are moved (process.cpp parse: "Avoid using
\* index to generate id if possible"), so that ids clients remember stay good.
Sole(list, i) ==
  \A j \in DOMAIN list : j # i => ~(list[j].name = list[i].name /\ list[j].image = list[i].image)
IdsSurvive ==
  \A i \in DOMAIN loaded, j \in DOMAIN loaded' :
    /\ loaded[i].name = loaded'[j].name /\ loaded[i].image = loaded'[j].image
    /\ Sole(loaded, i) /\ Sole(loaded', j)
    /\ ~Confusable(loaded[i], loaded) /\ ~Confusable(loaded[i], loaded')
    => loaded[i].id = loaded'[j].id

\* The inductive invariant behind both: every id was given by what came before it.
Before(list, i) == {list[k].id : k \in 1..i - 1}
GivenIds(list) ==
  \A i \in DOMAIN list : list[i].id = NewId(Before(list, i), AppId(list[i].name, list[i].image, i - 1))
Letter == (UNION {{a.name[k] : k \in DOMAIN a.name} : a \in App}) \cup {Digit[n] : n \in DOMAIN Digit} \cup {"#"}
LoadedApp == [name : {a.name : a \in App}, image : BOOLEAN, id : Seq(Letter)]
LoadedInv ==
  /\ file \in Seq(App \cup {Nameless}) /\ Len(file) <= MaxApps
  /\ loaded \in Seq(LoadedApp) /\ Len(loaded) <= MaxApps /\ GivenIds(loaded)
=============================================================================
