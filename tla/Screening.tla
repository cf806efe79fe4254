----------------------------- MODULE Screening -----------------------------
(***************************************************************************)
(* Two texts that are screened before they are used: the details of an     *)
(* audit record (internal/audit/redact.go) and the SQL statements of a     *)
(* managed database role (internal/domain/secrets/sql_allow.go).           *)
(*                                                                         *)
(* Details are trees of maps, lists and leaves.  A leaf is plain text, a   *)
(* string that looks like a connection URL with a password, or a value of  *)
(* another Go type, which the walk does not enter.  A statement is a       *)
(* sequence of the characters that the comment stripper tells apart.       *)
(***************************************************************************)
EXTENDS Naturals, FiniteSets, Sequences, SequencesExt

CONSTANTS Keys,       \* keys of a detail map
          Sensitive,  \* the keys of sensitiveDetailKeys among them
          MaxText     \* characters of a statement

VARIABLES given, kept,  \* the last audit details, as given and as recorded
          text          \* a statement

detailVars == <<given, kept>>
textVars == <<text>>

-----------------------------------------------------------------------------
(* Audit details. *)

Leaf(v) == [kind |-> "leaf", at |-> v]
Listed(s) == [kind |-> "list", at |-> s]
Mapped(f) == [kind |-> "map", at |-> f]
Redacted == Leaf("[REDACTED]")

\* Maps from some of the keys, and lists of one or two elements.
MapsTo(V) == {Mapped(f) : f \in UNION {[K -> V] : K \in SUBSET Keys}}
ListsOf(V) == {Listed(s) : s \in {<<a>> : a \in V} \cup {<<Leaf("text"), a>> : a \in V}}
Leaves == {Leaf("text"), Leaf("url with password"), Leaf("other type")}
Inner == Leaves \cup MapsTo(Leaves) \cup ListsOf(Leaves)
Deeper == {Mapped(k :> v) : k \in Keys, v \in MapsTo(Leaves) \cup ListsOf(MapsTo(Leaves))}
Details == MapsTo(Inner) \cup {Mapped(k :> v) : k \in Keys, v \in Deeper \cup ListsOf(Deeper)}

isSensitiveKey(k) == k \in Sensitive
looksLikeEmbeddedCredentials(v) == v = "url with password"

RECURSIVE sanitizeValue(_)
\* sanitizeMap and sanitizeValue
sanitizeValue(v) ==
  CASE v.kind = "map" ->
         Mapped([k \in DOMAIN v.at |-> IF isSensitiveKey(k) THEN Redacted ELSE sanitizeValue(v.at[k])])
    [] v.kind = "list" -> Listed([i \in DOMAIN v.at |-> sanitizeValue(v.at[i])])
    [] OTHER -> IF looksLikeEmbeddedCredentials(v.at) THEN Redacted ELSE v

RECURSIVE walkSensitive(_)
\* walkSensitive of RejectSensitiveDetails: something would be refused
walkSensitive(v) ==
  CASE v.kind = "map" -> \E k \in DOMAIN v.at : isSensitiveKey(k) \/ walkSensitive(v.at[k])
    [] v.kind = "list" -> \E i \in DOMAIN v.at : walkSensitive(v.at[i])
    [] OTHER -> looksLikeEmbeddedCredentials(v.at)

DetailInit == given = Mapped(<<>>) /\ kept = Mapped(<<>>)

\* Service.Record, which sanitizes what it is given; one record at a time.
RecordDetails ==
  /\ given = Mapped(<<>>)
  /\ \E d \in Details : given' = d /\ kept' = sanitizeValue(d)

RECURSIVE LeavesOf(_)
\* The leaves of a tree, each with the steps that lead to it.
LeavesOf(v) ==
  IF v.kind = "leaf" THEN {[path |-> <<>>, value |-> v.at]}
  ELSE UNION {{[path |-> <<step>> \o l.path, value |-> l.value] : l \in LeavesOf(v.at[i])} :
              <<i, step>> \in {<<i, [kind |-> v.kind, name |-> i]>> : i \in DOMAIN v.at}}

UnderSensitive(path) == \E i \in DOMAIN path : path[i].kind = "map" /\ path[i].name \in Sensitive

\* What is recorded holds nothing of a sensitive value, at any depth and in
\* any mixture of maps and lists, and every other value is recorded in its
\* place, unchanged (redact.go sanitizeMap and sanitizeValue).
RedactedExactly ==
  LET plain(t) == {l \in LeavesOf(t) : ~UnderSensitive(l.path) /\ l.value # "[REDACTED]"}
      open == {l \in plain(given) : l.value # "url with password"}
  IN /\ plain(kept) = open
     /\ \A l \in LeavesOf(kept) : UnderSensitive(l.path) => l.value = "[REDACTED]"

\* Details that RejectSensitiveDetails lets pass are recorded as they are,
\* and what it refuses is always changed: the two walks of redact.go find
\* the same things.
RejectedIsRedacted == walkSensitive(given) <=> kept # given

-----------------------------------------------------------------------------
(* SQL statements.  "x" is any other character. *)

Chars == {"x", "-", "/", "*", "nl"}
At(s, i, c) == i <= Len(s) /\ s[i] = c

\* the first position from i on where the line ends, or one past the text
LineEnd(s, i) ==
  LET ends == {j \in i..Len(s) : s[j] = "nl"}
  IN IF ends = {} THEN Len(s) + 1 ELSE CHOOSE j \in ends : \A k \in ends : j <= k

\* the position after the comment whose body starts at i: it ends with the
\* first star and slash, or with the text
BlockEnd(s, i) ==
  LET ends == {j \in i..(Len(s) - 1) : s[j] = "*" /\ s[j + 1] = "/"}
  IN IF ends = {} THEN Len(s) + 1 ELSE (CHOOSE j \in ends : \A k \in ends : j <= k) + 2

\* what a comment leaves behind
Gap == <<" ">>

RECURSIVE stripFrom(_, _)
\* stripSQLComments from position i on
stripFrom(s, i) ==
  CASE i > Len(s) -> <<>>
    [] At(s, i, "-") /\ At(s, i + 1, "-") ->
         IF LineEnd(s, i) > Len(s) THEN <<>> ELSE Gap \o stripFrom(s, LineEnd(s, i) + 1)
    [] At(s, i, "/") /\ At(s, i + 1, "*") -> Gap \o stripFrom(s, BlockEnd(s, i + 2))
    [] OTHER -> <<s[i]>> \o stripFrom(s, i + 1)

White(c) == c \in {" ", "nl"}

\* normalizeManagedSQL: runs of white space become one space, none at the ends
normalizeManagedSQL(s) ==
  LET spaced == FoldLeft(LAMBDA out, c :
                           IF ~White(c) THEN Append(out, c)
                           ELSE IF out = <<>> \/ out[Len(out)] = " " THEN out ELSE Append(out, " "),
                         <<>>, stripFrom(s, 1))
  IN IF spaced # <<>> /\ spaced[Len(spaced)] = " " THEN SubSeq(spaced, 1, Len(spaced) - 1) ELSE spaced

TextInit == text = <<>>
TypeChar == Len(text) < MaxText /\ \E c \in Chars : text' = Append(text, c)

\* A lexer that reads one character at a time: the words so far, whether
\* the last one is still open, and where in a comment it is.
LexStart == [words |-> <<>>, open |-> FALSE, mode |-> "code"]
Put(lx, c) ==
  IF lx.open THEN [lx EXCEPT !.words[Len(lx.words)] = Append(@, c)]
  ELSE [lx EXCEPT !.words = Append(@, <<c>>), !.open = TRUE]
Close(lx) == [lx EXCEPT !.open = FALSE]
To(lx, mode) == [lx EXCEPT !.mode = mode]

InCode(lx, c) ==
  IF White(c) THEN To(Close(lx), "code")
  ELSE IF c = "-" THEN To(lx, "dash") ELSE IF c = "/" THEN To(lx, "slash") ELSE To(Put(lx, c), "code")

Lex(lx, c) ==
  CASE lx.mode = "code" -> InCode(lx, c)
    [] lx.mode = "dash" -> IF c = "-" THEN To(Close(lx), "line") ELSE InCode(Put(lx, "-"), c)
    [] lx.mode = "slash" -> IF c = "*" THEN To(Close(lx), "block") ELSE InCode(Put(lx, "/"), c)
    [] lx.mode = "line" -> IF c = "nl" THEN To(lx, "code") ELSE lx
    [] lx.mode = "block" -> IF c = "*" THEN To(lx, "star") ELSE lx
    [] OTHER -> IF c = "/" THEN To(lx, "code") ELSE IF c = "*" THEN lx ELSE To(lx, "block")

LexWords(s) ==
  LET end == FoldLeft(Lex, LexStart, s)
  IN CASE end.mode = "dash" -> Put(end, "-").words
       [] end.mode = "slash" -> Put(end, "/").words
       [] OTHER -> end.words

\* The deny list is compared with the words a database would read: a
\* comment separates words like a space does, none survives, and none is
\* made up by what surrounds it (sql_allow.go stripSQLComments, which moves
\* one index from three places).
NormalIsLexed ==
  LET words == LexWords(text)
  IN normalizeManagedSQL(text)
       = FoldLeft(LAMBDA out, w : IF out = <<>> THEN w ELSE out \o <<" ">> \o w, <<>>, words)
============================================================================
