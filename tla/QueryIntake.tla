------------------------------ MODULE QueryIntake ------------------------------
(*****************************************************************************)
(* How a text becomes a query: the chores thread of OptimizerUnit, which      *)
(* hands over the query of the command line, those of the file and those      *)
(* typed at the prompt, and the prefix loop at the head of                    *)
(* QueryManager::processQuery, which splits PARALLEL and NAME off a text.     *)
(* One worker takes the queries in order (-t 1); the pool is QueryManager.    *)
(*                                                                            *)
(* A text is a sequence of tokens.  The code tells apart the two keywords,    *)
(* white space, the semicolon of a file, and anything else; two tokens side   *)
(* by side stand for text without white space between them.                   *)
(*****************************************************************************)
EXTENDS Integers, Sequences

CONSTANTS Token,     \* what texts are made of
          Cli,       \* the texts the -q argument may hold, <<>> for none
          Files,     \* the contents the -f file may have
          Typed      \* the lines that may be typed, in this order

ASSUME IntakeAssumption ==
  Cli \subseteq Seq(Token) /\ Files \subseteq Seq(Token) /\ Typed \in Seq(Seq(Token))

VARIABLES
  file,      \* what read_from_file has not read yet
  chore,     \* where the chores thread is
  lines,     \* lines still to be typed
  added,     \* the texts handed to addQuery, in order
  next,      \* the query the worker takes next
  idx,       \* processQuery's position in it; Npos past the end
  parallel, query_name,
  split      \* what processQuery made of each query: nothing or one Result

intakeVars == <<file, chore, lines, added, next, idx, parallel, query_name, split>>

Result == [parallel : BOOLEAN, name : Seq(Token), sql : Seq(Token)]

TypeOK ==
  /\ file \in Seq(Token) /\ lines \in Seq(Seq(Token)) /\ added \in Seq(Seq(Token))
  /\ chore \in {"cli", "file", "prompt", "done"}
  /\ next \in 1 .. Len(added) + 1
  /\ idx \in Nat /\ parallel \in BOOLEAN /\ query_name \in Seq(Token)
  /\ idx # 0 => next <= Len(added) /\ idx <= Len(added[next])
  /\ split \in Seq(Seq(Result)) /\ Len(split) = next - 1

Npos == 0

Space == " "

Semicolon == ";"

(* The first position from i on that holds white space, or does not, or that *)
(* holds a semicolon.                                                        *)
FirstAt(s, i, P(_)) ==
  LET at == {k \in i .. Len(s) : P(s[k])} IN
  IF at = {} THEN Npos ELSE CHOOSE k \in at : \A j \in at : k <= j

find_first_not_of(s, i) == FirstAt(s, i, LAMBDA t : t # Space)

find_first_of(s, i) == FirstAt(s, i, LAMBDA t : t = Space)

Cut(s, i) == FirstAt(s, i, LAMBDA t : t = Semicolon)

substr(s, i) == IF i = Npos THEN <<>> ELSE SubSeq(s, i, Len(s))

Blank(s) == find_first_not_of(s, 1) = Npos

-----------------------------------------------------------------------------
(* The chores thread                                                         *)

Init ==
  /\ file \in Files
  /\ chore = "cli"
  /\ lines = Typed
  /\ added = <<>>
  /\ next = 1
  /\ idx = Npos
  /\ parallel = FALSE /\ query_name = <<>>
  /\ split = <<>>

workerVars == <<next, idx, parallel, query_name, split>>

addQuery(s) == added' = Append(added, s)

ChoreCli ==
  /\ chore = "cli"
  /\ chore' = "file"
  /\ \E q \in Cli : IF q = <<>> THEN UNCHANGED added ELSE addQuery(q)
  /\ UNCHANGED <<file, lines, workerVars>>

\* Fault: pieces are handed over blank or not
read_from_file_blank ==
  LET end == Cut(file, 1)
      query == IF end = Npos THEN file ELSE SubSeq(file, 1, end - 1)
  IN  /\ chore = "file" /\ file # <<>>
      /\ file' = IF end = Npos THEN <<>> ELSE SubSeq(file, end + 1, Len(file))
      /\ addQuery(query)
      /\ UNCHANGED <<chore, lines, workerVars>>

(* One getline up to ';' and, unless the piece is blank, its addQuery.  The   *)
(* file is read before its first query is added; nobody sees the difference. *)
read_from_file ==
  LET end == Cut(file, 1)
      query == IF end = Npos THEN file ELSE SubSeq(file, 1, end - 1)
  IN  /\ chore = "file" /\ file # <<>>
      /\ file' = IF end = Npos THEN <<>> ELSE SubSeq(file, end + 1, Len(file))
      /\ IF Blank(query) THEN UNCHANGED added ELSE addQuery(query)
      /\ UNCHANGED <<chore, lines, workerVars>>

EndOfFile ==
  /\ chore = "file" /\ file = <<>>
  /\ chore' = "prompt"
  /\ UNCHANGED <<file, lines, added, workerVars>>

(* The prompt: exit, quit or the end of the input ends the thread, an empty  *)
(* line is skipped, anything else is a query.                                *)
ReadLine ==
  /\ chore = "prompt"
  /\ IF lines = <<>> \/ Head(lines) \in {<<"exit">>, <<"quit">>}
     THEN chore' = "done" /\ UNCHANGED <<lines, added>>
     ELSE /\ lines' = Tail(lines)
          /\ IF Head(lines) = <<>> THEN UNCHANGED added ELSE addQuery(Head(lines))
          /\ UNCHANGED chore
  /\ UNCHANGED <<file, workerVars>>

-----------------------------------------------------------------------------
(* processQuery up to the call of the translator                             *)

choreVars == <<file, chore, lines, added>>

sql == added[next]

Idle == idx = Npos /\ query_name = <<>> /\ ~parallel

TakeNext(result) ==
  /\ split' = Append(split, result)
  /\ next' = next + 1
  /\ idx' = Npos /\ parallel' = FALSE /\ query_name' = <<>>
  /\ UNCHANGED choreVars

(* A blank text is dropped; otherwise the loop begins at its first word.     *)
processQuery ==
  /\ next <= Len(added) /\ Idle
  /\ LET i == find_first_not_of(sql, 1) IN
     IF i = Npos THEN TakeNext(<<>>)
     ELSE idx' = i /\ UNCHANGED <<next, parallel, query_name, split, choreVars>>

Translate(i, p, n) == TakeNext(<<[parallel |-> p, name |-> n, sql |-> substr(sql, i)]>>)

GoOn(i, p, n) ==
  IF i = Npos THEN Translate(i, p, n)
  ELSE /\ idx' = i /\ parallel' = p /\ query_name' = n
       /\ UNCHANGED <<next, split, choreVars>>

PrefixParallel ==
  /\ idx # Npos /\ sql[idx] = "PARALLEL"
  /\ GoOn(find_first_not_of(sql, idx + 1), TRUE, query_name)

\* Fault: the white space after NAME is not skipped, so the name is empty
PrefixNameEmpty ==
  /\ idx # Npos /\ sql[idx] = "NAME"
  /\ GoOn(find_first_not_of(sql, idx + 1), parallel, <<>>)

PrefixName ==
  /\ idx # Npos /\ sql[idx] = "NAME"
  /\ LET from == find_first_not_of(sql, idx + 1)
         end == find_first_of(sql, from)
     IN  IF from = Npos THEN Translate(Npos, parallel, query_name)
         ELSE IF end = Npos THEN Translate(Npos, parallel, substr(sql, from))
         ELSE GoOn(find_first_not_of(sql, end), parallel, SubSeq(sql, from, end - 1))

NoPrefix ==
  /\ idx # Npos /\ sql[idx] \notin {"PARALLEL", "NAME"}
  /\ Translate(idx, parallel, query_name)

Next ==
  \/ ChoreCli \/ read_from_file \/ EndOfFile \/ ReadLine
  \/ processQuery \/ PrefixParallel \/ PrefixName \/ NoPrefix

Spec == Init /\ [][Next]_intakeVars

-----------------------------------------------------------------------------
(* The keywords as the README describes them, word by word: PARALLEL is a     *)
(* flag, NAME names the query with the word that follows it, and the first    *)
(* word that is neither begins the statement.                                 *)

WordStart(s, k) == s[k] # Space /\ (k = 1 \/ s[k - 1] = Space)

WordFrom(s, k) == LET e == find_first_of(s, k) IN SubSeq(s, k, IF e = Npos THEN Len(s) ELSE e - 1)

(* The reader expects a keyword, a name or nothing more (the statement began). *)
Unread == [at |-> "key", parallel |-> FALSE, name |-> <<>>, sql |-> <<>>]

ReadWord(s, a, k) ==
  CASE a.at = "name" -> [a EXCEPT !.at = "key", !.name = WordFrom(s, k)]
    [] a.at = "key" /\ WordFrom(s, k) = <<"PARALLEL">> -> [a EXCEPT !.parallel = TRUE]
    [] a.at = "key" /\ WordFrom(s, k) = <<"NAME">>     -> [a EXCEPT !.at = "name"]
    [] OTHER -> [a EXCEPT !.at = "sql", !.sql = substr(s, k)]

ReadAt(s, a, k) == IF WordStart(s, k) /\ a.at # "sql" THEN ReadWord(s, a, k) ELSE a

(* What has been read of a text up to each of its positions.                 *)
Reading(s) ==
  LET read[k \in 0 .. Len(s)] == IF k = 0 THEN Unread ELSE ReadAt(s, read[k - 1], k)
  IN  read

ByWords(s) ==
  LET end == Reading(s)[Len(s)]
  IN  [parallel |-> end.parallel, name |-> end.name, sql |-> end.sql]

(* Keywords stand alone, as in every query the repository contains.          *)
Separated(s) == \A k \in 1 .. Len(s) - 1 :
  s[k] \in {"PARALLEL", "NAME"} => s[k + 1] = Space /\ (k = 1 \/ s[k - 1] = Space)

(* The README's caution, "If combined, PARALLEL must precede NAME": where the  *)
(* reader has a name and expects a keyword, there is no PARALLEL.             *)
InOrder(s) ==
  LET read == Reading(s) IN
  \A k \in 1 .. Len(s) :
     WordStart(s, k) /\ read[k - 1].at = "key" /\ read[k - 1].name # <<>> =>
        WordFrom(s, k) # <<"PARALLEL">>

(* For a text in the form the README prescribes (keywords stand alone,        *)
(* PARALLEL precedes NAME) the prefix loop of processQuery finds the mode, the *)
(* name and the statement that reading the text word by word finds: with       *)
(* either keyword, both or none, repeated ones, a name that is a keyword, a    *)
(* text that ends inside its prefixes, and nothing of an earlier query left    *)
(* over in a later one.                                                        *)
PrefixesByWords ==
  \A i \in 1 .. Len(split) : Separated(added[i]) /\ InOrder(added[i]) =>
    split[i] = IF Blank(added[i]) THEN <<>> ELSE <<ByWords(added[i])>>

(* The pieces of a text between semicolons that hold more than white space, *)
(* collected from the end of the text: After(s)[j] are those that begin in    *)
(* its last j positions.                                                      *)
PieceFrom(s, k) ==
  LET e == Cut(s, k) IN SubSeq(s, k, IF e = Npos THEN Len(s) ELSE e - 1)

PieceStart(s, k) == (k = 1 \/ s[k - 1] = Semicolon) /\ ~Blank(PieceFrom(s, k))

WithPiece(s, rest, k) == IF PieceStart(s, k) THEN <<PieceFrom(s, k)>> \o rest ELSE rest

After(s) ==
  LET after[j \in 0 .. Len(s)] ==
        IF j = 0 THEN <<>> ELSE WithPiece(s, after[j - 1], Len(s) - j + 1)
  IN  after

Pieces(s) == After(s)[Len(s)]

(* From the moment read_from_file runs until the prompt, what the file still  *)
(* holds plus what was added is the same list of statements, in their order:  *)
(* no statement of the file is lost, repeated or cut differently.             *)
FileHandedOver ==
  [][chore = "file" => Pieces(file) =
       SubSeq(added', Len(added) + 1, Len(added')) \o Pieces(file')]_intakeVars

=============================================================================
