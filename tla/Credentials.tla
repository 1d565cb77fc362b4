--------------------------- MODULE Credentials ---------------------------
(***************************************************************************)
(* The AWS credentials of a request (getAWSCredentials and                 *)
(* parseAWSINICredentials, fn.go:175-254) and what NewDynamoDBStore makes  *)
(* of them (dynamodb_store.go:25-59).                                      *)
(*                                                                         *)
(* A secret is absent, JSON, or lines of text.  A line is a section        *)
(* header, an assignment, or something the parser passes over (blank, a    *)
(* comment, no "=", a key it does not know).                               *)
(***************************************************************************)
EXTENDS Sequences

LOCAL INSTANCE Integers

CONSTANT None  \* the empty string, and a key that is not there

Fields == {"accessKeyId", "secretAccessKey", "sessionToken"}
NoCredentials == [f \in Fields |-> None]

Section(default) == [kind |-> "section", default |-> default]
Assignment(field, value) == [kind |-> "assignment", field |-> field, value |-> value]
Other == [kind |-> "other"]

IsLine(line) ==
  \/ line \in {Section(TRUE), Section(FALSE), Other}
  \/ line.field \in Fields /\ line = Assignment(line.field, line.value)

NoSecret == [format |-> "none"]
JSON(creds, more) == [format |-> "json", creds |-> creds, more |-> more]
Text(lines) == [format |-> "text", lines |-> lines]

\* The parser before the first line.
Start == [inDefault |-> FALSE, creds |-> NoCredentials]

\* A slip: only the next [default] ends a section.
ReadForgetful(parser, line) ==
  CASE line.kind = "section" /\ line.default -> [parser EXCEPT !.inDefault = TRUE]
    [] line.kind = "assignment" /\ parser.inDefault ->
         [parser EXCEPT !.creds[line.field] = line.value]
    [] OTHER -> parser

Read(parser, line) ==
  CASE line.kind = "section" -> [parser EXCEPT !.inDefault = line.default]
    [] line.kind = "assignment" /\ parser.inDefault ->
         [parser EXCEPT !.creds[line.field] = line.value]
    [] OTHER -> parser

\* The loop over the lines.
Parsed(lines) ==
  LET after[i \in 0..Len(lines)] ==
        IF i = 0 THEN Start ELSE Read(after[i - 1], lines[i])
  IN  after[Len(lines)].creds

Complete(creds) == creds["accessKeyId"] # None /\ creds["secretAccessKey"] # None

\* Which credentials the DynamoDB client gets: "error", the default chain, or
\* those of the secret.  JSON is taken as it is and looked at by the store; an
\* empty object is no credentials.
Provider(secret) ==
  CASE secret.format = "none" -> "default chain"
    [] secret.format = "json" /\ secret.creds = NoCredentials /\ ~secret.more ->
         "default chain"
    [] secret.format = "json" /\ ~(secret.creds = NoCredentials /\ ~secret.more) ->
         IF Complete(secret.creds) THEN "secret" ELSE "error"
    [] secret.format = "text" ->
         IF Complete(Parsed(secret.lines)) THEN "secret" ELSE "error"

---------------------------------------------------------------------------
(* What the parser is to find, said without a parser *)

\* The section line i belongs to is [default].
IsInDefault(lines, i) ==
  \E h \in 1..i - 1 :
    /\ lines[h] = Section(TRUE)
    /\ \A j \in h + 1..i - 1 : lines[j].kind # "section"

\* Where [default] gives the field a value in the first n lines.
Given(lines, n, field) ==
  {i \in 1..n : /\ lines[i].kind = "assignment"
                /\ lines[i].field = field
                /\ IsInDefault(lines, i)}

\* The last value that the first n lines have for it in [default].
ValueAfter(lines, n, field) ==
  LET given == Given(lines, n, field)
  IN  IF given = {} THEN None
      ELSE lines[CHOOSE i \in given : \A j \in given : j <= i].value

ValueInDefault(lines, field) == ValueAfter(lines, Len(lines), field)
===========================================================================
