---------------------------- MODULE SignInMessage ----------------------------
(***************************************************************************)
(* The text of a Sign-In with Stacks message: SignInWithStacksMessage        *)
(* (packages/client/src/siwms/index.ts) writes it, ParsedMessage (parser.ts) *)
(* reads it by one regular expression.                                       *)
(*                                                                          *)
(* A text is the sequence of its lines, each with its label.  Of a field's   *)
(* value the regular expressions see what the constants below tell.          *)
(***************************************************************************)
EXTENDS Sequences
LOCAL INSTANCE Naturals

CONSTANTS
    Missing,            \* a field that is undefined
    StacksAddresses,    \* what validateStacksAddress accepts
    FullAddresses,      \* of these, those of S and 40 more characters
    Uris,               \* what isUri accepts
    Unqueried,          \* domains without ? and #
    OneLiners,          \* texts without a line break
    RequestIds,         \* texts of the characters a request id may have
    GoodNonces,         \* eight or more letters and digits, and nothing else
    Dated,              \* what has a date and time in it
    Datetimes           \* of these, those that are nothing else

ASSUME SignInAssumption ==
    /\ FullAddresses \subseteq StacksAddresses /\ Datetimes \subseteq Dated
    /\ Missing \notin OneLiners

\* getSignInMessage of the client, which gives the application's name for the domain and the
\* domain for the uri.
GetSignInMessage(client, options) ==
    [domain |-> client.appName, address |-> client.stxAddress,
     statement |-> IF options.statement = Missing THEN "Sign in with Stacks" ELSE options.statement,
     uri |-> IF options.domain = Missing THEN client.origin ELSE options.domain,
     version |-> IF options.version = Missing THEN "1" ELSE options.version,
     chainId |-> "1", nonce |-> options.nonce, issuedAt |-> Missing, expirationTime |-> Missing,
     notBefore |-> Missing, requestId |-> Missing, resources |-> Missing]

\* validateMessage does not throw.
IsValid(m) ==
    /\ m.domain # Missing
    /\ m.address \in StacksAddresses
    /\ m.uri \in Uris
    /\ m.version = "1"
    /\ m.nonce \in GoodNonces
    /\ \A name \in {"issuedAt", "expirationTime", "notBefore"} : m[name] \in Dated \cup {Missing}

\* toMessage keeps the time at which it is first called.
Stamped(m, now) == IF m.issuedAt = Missing THEN [m EXCEPT !.issuedAt = now] ELSE m

Line(label, value) == <<[label |-> label, value |-> value]>>

Blank == Line("", "")

Given(label, value) == IF value = Missing THEN <<>> ELSE Line(label, value)

\* No statement, and no line for it.
StatementLinesTight(statement) ==
    IF statement = Missing THEN Blank ELSE Blank \o Line("text", statement) \o Blank

\* The statement's line breaks make lines of their own.
StatementLines(statement) ==
    Blank \o (CASE statement = Missing -> <<>>
                [] statement \in OneLiners -> Line("text", statement)
                [] OTHER -> Line("text", statement) \o Line("text", statement)) \o Blank

\* toMessage, of a message that is stamped.
Lines(m) ==
    Line("header", m.domain) \o Line("address", m.address) \o StatementLines(m.statement)
    \o Line("URI", m.uri) \o Line("Version", m.version) \o Line("Chain ID", m.chainId)
    \o Line("Nonce", m.nonce) \o Line("Issued At", m.issuedAt)
    \o Given("Expiration Time", m.expirationTime) \o Given("Not Before", m.notBefore)
    \o Given("Request ID", m.requestId)
    \o (IF m.resources = Missing THEN <<>>
        ELSE Line("Resources", "")
             \o [i \in DOMAIN m.resources |-> [label |-> "-", value |-> m.resources[i]]])

-----------------------------------------------------------------------------
(* new ParsedMessage(text).                                                 *)

HasLabel(lines, label) == \E i \in DOMAIN lines : lines[i].label = label

ValueAt(lines, label) ==
    IF HasLabel(lines, label)
    THEN lines[CHOOSE i \in DOMAIN lines : lines[i].label = label].value
    ELSE Missing

\* One turn over the lines after the one of the resources.
KeepItem(context, items, line) ==
    IF line.label = "-" THEN Append(items, line.value) ELSE items

Itemizing == INSTANCE SequenceFold WITH Step <- KeepItem

Items(lines) == Itemizing!Fold(0, <<>>, lines)

AsParsed(lines) ==
    [domain |-> ValueAt(lines, "header"), address |-> ValueAt(lines, "address"),
     statement |-> ValueAt(lines, "text"), uri |-> ValueAt(lines, "URI"),
     version |-> ValueAt(lines, "Version"), chainId |-> ValueAt(lines, "Chain ID"),
     nonce |-> ValueAt(lines, "Nonce"), issuedAt |-> ValueAt(lines, "Issued At"),
     expirationTime |-> ValueAt(lines, "Expiration Time"),
     notBefore |-> ValueAt(lines, "Not Before"), requestId |-> ValueAt(lines, "Request ID"),
     resources |-> IF Items(lines) = <<>> THEN Missing ELSE Items(lines)]

Labels(lines) == [i \in DOMAIN lines |-> lines[i].label]

Optional(lines, label) == IF HasLabel(lines, label) THEN <<label>> ELSE <<>>

\* The order of lines the regular expression has, of those that are there.
InOrder(lines) ==
    Labels(lines) =
        <<"header", "address", "">> \o Optional(lines, "text")
        \o <<"", "URI", "Version", "Chain ID", "Nonce", "Issued At">>
        \o Optional(lines, "Expiration Time") \o Optional(lines, "Not Before")
        \o Optional(lines, "Request ID") \o Optional(lines, "Resources")
        \o [i \in DOMAIN Items(lines) |-> "-"]

\* The regular expression matches, the fields being of the characters it has for
\* them, and the checks after it pass.
Matches(lines) ==
    LET m == AsParsed(lines)
    IN  /\ InOrder(lines)
        /\ m.chainId # Missing
        /\ HasLabel(lines, "Resources") <=> m.resources # Missing
        /\ m.statement \in OneLiners \cup {Missing}
        /\ m.domain \in Unqueried
        /\ m.address \in FullAddresses
        /\ m.uri \in Uris
        /\ m.version = "1"
        /\ m.nonce \in GoodNonces
        /\ m.issuedAt \in Datetimes
        /\ \A name \in {"expirationTime", "notBefore"} : m[name] \in Datetimes \cup {Missing}
        /\ m.requestId \in RequestIds \cup {Missing}
        /\ m.resources # Missing => \A i \in DOMAIN m.resources : m.resources[i] \in Uris

\* new SignInWithStacksMessage(text) makes a message of it.
CanParse(lines) == Matches(lines) /\ IsValid(AsParsed(lines))
=============================================================================
