------------------------------ MODULE TextFormats ------------------------------
(***************************************************************************)
(* Texts that one side writes, another reads and may write again: encoded    *)
(* bytes, addresses, tokens, signed and sign-in messages, encrypted files,   *)
(* zone files, and requests to sign in and their responses, in the formats   *)
(* of the modules below.                                                    *)
(*                                                                          *)
(* The contents are given as sequences, since TLC cannot put values of       *)
(* several types in one set.                                                *)
(***************************************************************************)
EXTENDS SignedMessages, SignInMessage, AuthTokens, ZoneFiles

CONSTANTS
    Texts,          \* [code |-> "base58", "base64" or "c32", bytes |-> ...]
    Addresses,      \* [version |-> of Bitcoin, hash160 |-> bytes]
    Tokens,         \* [payload |-> string, der |-> signature]
    Messages,       \* [bytes |-> message, prefix |-> ChainPrefix or LegacyPrefix]
    SignIns,        \* sign-in messages, as their constructor is given them
    EncryptedFiles, \* what putFile is given, and who reads it
    MaxUploadBytes, \* of the hub
    Zones,
    AuthRequests,   \* [token, readAt, manifestAnswers], which a wallet gets
    AuthResponses,  \* what a wallet makes a response of; readAt, reader and lookups of its reader
    Now,            \* the time at which toMessage is first called
    MaxHops         \* how often a content is written again

\* What a token has in it; it names no url or any.
IsAuthRequest(request) ==
    LET payload == request.token.payload
        keys == {payload.public_keys[i] : i \in DOMAIN payload.public_keys}
    IN  /\ payload.public_keys \in Seq(keys) /\ NoKey \notin keys
        /\ \A url \in {payload.domain_name, payload.manifest_uri, payload.redirect_uri} \ {Null} :
              url.absolute \in BOOLEAN /\ url.port \in Nat
        /\ {payload.iat, payload.exp} \subseteq Nat \cup {Null}
        /\ request.readAt \in Nat /\ request.manifestAnswers \in BOOLEAN

IsAuthResponse(params) ==
    /\ {params.madeAt, params.readAt} \subseteq Nat /\ params.expiresAt \in Nat \cup {Null}
    /\ params.reader # Null
    /\ DOMAIN params.lookups # {}

\* A string has characters, bytes or octets have numbers, and the signature of secp256k1 has at
\* most 72 bytes of DER.
IsFile(file) ==
    /\ {"type", "content"} \subseteq DOMAIN file
    /\ file.content \in Seq(IF file.type = "string" THEN Characters ELSE Int)
    /\ file.derBytes \in 0..72

ASSUME EncryptedAssumption ==
    /\ \A i \in DOMAIN EncryptedFiles : IsFile(EncryptedFiles[i])
    /\ MaxUploadBytes \in Nat

\* What its constructor is given has every field, or Missing for it.
IsSignIn(m) ==
    /\ m = [domain |-> m.domain, address |-> m.address, statement |-> m.statement, uri |-> m.uri,
            version |-> m.version, chainId |-> m.chainId, nonce |-> m.nonce,
            issuedAt |-> m.issuedAt, expirationTime |-> m.expirationTime,
            notBefore |-> m.notBefore, requestId |-> m.requestId, resources |-> m.resources]
    /\ m.resources # Missing => m.resources \in Seq({m.resources[i] : i \in DOMAIN m.resources})

ASSUME SignInsAssumption ==
    /\ \A i \in DOMAIN SignIns : IsSignIn(SignIns[i])
    /\ Now \in Datetimes /\ Now # Missing

ASSUME AuthAssumption ==
    /\ \A i \in DOMAIN AuthRequests : IsAuthRequest(AuthRequests[i])
    /\ \A i \in DOMAIN AuthResponses : IsAuthResponse(AuthResponses[i])

\* A payload is the characters of JSON, which does not begin with a byte order mark, and a
\* signature is DER.
IsToken(token) ==
    LET rLength == token.der[4]
        r == SubSeq(token.der, 5, 4 + rLength)
        s == Drop(token.der, 6 + rLength)
    IN  /\ token = [payload |-> token.payload, der |-> Der(r, s)]
        /\ token.payload \in Seq(Characters) /\ ~IsMarked(token.payload)
        /\ IsDerInteger(r) /\ IsDerInteger(s)

\* A message has no more bytes than EncodeVarUint goes up to.
IsMessage(message) ==
    /\ message = [bytes |-> message.bytes, prefix |-> message.prefix]
    /\ message.bytes \in Seq(0..255) /\ Len(message.bytes) \div 16777216 < 256
    /\ message.prefix \in {ChainPrefix, LegacyPrefix}

ASSUME SignedAssumption ==
    /\ \A i \in DOMAIN Tokens : IsToken(Tokens[i])
    /\ \A i \in DOMAIN Messages : IsMessage(Messages[i])

ASSUME TextsAssumption ==
    \A i \in DOMAIN Texts :
        Texts[i].code \in {"base58", "base64", "c32"} /\ Texts[i].bytes \in Seq(0..255)

VARIABLES
    sent,           \* [kind, content], or Nothing
    wire,
    got,            \* what the reader made of it, or NotRead
    hops

textVars == <<sent, wire, got, hops>>

Nothing == [kind |-> "nothing"]
NotRead == [ok |-> FALSE, read |-> FALSE]

TextKinds == {"base58", "base64", "c32", "address", "token", "message", "signIn", "file", "zone",
              "request", "response"}

-----------------------------------------------------------------------------

EncodeText(kind, content) ==
    CASE kind = "base58" -> EncodeB58(content)
      [] kind = "base64" -> EncodeB64(content)
      [] kind = "c32" -> C32Encode(content)
      [] kind = "address" -> Base58Address(content.version, content.hash160)
      [] kind = "token" -> SignToken(content.payload, content.der).value
      [] kind = "message" -> EncodeMessage(content.bytes, content.prefix)
      [] kind = "signIn" -> Lines(content)
      [] kind = "file" -> Upload(content)
      [] kind = "zone" -> MakeZoneFile(content)
      [] kind = "request" -> content.token
      [] kind = "response" -> MakeAuthResponse(content).value

\* An address is converted to c32 and back.
DecodeText(kind, content, text) ==
    CASE kind = "base58" -> Read(DecodeB58(text), <<>>)
      [] kind = "base64" -> Read(DecodeB64(text), <<>>)
      [] kind = "c32" -> Read(C32Decode(text), <<>>)
      [] kind = "address" ->
            Then(B58ToC32(text), LAMBDA c32, r : Then(C32ToB58(c32), LAMBDA b58, rest :
              Base58AddressDecode(b58)))
      [] kind = "token" -> Read(DecodeToken(text), <<>>)
      [] kind = "message" ->
            Read([bytes |-> DecodeMessage(text, content.prefix), prefix |-> content.prefix], <<>>)
      [] kind = "signIn" -> IF CanParse(text) THEN Read(AsParsed(text), <<>>) ELSE Throws
      [] kind = "file" -> Then(Download(content, text), LAMBDA file, r :
            Read([content EXCEPT !.type = file.type, !.content = file.content], r))
      [] kind = "zone" -> Read(ParseZoneFile(text, content.template), <<>>)
      [] kind = "request" ->
            VerifyAuthRequestAndLoadManifest(text, content.readAt, content.manifestAnswers)
      [] kind = "response" ->
            Then(VerifyAuthResponse(text, content.readAt, content.lookups), LAMBDA valid, r :
              Read([valid |-> valid, session |-> Authenticate(text, content.reader)], r))

Write(kind, content, encoded) ==
    /\ sent' = [kind |-> kind, content |-> content]
    /\ wire' = encoded
    /\ UNCHANGED <<got, hops>>

WriteAsText(kind, content) == Write(kind, content, EncodeText(kind, content))

WriteText(text) == WriteAsText(text.code, text.bytes)

WriteAddress(address) == WriteAsText("address", address)

WriteToken(token) == WriteAsText("token", token)

WriteMessage(message) == WriteAsText("message", message)

\* The constructor, and prepareMessage.
WriteSignIn(m) == IsValid(m) /\ WriteAsText("signIn", Stamped(m, Now))

WriteFile(file) == MaySend(file, MaxUploadBytes) /\ WriteAsText("file", file)

WriteZone(zone) == WriteAsText("zone", zone)

WriteAuthRequest(request) == WriteAsText("request", request)

WriteAuthResponse(params) == MakeAuthResponse(params).ok /\ WriteAsText("response", params)

\* One side writes a text, the first time.
WriteOneText ==
    /\ sent = Nothing
    /\ \/ \E i \in DOMAIN Texts : WriteText(Texts[i])
       \/ \E i \in DOMAIN Addresses : WriteAddress(Addresses[i])
       \/ \E i \in DOMAIN Tokens : WriteToken(Tokens[i])
       \/ \E i \in DOMAIN Messages : WriteMessage(Messages[i])
       \/ \E i \in DOMAIN SignIns : WriteSignIn(SignIns[i])
       \/ \E i \in DOMAIN EncryptedFiles : WriteFile(EncryptedFiles[i])
       \/ \E i \in DOMAIN Zones : WriteZone(Zones[i])
       \/ \E i \in DOMAIN AuthRequests : WriteAuthRequest(AuthRequests[i])
       \/ \E i \in DOMAIN AuthResponses : WriteAuthResponse(AuthResponses[i])

Outcome(decoded) ==
    IF decoded.ok THEN [ok |-> TRUE, read |-> TRUE, value |-> decoded.value]
    ELSE [ok |-> FALSE, read |-> TRUE]

\* What the reader made of the wire.
Reads(decoded) ==
    /\ got = NotRead
    /\ got' = Outcome(decoded)
    /\ UNCHANGED <<sent, wire, hops>>

ReadText == sent.kind \in TextKinds /\ Reads(DecodeText(sent.kind, sent.content, wire))

\* The reader writes what it read.
Relays(encoded) ==
    /\ got.ok /\ hops < MaxHops
    /\ wire' = encoded
    /\ got' = NotRead
    /\ hops' = hops + 1
    /\ UNCHANGED sent

\* What a request and its response say is for their reader alone.
RelayText ==
    sent.kind \in TextKinds \ {"request", "response"} /\ Relays(EncodeText(sent.kind, got.value))

TextInit ==
    /\ sent = Nothing
    /\ wire = <<>>
    /\ got = NotRead
    /\ hops = 0

TextNext == WriteOneText \/ ReadText \/ RelayText

\* The wire carries something else than a text.
Elsewhere == sent.kind \notin TextKinds /\ sent' # Nothing /\ sent'.kind \notin TextKinds

TextSpec == TextInit /\ [][TextNext \/ Elsewhere]_textVars

-----------------------------------------------------------------------------
(* Properties.                                                              *)

\* A reader has read a content of these kinds.
HasRead(kinds) == sent.kind \in kinds /\ got.read

IsReadAsSent == got.ok /\ got.value = sent.content

\* base58 and base64 give back every bytes but zeros alone, of which base58 makes one more;
\* c32 all but those whose zeros follow a byte order mark.  And c32encode, which takes five
\* bits at a time out of hex digits, writes the number in base 32, after a zero for each zero
\* byte in front.  So a Bitcoin address survives b58ToC32 and c32ToB58, unless its hash starts
\* with a byte order mark and a zero: then c32address makes what c32addressDecode refuses.
TextIsRead ==
    /\ HasRead({"base58", "base64", "c32"}) =>
        (IsReadAsSent <=>
            /\ sent.kind = "base58" /\ sent.content # <<>> => Seqs!Range(sent.content) # {0}
            /\ sent.kind = "c32" => Take(sent.content, 4) # ByteOrderMark \o <<0>>)
    /\ sent.kind = "c32" /\ hops = 0 /\ Take(sent.content, 3) # ByteOrderMark =>
        wire = Zeros(Leading(sent.content, 0)) \o DivDigits(sent.content, 32)
    /\ HasRead({"address"}) =>
        (IsReadAsSent <=> Take(sent.content.hash160, 4) # ByteOrderMark \o <<0>>)

\* The signature that TokenVerifier verifies is the one that TokenSigner made, whatever
\* zeros and signs its integers have, and the payload the one that was signed.  A message is
\* decoded whole, and what is signed verifies as that message only, under both prefixes and
\* across the lengths where the length prefix grows (varuint.ts).
SignedIsRead ==
    /\ HasRead({"token", "message"}) => IsReadAsSent
    /\ sent.kind = "message" =>
        \A i \in DOMAIN Messages :
            VerifiesMessage(Messages[i].bytes, wire) <=> Messages[i].bytes = sent.content.bytes

\* A relying party that is given the text of a sign-in message reads the message that was
\* prepared, but for addresses that are shorter than most, for what the constructor lets pass
\* and the regular expression does not, and for texts that run over their line.
SignInIsRead ==
    HasRead({"signIn"}) =>
        (IsReadAsSent <=>
            /\ sent.content.address \in FullAddresses
            /\ sent.content.domain \in Unqueried
            /\ sent.content.statement \in OneLiners \cup {Missing}
            /\ sent.content.chainId # Missing
            /\ \A name \in {"issuedAt", "expirationTime", "notBefore"} :
                  sent.content[name] \in Datetimes \cup {Missing}
            /\ sent.content.requestId \in RequestIds \cup {Missing}
            /\ sent.content.resources # Missing =>
                  /\ sent.content.resources # <<>>
                  /\ \A i \in DOMAIN sent.content.resources : sent.content.resources[i] \in Uris)

\* An encrypted file that was asked to be signed is as large as putFile foretold, or smaller by
\* what its signature has less than 72 bytes, so it keeps within the hub's limit.  One that was
\* not asked to be is larger than foretold, since it is signed or stringified twice.  It is
\* read just by whom it is encrypted for, if the owner's private key signed it, and then it
\* is the string or the bytes it was, except for the byte order mark of a string.
UploadIsAsForetold ==
    sent.kind = "file" /\ hops = 0 =>
        LET file == sent.content
            length == wire.text.length
        IN  /\ length <= Foretold(file) <=> file.sign # "false"
            /\ file.sign # "false" /\ file.encoding # "omitted" => length <= MaxUploadBytes
            /\ file.sign # "false" /\ file.privateKey # NoKey =>
                  Foretold(file) = length + 2 * (72 - file.derBytes)
            /\ HasRead({"file"}) =>
                  /\ got.ok <=> /\ file.privateKey # NoKey /\ file.privateKey = file.owner
                                /\ file.reader = PublicKeyOf(file)
                  /\ got.ok => /\ Loaded(got.value) = Loaded(file) \/ Head(file.content) = Mark
                               /\ got.value.type = "string" <=> file.type = "string"

\* What makeZoneFile writes of a record, the SOA record too: an empty name is an @, and a ttl of
\* 0 none.
AsWritten(record) ==
    [record EXCEPT !.name = IF @ \in {"", Absent} THEN "@" ELSE @, !.ttl = IF @ = "0" THEN Absent ELSE @]

\* The data of a policy that parseSPF gives back: it stands after a ttl, is more than one word,
\* and none but its last is the name of a type that parseRRs looks for before SPF.
IsPolicyKept(record) ==
    /\ record.ttl \notin {Absent, "0"}
    /\ Len(record.data) > 1
    /\ \A i \in 1..(Len(record.data) - 1) :
          Upper(record.data[i]) \notin {"TXT", "SOA", "NS", "A", "AAAA", "CNAME", "MX", "PTR", "SRV"}

HasSemicolon(type, record) ==
    \E item \in Seqs!Range(DataItems(type, record.data)) :
        Seqs!Range(item.words) \cap DOMAIN BeforeSemicolon # {}

\* A zone file is read as the zone it was written of, whatever words its texts have in them,
\* just when it has a SOA record or is a profile's, and there is no policy that parseSPF or an
\* earlier test of parseRRs takes apart, no text under the name TXT, and no semicolon
\* (parse-zonefile.ts, make-zonefile.ts).
ZoneFileIsRead ==
    HasRead({"zone"}) /\ hops = 0 =>
        LET zone == sent.content
            written == [zone EXCEPT
                          !.soa = IF @ = Absent THEN Absent ELSE AsWritten(@),
                          !.records = [type \in RecordTypes |->
                             [i \in DOMAIN zone.records[type] |-> AsWritten(zone.records[type][i])]]]
        IN  got.ok /\ (got.value = written <=>
                /\ zone.soa # Absent \/ zone.template = "profile"
                /\ \A record \in Seqs!Range(zone.records["SPF"]) : IsPolicyKept(record)
                /\ \A record \in Seqs!Range(zone.records["TXT"]) : record.name # "TXT"
                /\ \A type \in RecordTypes : \A record \in Seqs!Range(zone.records[type]) :
                      ~HasSemicolon(type, record))

\* Scheme, host and port, of a url that has them.
OriginOf(url) ==
    <<url.scheme, url.hostname,
      IF url.scheme = "https:" /\ url.port = 0 THEN 443 ELSE IF url.port = 0 THEN 80 ELSE url.port>>

\* verifyAuthRequest takes a request of one origin that is signed by who issued it, within its
\* time; it never takes one that authenticate of this library makes, which has no issuer and
\* no manifest (verification.ts, authentication.ts).
RequestIsTaken(request) ==
    LET payload == request.token.payload
        urls == {payload.domain_name, payload.manifest_uri, payload.redirect_uri}
    IN  /\ request.manifestAnswers /\ Null \notin urls
        /\ payload.public_keys = <<request.token.signer>>
        /\ payload.iss.type = "btc-addr" /\ payload.iss.address = StxAddress(request.token.signer)
        /\ \A url \in urls : url.absolute /\ OriginOf(url) = OriginOf(payload.domain_name)
        /\ payload.iat # Null => payload.iat * SecondMs <= request.readAt
        /\ payload.exp \notin {Null, 0} => request.readAt <= payload.exp * SecondMs

\* A response is valid from the second it is made in until the last whole second before it
\* expires, for ever if that is the first; and only if it has no name, since the owner of a
\* name is looked for among Bitcoin addresses and the issuer is a Stacks address.  The
\* application has a session of it unless there is no profile, and in it the app private key,
\* if the wallet was given this sign-in's transit key, but as bytes and not as the string that
\* it was, and the hub's url just when there is such a key.  Neither the key nor the core token
\* travels in the clear next to a transit key, but a core token without an app private key
\* (index.ts, decode-auth-response.ts).
SignInTokensAgree ==
    /\ HasRead({"request"}) => (got.ok <=> RequestIsTaken(sent.content))
    /\ HasRead({"response"}) =>
        LET params == sent.content
            session == got.value.session
            expiry == ExpiresAt(params)
        IN  /\ got.value.valid <=>
                  /\ params.username = Null
                  /\ params.readAt >= params.madeAt - (params.madeAt % SecondMs)
                  /\ expiry < SecondMs \/ params.readAt <= expiry - (expiry % SecondMs)
            /\ session.ok <=> params.profile # Null
            /\ session.ok =>
                  /\ session.value.identityAddress = StxAddress(params.privateKey)
                  /\ session.value.hubUrl =
                        IF params.appPrivateKey = Null THEN Null ELSE params.hubUrl
                  /\ session.value.appPrivateKey =
                        IF params.appPrivateKey # Null /\ params.transitPublicKey = params.reader
                        THEN [type |-> "bytes", content |-> params.appPrivateKey.bytes] ELSE Null
            /\ params.transitPublicKey # Null =>
                  /\ wire.payload.private_key.form # "clear"
                  /\ wire.payload.core_token.form = "clear" <=>
                        params.coreToken # Null /\ params.appPrivateKey = Null
=============================================================================
