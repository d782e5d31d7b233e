------------------------------ MODULE MCFormats ------------------------------
(* Instances of Formats for TLC, with fields of one or two bytes.            *)
EXTENDS Formats
LOCAL INSTANCE SequencesExt

Leaf(type) == [type |-> type]
Data(type, data) == [type |-> type, data |-> data]

Home == [version |-> 22, hash160 |-> <<7, 0>>]

IntValue(n) == [type |-> "Int", value |-> n]
UIntValue(n) == [type |-> "UInt", value |-> n]

\* Integers of two bytes at the ends and around zero, of which intCV refuses 256 and -16.
Leaves ==
    <<IntValue(0), IntValue(-1), IntValue(255), IntValue(256), IntValue(-16), IntValue(-256),
      IntValue(32767), IntValue(-32768), UIntValue(0), UIntValue(65535), Leaf("BoolTrue"), Leaf("BoolFalse"), Leaf("OptionalNone"),
      [type |-> "Buffer", buffer |-> <<>>], [type |-> "Buffer", buffer |-> <<1, 2, 255>>],
      [type |-> "PrincipalStandard", address |-> Home],
      [type |-> "PrincipalContract", address |-> Home, contractName |-> <<97, 98>>],
      [type |-> "PrincipalContract", address |-> Home, contractName |-> <<97, 98, 99, 100>>],
      [type |-> "PrincipalContract", address |-> Home, contractName |-> <<Mark>>],
      Data("StringASCII", <<>>), Data("StringASCII", <<104, 105>>), Data("StringASCII", <<300>>),
      Data("StringUTF8", <<65>>), Data("StringUTF8", <<233, 8364>>), Data("StringUTF8", <<Mark, 104, 105>>),
      Data("StringUTF8", <<>>)>>

ListOf(list) == [type |-> "List", list |-> list]

\* Names of which one is another's beginning, and a capital.
Tuple3(x, y, z) == Data("Tuple", <<97>> :> x @@ <<97, 98>> :> y @@ <<66>> :> z)

N == Len(Leaves)

\* Each leaf alone, wrapped, and beside every other in a list or a tuple.
SomeValues ==
    Leaves
    \o [i \in 1..N |-> [type |-> "OptionalSome", value |-> Leaves[i]]]
    \o [i \in 1..N |-> [type |-> "ResponseErr",
                        value |-> [type |-> "ResponseOk", value |-> Leaves[i]]]]
    \o <<ListOf(<<>>), ListOf(<<ListOf(<<>>)>>), Data("Tuple", <<>>)>>
    \o [i \in 1..(8 * N) |-> ListOf(<<Leaves[1 + (i % N)], Leaves[1 + ((i \div N + 3 * i) % N)]>>)]
    \o [i \in 1..N |-> ListOf(<<ListOf(<<Leaves[i]>>)>>)]
    \o [i \in 1..N |-> Tuple3(Leaves[i], Leaves[1 + (i % N)], ListOf(<<Leaves[i]>>))]

-----------------------------------------------------------------------------

Signature == <<1, 9>>
Single(mode, encoding, nonce, fee) ==
    [hashMode |-> mode, signer |-> <<7, 0>>, nonce |-> nonce, fee |-> fee,
     keyEncoding |-> encoding, signature |-> Signature]
Multi(mode, fields) ==
    [hashMode |-> mode, signer |-> <<7, 0>>, nonce |-> 1, fee |-> 300, fields |-> fields,
     signaturesRequired |-> 1]
Field(kind, encoding, data) == [kind |-> kind, pubKeyEncoding |-> encoding, data |-> data]

KeyAndSignature == <<Field("pubkey", 0, <<3, 5>>), Field("signature", 0, Signature)>>
UncompressedKey == <<Field("pubkey", 1, <<4, 5, 7>>), Field("signature", 0, Signature)>>
UncompressedSignature == <<Field("signature", 1, Signature), Field("pubkey", 0, <<2, 5>>)>>

\* [authType, conditions]
Auths ==
    <<<<4, <<Single(0, 0, 0, 300)>>>>, <<4, <<Single(2, 0, 65535, 0)>>>>, <<4, <<Single(2, 1, 0, 0)>>>>,
      <<4, <<Single(0, 1, -8, 0)>>>>, <<4, <<Single(0, 0, 0, 65536)>>>>, <<4, <<Multi(1, <<>>)>>>>,
      <<4, <<Multi(1, KeyAndSignature)>>>>, <<4, <<Multi(1, UncompressedKey)>>>>,
      <<4, <<Multi(3, UncompressedKey)>>>>, <<4, <<Multi(3, UncompressedSignature)>>>>,
      <<5, <<Single(0, 1, 1, 1), Single(2, 0, 0, 7)>>>>,
      <<5, <<Multi(1, KeyAndSignature), Multi(3, KeyAndSignature)>>>>>>

Standard == [prefix |-> 2, address |-> Home]
Contract(name) == [prefix |-> 3, address |-> Home, contractName |-> name]
Asset(name) == [address |-> Home, contractName |-> <<97>>, assetName |-> name]
STX(amount) == [conditionType |-> 0, principal |-> Standard, conditionCode |-> 3, amount |-> amount]

PostConditionLists ==
    <<<<>>, <<STX(65535)>>, <<STX(-16)>>,
      <<[conditionType |-> 1, principal |-> Contract(<<97, 98, 99, 100>>), conditionCode |-> 5,
         amount |-> 0, assetInfo |-> Asset(<<98, 99>>)],
        [conditionType |-> 2, principal |-> Standard, conditionCode |-> 16, assetInfo |-> Asset(<<98>>),
         assetName |-> UIntValue(3)]>>,
      <<[conditionType |-> 0, principal |-> Contract(<<Mark>>), conditionCode |-> 1, amount |-> 1]>>,
      <<[conditionType |-> 1, principal |-> Standard, conditionCode |-> 1, amount |-> 1,
         assetInfo |-> Asset(<<Mark, 98>>)]>>>>

Transfer(recipient, amount, memo) ==
    [payloadType |-> 0, recipient |-> recipient, amount |-> amount, memo |-> memo]
Person == [type |-> "PrincipalStandard", address |-> Home]
Vault == [type |-> "PrincipalContract", address |-> Home, contractName |-> <<97, 98>>]
Call(args) ==
    [payloadType |-> 2, contractAddress |-> Home, contractName |-> <<97>>,
     functionName |-> <<98, 99>>, functionArgs |-> args]

\* Memos that are empty, short, full, with a zero, of a wide character, with a byte order mark, and
\* too long.
Payloads ==
    <<Transfer(Person, 7, <<>>), Transfer(Vault, 300, <<97>>), Transfer(Person, 65535, <<97, 98, 99, 100>>),
      Transfer(Person, 1, <<97, 0>>), Transfer(Person, 1, <<233>>), Transfer(Person, 1, <<97, 98, 233>>),
      Transfer(Person, 1, <<Mark>>), Transfer(Person, 1, <<8364, 233>>),
      Transfer(Person, 1048576, <<97>>), Transfer(Person, -8, <<>>), Transfer(Person, -16, <<>>),
      Call(<<>>), Call(<<Leaves[1], ListOf(<<Vault>>)>>), Call(<<Data("StringASCII", <<200>>)>>),
      [payloadType |-> 1, contractName |-> <<97>>, codeBody |-> <<40, 233, 41>>],
      [payloadType |-> 1, contractName |-> <<97>>, codeBody |-> <<Mark, 40>>],
      [Call(<<>>) EXCEPT !.functionName = <<Mark, 98>>],
      Call(<<Data("StringUTF8", <<Mark, 98>>)>>),
      [payloadType |-> 3], [payloadType |-> 4, coinbaseBuffer |-> <<8>>]>>

\* Every authorization with every payload, and all lists of post-conditions among them.
SomeTransactions ==
    LET a == Len(Auths)
    IN  [i \in 1..(a * Len(Payloads)) |->
            [version |-> IF i % 2 = 0 THEN 0 ELSE 128,
             chainId |-> IF i % 2 = 0 THEN 1 ELSE 32768,
             authType |-> Auths[1 + (i % a)][1], conditions |-> Auths[1 + (i % a)][2],
             anchorMode |-> 1 + (i % 3), postConditionMode |-> 1 + (i % 2),
             postConditions |->
                PostConditionLists[1 + ((i \div a + i) % Len(PostConditionLists))],
             payload |-> Payloads[1 + ((i \div a) % Len(Payloads))]]]

-----------------------------------------------------------------------------

Id(id) == [id |-> id]
SizedType(id, length) == [id |-> id, length |-> length]

\* Every type that stands alone, and some of each that has parts.
LeafTypes ==
    <<Id("uint128"), Id("int128"), Id("bool"), Id("principal"), Id("trait_reference"), Id("none"),
      SizedType("buffer", 2), SizedType("buffer", 4), SizedType("string-ascii", 2),
      SizedType("string-utf8", 2)>>

SomeTypes ==
    LeafTypes
    \o [i \in DOMAIN LeafTypes |-> [id |-> "optional", of |-> LeafTypes[i]]]
    \o <<[id |-> "response", ok |-> Id("bool"), error |-> [id |-> "response", ok |-> Id("int128"),
                                                         error |-> Id("none")]],
         [id |-> "list", length |-> 1, of |-> Id("int128")],
         [id |-> "list", length |-> 2, of |-> Id("int128")],
         [id |-> "tuple", members |-> <<97>> :> Id("int128")],
         [id |-> "tuple", members |-> <<97>> :> Id("int128") @@ <<97, 98>> :> Id("uint128")]>>

Typed(text, number, principal) == [text |-> text, number |-> number, principal |-> principal]

\* Nothing, which BigInt takes for 0; numbers; truth values; names of principals; wide characters.
SomeInputs ==
    <<Typed(<<>>, 0, None), Typed(<<49>>, 1, None), Typed(<<48>>, 0, None),
      Typed(<<45, 49>>, -1, None), Typed(<<51, 50, 55, 54, 56>>, 32768, None),
      Typed(<<84, 114, 117, 101>>, None, None), Typed(FalseText, None, None),
      Typed(<<83, 80>>, None, Person), Typed(<<83, 46, 97, 98>>, None, Vault),
      Typed(<<83, 46, 97>>, None, [Vault EXCEPT !.contractName = <<97, 98, 99, 100>>]),
      Typed(<<233>>, None, None), Typed(<<104, 8364>>, None, None), Typed(<<233, 233, 233>>, None, None),
      Typed(<<Mark, 104, 105>>, None, None)>>

\* Each input for each type, and some pairs.
SomeCalls ==
    LET n == Len(SomeInputs)
        k == Len(LeafTypes)
    IN  Concat([p \in 1..2 |-> [i \in 1..(n * k) |->
            [inputs |-> <<SomeInputs[1 + (i % n)]>>, types |-> <<LeafTypes[1 + ((i \div n) % k)]>>,
             parses |-> p = 1]]])
        \o [i \in 1..(2 * n) |->
            [inputs |-> <<SomeInputs[2], SomeInputs[1 + (i % n)]>>,
             types |-> <<Id("uint128"), SizedType("buffer", 1 + (i \div n))>>, parses |-> i % 2 = 0]]
        \o <<[inputs |-> <<>>, types |-> <<>>, parses |-> TRUE]>>

SomeCallPayload == Call(<<>>)

-----------------------------------------------------------------------------

\* All words of n of these letters.
Words(n, letters) ==
    LET size == Len(letters)
    IN  [i \in 1..(size^n) |-> [j \in 1..n |-> letters[1 + (((i - 1) \div size^(j - 1)) % size)]]]

\* All bytes of few values, the byte order mark, and what fills chunks of base64.
ByteStrings ==
    Concat([n \in 1..4 |-> Words(n - 1, <<0, 1, 200, 255>>)])
    \o <<ByteOrderMark, ByteOrderMark \o <<0>>, ByteOrderMark \o <<0, 0, 5>>, ByteOrderMark \o <<7, 0>>>>
    \o [n \in 1..7 |-> [i \in 1..(n + 3) |-> (57 * i) % 256]]

SomeTexts ==
    Concat([k \in 1..3 |-> [i \in DOMAIN ByteStrings |->
        [code |-> <<"base58", "base64", "c32">>[k], bytes |-> ByteStrings[i]]]])

SomeAddresses ==
    LET hashes == Words(3, <<0, 1, 255>>) \o <<ByteOrderMark \o <<7>>, ByteOrderMark \o <<0>>>>
    IN  Concat([k \in 1..4 |-> [i \in DOMAIN hashes |->
            [version |-> <<0, 5, 111, 196>>[k], hash160 |-> hashes[i]]]])

\* Signatures whose integers are short, full, or full with a zero before their first bit.
SomeTokens ==
    LET pairs == Words(2, <<<<5>>, <<127>>, <<0, 200>>, <<1, 0>>, <<0, 128, 3>>, <<0, 255, 255>>>>)
        payloads == <<<<>>, <<123, 125>>, <<123, 233, 8364>>>>
    IN  [i \in DOMAIN pairs |-> [payload |-> payloads[1 + (i % 3)],
                                 der |-> Der(pairs[i][1], pairs[i][2])]]

CurrentPrefix == <<23, 83, 10>>
OldPrefix == <<24, 83, 10>>

\* Messages around the lengths where varuint takes more bytes.
SomeMessages ==
    LET lengths == <<0, 1, 10, 252, 253, 254, 256>>
        message(n) == [i \in 1..n |-> i % 256]
    IN  Concat([k \in 1..2 |-> [i \in DOMAIN lengths |->
            [bytes |-> message(lengths[i]), prefix |-> <<ChainPrefix, LegacyPrefix>>[k]]]])

\* A sign-in message, and one for each thing that may be missing or odd in it, alone and
\* together with a statement and resources.
PlainSignIn ==
    [domain |-> "app.example", address |-> "41 characters", statement |-> Missing,
     uri |-> "https://app.example", version |-> "1", chainId |-> "1", nonce |-> "abcdefgh",
     issuedAt |-> Missing, expirationTime |-> Missing, notBefore |-> Missing,
     requestId |-> Missing, resources |-> Missing]

SignInVariants(m) ==
    <<m, [m EXCEPT !.domain = Missing], [m EXCEPT !.domain = "app.example?a=b"],
      [m EXCEPT !.address = "40 characters"], [m EXCEPT !.address = "no address"],
      [m EXCEPT !.statement = "Sign in"], [m EXCEPT !.statement = "two\nlines"],
      [m EXCEPT !.uri = "app.example"], [m EXCEPT !.version = "2"],
      [m EXCEPT !.chainId = Missing], [m EXCEPT !.nonce = "short"],
      [m EXCEPT !.issuedAt = "noon"], [m EXCEPT !.issuedAt = "today at noon"],
      [m EXCEPT !.expirationTime = "noon"], [m EXCEPT !.expirationTime = "today at noon"],
      [m EXCEPT !.notBefore = "never"], [m EXCEPT !.notBefore = "noon"],
      [m EXCEPT !.requestId = "id"], [m EXCEPT !.requestId = "an id"],
      [m EXCEPT !.resources = <<>>], [m EXCEPT !.resources = <<"https://app.example", "ipfs:x">>],
      [m EXCEPT !.resources = <<"ipfs:x", "no uri">>]>>

SomeSignIns ==
    SignInVariants(PlainSignIn)
    \o SignInVariants([PlainSignIn EXCEPT
         !.statement = "Sign in", !.expirationTime = "noon", !.requestId = "id",
         !.resources = <<"ipfs:x">>])
    \o Concat([i \in 1..4 |-> [j \in 1..2 |->
         GetSignInMessage(
            [appName |-> <<"app.example", "app.example?a=b">>[j], stxAddress |-> "41 characters",
             origin |-> <<"https://app.example", "">>[1 + (i % 2)]],
            [domain |-> <<Missing, "ipfs:x">>[1 + (i \div 3)], nonce |-> "abcdefgh",
             version |-> Missing, statement |-> <<Missing, "Sign in">>[j]])]])

-----------------------------------------------------------------------------

\* Contents around the size of one and of two blocks, a string with a byte order mark and one
\* of wide characters, octets, and what is no content.
Contents ==
    [i \in 1..6 |-> [type |-> "bytes", content |-> Zeros(<<0, 1, 15, 16, 17, 32>>[i]), contentType |-> ""]]
    \o <<[type |-> "string", content |-> <<104, 105>>, contentType |-> ""],
         [type |-> "string", content |-> <<>>, contentType |-> "text/plain; charset=utf-8"],
         [type |-> "string", content |-> <<Mark, 104>>, contentType |-> "text/plain"],
         [type |-> "string", content |-> <<8364, 233, 8364, 233, 8364, 8364>>, contentType |-> "text/plain"],
         [type |-> "string", content |-> <<104>>, contentType |-> "text/x-log; charset=utf-8"],
         [type |-> "octets", content |-> <<7, 300, -1>>, contentType |-> ""],
         [type |-> "octets", content |-> <<256>>, contentType |-> ""],
         [type |-> "other", content |-> <<>>, contentType |-> ""]>>

\* For Ann or for Bob, signed on request or not, with Ann's private key, Bob's or none, read
\* by one of them.
FileOptions ==
    <<[encrypt |-> "true", sign |-> "true", privateKey |-> "Ann", owner |-> "Ann", reader |-> "Ann"],
      [encrypt |-> "true", sign |-> "false", privateKey |-> "Ann", owner |-> "Ann", reader |-> "Ann"],
      [encrypt |-> "Bob", sign |-> "true", privateKey |-> "Ann", owner |-> "Ann", reader |-> "Bob"],
      [encrypt |-> "Bob", sign |-> "false", privateKey |-> "Ann", owner |-> "Ann", reader |-> "Ann"],
      [encrypt |-> "true", sign |-> "Bob", privateKey |-> "Ann", owner |-> "Ann", reader |-> "Ann"],
      [encrypt |-> "true", sign |-> "Bob", privateKey |-> "None", owner |-> "Bob", reader |-> "Bob"],
      [encrypt |-> "Bob", sign |-> "false", privateKey |-> "None", owner |-> "Ann", reader |-> "Bob"],
      [encrypt |-> "true", sign |-> "true", privateKey |-> "None", owner |-> "Ann", reader |-> "Ann"],
      [encrypt |-> "true", sign |-> "true", privateKey |-> "Bob", owner |-> "Ann", reader |-> "Bob"]>>

SomeFiles ==
    Concat([i \in DOMAIN Contents |-> Concat([j \in DOMAIN FileOptions |->
        [k \in 1..3 |-> Contents[i] @@ FileOptions[j]
            @@ [encoding |-> <<"omitted", "hex", "base64">>[k], derBytes |-> 72 - ((i + j + k) % 3)]]])])

-----------------------------------------------------------------------------

Semicolons == "v=DKIM1;" :> "v=DKIM1" @@ "https://a.example/;x" :> "https://a.example/"

Uppers == "a" :> "A" @@ "mx" :> "MX" @@ "txt" :> "TXT" @@ "soa" :> "SOA" @@ "uri" :> "URI"

Entry(name, ttl, data) == [name |-> name, ttl |-> ttl, data |-> data]

\* Each type with plain data; texts of several words, types' names among them; policies.
SomeRecords ==
    <<<<"NS", <<"ns1.example">>>>, <<"A", <<"10.0.0.1">>>>, <<"AAAA", <<"::1">>>>,
      <<"CNAME", <<"b.example">>>>, <<"MX", <<"10", "mail.example">>>>, <<"PTR", <<"host.example">>>>,
      <<"SRV", <<"10", "1", "80", "b.example">>>>, <<"URI", <<"10", "1", "https://a.example">>>>,
      <<"URI", <<"10", "1", "https://a.example/;x">>>>,
      <<"TXT", <<<<"text">>>>>>, <<"TXT", <<<<"is", "a", "word">>, <<"two">>>>>>,
      <<"TXT", <<<<"send", "mx", "TXT", "now">>>>>>, <<"TXT", <<<<"v=DKIM1;", "k=rsa">>, <<"p">>>>>>,
      <<"SPF", <<"v=spf1", "-all">>>>, <<"SPF", <<"v=spf1", "a", "mx", "-all">>>>,
      <<"SPF", <<"v=spf1">>>>, <<"SPF", <<"v=spf1", "mx">>>>, <<"SPF", <<"a", "b", "txt", "-all">>>>,
      <<"SPF", <<"v=spf1", "soa", "-all">>>>, <<"SPF", <<"v=spf1", "uri", "SPF", "-all">>>>>>

EmptyZone ==
    [template |-> "default", origin |-> "a.example", ttl |-> "3600",
     soa |-> [name |-> "@", ttl |-> Absent,
              data |-> <<"ns.example", "me.example", "1", "3600", "10", "20", "0">>],
     records |-> [type \in RecordTypes |-> <<>>]]

WithRecord(zone, i, name, ttl) ==
    [zone EXCEPT !.records[SomeRecords[i][1]] = Append(@, Entry(name, ttl, SomeRecords[i][2]))]

\* A zone of each record with each name and ttl, then of two records; zones that miss something.
SomeZones ==
    LET n == Len(SomeRecords)
        names == <<"www", "", "TXT", "_sip._tcp">>
        ttls == <<Absent, "0", "60">>
    IN  [i \in 1..(12 * n) |->
            WithRecord(EmptyZone, 1 + (i % n), names[1 + ((i \div n) % 4)], ttls[1 + ((i \div (4 * n)) % 3)])]
        \o [i \in 1..(4 * n) |->
            WithRecord(WithRecord(EmptyZone, 1 + (i % n), "www", "60"),
                       1 + ((i \div n + 5 * i) % n), "", ttls[1 + (i % 3)])]
        \o <<EmptyZone, [EmptyZone EXCEPT !.soa = Absent], [EmptyZone EXCEPT !.origin = Absent, !.ttl = Absent],
             [EmptyZone EXCEPT !.soa.ttl = "60"], [EmptyZone EXCEPT !.soa.ttl = "0"],
             [EmptyZone EXCEPT !.soa.name = ""], [EmptyZone EXCEPT !.soa.name = Absent, !.soa.ttl = "60"],
             ProfileZone("me.id", "https://a.example"),
             ProfileZone("me.id", "https://a.example/;x")>>

-----------------------------------------------------------------------------

Url(scheme, hostname, port) ==
    [scheme |-> scheme, hostname |-> hostname, port |-> port, absolute |-> scheme # "ftp:"]

Page == Url("https:", "a.example", 0)

\* A request as other applications make it, and each thing that may be odd in it.
FullRequest ==
    [signer |-> "App",
     payload |-> [public_keys |-> <<"App">>, domain_name |-> Page, redirect_uri |-> Page,
                  manifest_uri |-> Page, iss |-> MakeDIDFromAddress(StxAddress("App")),
                  iat |-> 2, exp |-> 4]]

SomeRequestTokens ==
    LET urls == <<Url("https:", "a.example", 443), Url("https:", "a.example", 80),
                  Url("http:", "a.example", 0), Url("http:", "a.example", 443),
                  Url("https:", "b.example", 0), Null, [Page EXCEPT !.absolute = FALSE]>>
        withUrl(name) == [i \in DOMAIN urls |-> [FullRequest EXCEPT !.payload[name] = urls[i]]]
    IN  <<FullRequest, GenerateSignedAuthRequest("App"), [FullRequest EXCEPT !.signer = NoKey],
          [FullRequest EXCEPT !.signer = "Transit"], [FullRequest EXCEPT !.payload.public_keys = <<>>],
          [FullRequest EXCEPT !.payload.public_keys = <<"App", "Transit">>],
          [FullRequest EXCEPT !.payload.iss = NoDID],
          [FullRequest EXCEPT !.payload.iss = MakeDIDFromAddress(BtcAddress(StxAddress("App")))],
          [FullRequest EXCEPT !.payload.iat = Null], [FullRequest EXCEPT !.payload.exp = Null],
          [FullRequest EXCEPT !.payload.exp = 0], [FullRequest EXCEPT !.payload.iss.type = "ecdsa-pub"]>>
        \o withUrl("domain_name") \o withUrl("manifest_uri") \o withUrl("redirect_uri")

SomeAuthRequests ==
    LET times == <<19, 20, 30, 40, 41>>
    IN  Concat([i \in DOMAIN SomeRequestTokens |-> [j \in 1..10 |->
            [token |-> SomeRequestTokens[i], readAt |-> times[1 + (j % 5)], manifestAnswers |-> j <= 5]]])

\* With seconds of ten milliseconds: keys of this sign-in and of an earlier one, core tokens
\* that are hex or not, times of expiry within the first second, and clocks that are behind.
SomeAuthResponses ==
    LET keys == <<Null, [length |-> 4, bytes |-> <<7, 9>>]>>
        cores == <<Null, [length |-> 4, bytes |-> <<1, 2>>], [length |-> 5, bytes |-> <<>>]>>
        transits == <<Null, "Transit", "Earlier">>
        lookups == <<<<[url |-> Null, owner |-> Null]>>,
                     <<[url |-> "names", owner |-> Null], [url |-> "others", owner |-> StxAddress("Wallet")]>>,
                     <<[url |-> "names", owner |-> BtcAddress(StxAddress("Wallet"))]>>>>
        names == <<Null, "a.id">>
        expiries == <<Null, 0, 5, 34, 40>>
        clocks == <<19, 20, 23, 30, 31, 40, 41, 71, 72, 80, 81>>
    IN  Concat([i \in 1..36 |-> Concat([j \in 1..5 |-> [k \in 1..11 |->
            [privateKey |-> "Wallet", appPrivateKey |-> keys[1 + (i % 2)],
             coreToken |-> cores[1 + ((i \div 2) % 3)], transitPublicKey |-> transits[1 + ((i \div 6) % 3)],
             username |-> names[1 + ((i \div 18) % 2)], profile |-> IF (i + j + k) % 4 = 0 THEN Null ELSE "profile",
             hubUrl |-> "hub", expiresAt |-> expiries[j], madeAt |-> 23, readAt |-> clocks[k],
             reader |-> "Transit", lookups |-> lookups[1 + ((i + j + k) % 3)]]]])])

-----------------------------------------------------------------------------

\* Domains with a name that reads as another's in ascii, and with and without a chain.
SomeDomains ==
    LET names == <<<<97>>, <<353>>, <<98, 97>>>>
        chains == <<Unset, 1, 128>>
    IN  [i \in 1..9 |-> [name |-> names[1 + (i % 3)], version |-> <<49>>, chainId |-> chains[1 + ((i \div 3) % 3)]]]
        \o <<WithDefaults([name |-> Unset, version |-> Unset, chainId |-> Unset], <<97>>, 128),
             WithDefaults([name |-> <<98>>, version |-> <<50>>, chainId |-> 1], <<97>>, 128)>>

\* Values of every type, two of them equal but for the order of a list, each in every domain.
SomeStructured ==
    LET networks == <<Unset, 1, 128>>
        values == SubSeq(SomeValues, 1, Len(Leaves)) \o
                  <<ListOf(<<Leaves[1], Leaves[2]>>), ListOf(<<Leaves[2], Leaves[1]>>),
                    Tuple3(Leaves[1], Leaves[2], Leaves[3]), Tuple3(Leaves[2], Leaves[1], Leaves[3])>>
        n == Len(values)
        d == Len(SomeDomains)
    IN  [i \in 1..(3 * n) |->
            [message |-> values[1 + (i % n)], isHex |-> i % 2 = 0, domain |-> SomeDomains[1 + (i % d)],
             network |-> networks[1 + ((i \div n) % 3)]]]
        \o [i \in 1..(3 * d) |->
            [message |-> values[1], isHex |-> FALSE, domain |-> SomeDomains[1 + (i % d)],
             network |-> networks[1 + ((i \div d) % 3)]]]
=============================================================================
