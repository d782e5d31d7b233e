------------------------------ MODULE ZoneFiles ------------------------------
(***************************************************************************)
(* Zone files: packages/core/src/zone-file.                                  *)
(*                                                                          *)
(* A zone is [template, origin, ttl, soa, records], with Absent for what it  *)
(* does not have; a record is [name, ttl, data].  A line is a sequence of    *)
(* items, which are words, or several words in quotes.  No word has quotes,  *)
(* parentheses or a dollar sign in it.  One text and a list of it are the    *)
(* same; the fullname of a PTR record, which is its name and the origin, is  *)
(* left out.                                                                *)
(***************************************************************************)
EXTENDS Bytes

CONSTANTS
    Absent,       \* undefined
    Numbers,    \* the words that are numbers
    BeforeSemicolon,    \* what is left of each word that has a semicolon
    UpperCase           \* of the words that toUpperCase makes other words of

RecordTypes == {"NS", "MX", "A", "AAAA", "CNAME", "PTR", "TXT", "SRV", "SPF", "URI"}

\* In the order of the template.
Written == <<"NS", "MX", "A", "AAAA", "CNAME", "PTR", "TXT", "SRV", "SPF", "URI">>

\* A parser that looks for texts last.
TestedTextLast == <<"SOA", "NS", "A", "AAAA", "CNAME", "MX", "PTR", "SRV", "SPF", "URI", "TXT">>

\* In the order of parseRRs.
Tested == <<"TXT", "SOA", "NS", "A", "AAAA", "CNAME", "MX", "PTR", "SRV", "SPF", "URI">>

\* The words at the end of a line that are the data of its record.
DataWords == [NS |-> 1, A |-> 1, AAAA |-> 1, CNAME |-> 1, PTR |-> 1, MX |-> 2, URI |-> 3, SRV |-> 4]

Item(word) == [quoted |-> FALSE, words |-> <<word>>]

InQuotes(words) == [quoted |-> TRUE, words |-> words]

Plain(words) == [i \in DOMAIN words |-> Item(words[i])]

WordsOf(line) == Concat([i \in DOMAIN line |-> line[i].words])

-----------------------------------------------------------------------------
(* makeZoneFile                                                             *)

IfGiven(word) == IF word = Absent THEN <<>> ELSE <<word>>

\* The data of a TXT record are texts, each a sequence of words.
DataItems(type, data) ==
    CASE type = "TXT" -> [i \in DOMAIN data |-> InQuotes(data[i])]
      [] type = "URI" -> Plain(Seqs!Front(data)) \o <<InQuotes(<<data[Len(data)]>>)>>
      [] OTHER -> Plain(data)

\* An empty name is written as an @, and a ttl of the number 0 not at all.
NameAndTtl(record) ==
    <<IF record.name \in {"", Absent} THEN "@" ELSE record.name>>
    \o IF record.ttl = "0" THEN <<>> ELSE IfGiven(record.ttl)

\* processNS and the like.
RecordLine(type, record) ==
    Plain(NameAndTtl(record) \o <<"IN", type>>) \o DataItems(type, record.data)

\* processSOA: without a record the template keeps its braces.
SoaLine(soa) ==
    Plain(IF soa = Absent
          THEN <<"{name}", "{ttl}", "IN", "SOA", "{mname}{rname}", "{serial}", "{refresh}", "{retry}",
                 "{expire}", "{minimum}">>
          ELSE NameAndTtl(soa) \o <<"IN", "SOA">> \o soa.data)

\* makeZoneFile, of the default template or that of makeProfileZoneFile.
MakeZoneFile(zone) ==
    LET directive(name, word) == IF word = Absent THEN <<>> ELSE <<Plain(<<name, word>>)>>
        lines(type) == [i \in DOMAIN zone.records[type] |-> RecordLine(type, zone.records[type][i])]
    IN  directive("$ORIGIN", zone.origin) \o directive("$TTL", zone.ttl)
        \o IF zone.template = "profile" THEN lines("URI")
           ELSE <<SoaLine(zone.soa)>> \o Concat([i \in DOMAIN Written |-> lines(Written[i])])

\* makeProfileZoneFile, of a url with one ://.
ProfileZone(origin, url) ==
    [template |-> "profile", origin |-> origin, ttl |-> "3600", soa |-> Absent,
     records |-> [type \in RecordTypes |->
        IF type = "URI" THEN <<[name |-> "_http._tcp", ttl |-> Absent, data |-> <<"10", "1", url>>]>>
        ELSE <<>>]]

-----------------------------------------------------------------------------
(* parseZoneFile                                                            *)

\* removeComments: what follows a semicolon is gone, in quotes too, and with it the end of
\* the quotes.
WithoutComment(line) ==
    LET cut == {i \in DOMAIN line :
                  \E j \in DOMAIN line[i].words : line[i].words[j] \in DOMAIN BeforeSemicolon}
        first == CHOOSE i \in cut : \A k \in cut : i <= k
        words == line[first].words
        at == CHOOSE j \in DOMAIN words :
                /\ words[j] \in DOMAIN BeforeSemicolon
                /\ \A k \in 1..(j - 1) : words[k] \notin DOMAIN BeforeSemicolon
    IN  IF cut = {} THEN line
        ELSE SubSeq(line, 1, first - 1)
             \o Plain(SubSeq(words, 1, at - 1) \o <<BeforeSemicolon[words[at]]>>)

Upper(word) == IF word \in DOMAIN UpperCase THEN UpperCase[word] ELSE word

\* The first of the types whose name is a word with space on both sides.
TypeOf(line) ==
    LET words == WordsOf(line)
        inside == {Upper(words[i]) : i \in 2..(Len(words) - 1)}
        found == SelectSeq(Tested, LAMBDA type : type \in inside)
    IN  IF found = <<>> THEN Absent ELSE Head(found)

ParseInt(word) == IF word \in Numbers THEN word ELSE "NaN"

\* The i-th word from the end.
FromEnd(words, i) == IF i < Len(words) THEN words[Len(words) - i + 1] ELSE "undefined"

\* The data of most records are the words at the end, and all but the last are numbers; the URI's
\* quotes are taken off.
EndOf(words, n) == [i \in 1..n |-> IF i = n THEN FromEnd(words, 1)
                                   ELSE ParseInt(FromEnd(words, n - i + 1))]

\* parseTXT: what follows the first TXT, or all where it is written otherwise.
TextsOf(line) ==
    LET named == {i \in DOMAIN line : line[i].words = <<"TXT">>}
        at == CHOOSE i \in named : \A k \in named : i <= k
        texts == IF named = {} THEN line ELSE SubSeq(line, at + 1, Len(line))
    IN  [i \in DOMAIN texts |-> texts[i].words]

\* parseSPF: from the fifth word on.  A single one gets a space after it.
SpfData(words) ==
    LET data == SubSeq(words, 5, Len(words)) IN IF Len(data) = 1 THEN Append(data, "") ELSE data

TtlOf(words) == IF words[2] \in Numbers THEN words[2] ELSE Absent

ParseRecord(type, line) ==
    LET words == WordsOf(line)
    IN  [name |-> words[1], ttl |-> TtlOf(words),
         data |-> CASE type = "TXT" -> TextsOf(line)
                    [] type = "SPF" -> SpfData(words)
                    [] OTHER -> EndOf(words, DataWords[type])]

\* parseSOA: mname and rname, then five numbers.
ParseSoa(line) ==
    LET words == WordsOf(line)
    IN  [name |-> words[1], ttl |-> TtlOf(words),
         data |-> <<FromEnd(words, 7), FromEnd(words, 6)>> \o [i \in 1..5 |-> ParseInt(FromEnd(words, 6 - i))]]

\* parseRRs, of lines without parentheses.
ParseZoneFile(text, template) ==
    LET lines == [i \in DOMAIN text |-> WithoutComment(text[i])]
        named(name) == SelectSeq(lines, LAMBDA line : line[1].words = <<name>>)
        ofType(type) == SelectSeq(lines, LAMBDA line : TypeOf(line) = type)
        wordOf(name) == IF named(name) = <<>> THEN Absent ELSE named(name)[1][2].words[1]
        soas == ofType("SOA")
    IN  [template |-> template, origin |-> wordOf("$ORIGIN"), ttl |-> wordOf("$TTL"),
         soa |-> IF soas = <<>> THEN Absent ELSE ParseSoa(soas[Len(soas)]),
         records |-> [type \in RecordTypes |->
            LET found == ofType(type) IN [i \in DOMAIN found |-> ParseRecord(type, found[i])]]]
=============================================================================
