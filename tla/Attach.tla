-------------------------------- MODULE Attach --------------------------------
(***************************************************************************)
(* ATTACH: how the parameters of a Firebird catalog come from the attach   *)
(* string, the options of the statement and the environment.  ParseDSN,    *)
(* NormalizeUser and GetEnv of firebird_settings.cpp, ResolveParameters    *)
(* and FirebirdAttach of firebird_storage.cpp.                             *)
(*                                                                         *)
(* A text is a sequence of tokens: the characters that mean something to   *)
(* the parser, and words that hold none of these, the two schemes and the  *)
(* names of the fields among them.  Blanks at the ends of a text, which    *)
(* are trimmed, are left out.  What a source                               *)
(* specifies is a function from the fields it has to their texts; the port *)
(* is a number as soon as it was read, and "threw" stands for one that is  *)
(* none.  (`Only` and `Over` are the :> and @@ of TLC, which proofs cannot *)
(* use.)                                                                   *)
(***************************************************************************)
EXTENDS Integers, Sequences, SequencesExt

CONSTANTS
    Words,          \* what texts consist of, but for the marks
    Upper, Lower,   \* the words that change in the other case
    Number,         \* the words that begin with a number, and which
    Letters,        \* the words of one character
    MaxPort,        \* the largest uint16_t
    Documented,     \* bound: the fields attach strings are written from
    OptionSets,     \* bound: the options ATTACH is given
    Environments    \* bound: what the FIREBIRD_* variables hold

Fields  == {"host", "port", "user", "password", "database", "charset"}
Schemes == {"firebird://", "fb://"}
Quote   == "\""
Marks   == {"@", ":", "/", "?", "[", "]", "&", "=", Quote}
Tokens  == Words \cup Marks
Texts   == Seq(Tokens)

(* The marks a field may hold in the documented form of an attach string.  *)
MayHold(f) ==
    CASE f = "user"     -> Marks \ {"@", ":", "?", "&"}
      [] f = "password" -> Marks \ {"@", "?", "&"}
      [] f = "host"     -> {":"}
      [] f = "port"     -> {}
      [] f = "database" -> Marks \ {"?"}
      [] f = "charset"  -> Marks \ {"&"}

ASSUME AttachAssumption ==
    /\ Words \cap Marks = {}
    /\ Fields \cup Schemes \cup {"FB://", "localhost", "SYSDBA", "UTF8"} \subseteq Words
    /\ DOMAIN Number \cup DOMAIN Upper \cup DOMAIN Lower \cup Letters \subseteq Words
    /\ Number \in [DOMAIN Number -> Nat]
    /\ MaxPort \in Nat /\ 3050 <= MaxPort
    /\ \A w \in DOMAIN Lower \cap (Fields \cup Schemes) : Lower[w] = w
    /\ "FB://" \in DOMAIN Lower /\ Lower["FB://"] = "fb://"
    /\ Upper \in [DOMAIN Upper -> Words]
    /\ "SYSDBA" \in DOMAIN Upper => Upper["SYSDBA"] = "SYSDBA"
    /\ \A d \in Documented :
          /\ d \in [DOMAIN d -> Texts] /\ DOMAIN d \subseteq Fields
          /\ \A f \in DOMAIN d : /\ f # "password" => d[f] # <<>>
                                 /\ ToSet(d[f]) \cap Marks \subseteq MayHold(f)
    /\ \A o \in OptionSets : o \in [DOMAIN o -> Texts]
    /\ Environments \subseteq [Fields -> Texts]

VARIABLES
    meant,      \* the fields the attach string was written from
    path,       \* info.path: the attach string
    options,    \* the options, by their names in lower case
    env,        \* the environment
    params,     \* the parameters of the catalog
    outcome     \* "attaching", "attached" or "threw"

vars == <<meant, path, options, env, params, outcome>>

-----------------------------------------------------------------------------
Only(field, value) == [f \in {field} |-> value]

(* What both say, the first counting where they differ.                    *)
Over(first, second) ==
    [f \in DOMAIN first \cup DOMAIN second |->
        IF f \in DOMAIN first THEN first[f] ELSE second[f]]

InCase(case, text) ==
    [i \in DOMAIN text |-> IF text[i] \in DOMAIN case THEN case[text[i]] ELSE text[i]]

(* The index of the first of some mark, 0 if there is none; what is before *)
(* and after it.                                                           *)
Find(text, mark) == LET Is(t) == t = mark IN SelectInSeq(text, Is)
Before(text, i)  == SubSeq(text, 1, i - 1)
After(text, i)   == SubSeq(text, i + 1, Len(text))

(* A field, if its text is not empty.                                      *)
Some(field, text) == IF text = <<>> THEN <<>> ELSE Only(field, text)

(* (uint16_t)std::stoi, which throws if the text begins with no number.    *)
Port(text) ==
    IF text # <<>> /\ text[1] \in DOMAIN Number
    THEN Only("port", Number[text[1]] % (MaxPort + 1))
    ELSE Only("threw", TRUE)

-----------------------------------------------------------------------------
(* ParseDSN.  The part before the first '@'; a wrong variant splits it at  *)
(* its last colon.                                                         *)
SplitsAtLastColon(text) ==
    LET Is(t) == t = ":"
        colon == SelectLastInSeq(text, Is)
    IN  IF colon = 0 THEN Some("user", text)
        ELSE Over(Some("user", Before(text, colon)), Only("password", After(text, colon)))

Credentials(text) ==
    LET colon == Find(text, ":")
    IN  IF colon = 0 THEN Some("user", text)
        ELSE Over(Some("user", Before(text, colon)), Only("password", After(text, colon)))

(* [host][:port][/database], with the first brackets as they stand.        *)
Bracketed(text) ==
    LET close == Find(text, "]")
        rest  == After(text, close)
        slash == Find(rest, "/")
        after == IF slash = 0 THEN rest ELSE Before(rest, slash)
    IN  IF close = 0 THEN <<>>
        ELSE Over(Only("host", SubSeq(text, 2, close - 1)),
             Over(IF after # <<>> /\ after[1] = ":" THEN Port(Tail(after)) ELSE <<>>,
                  IF slash = 0 THEN <<>> ELSE Some("database", After(rest, slash))))

(* host[:port]; a colon behind one character is that of a Windows drive,   *)
(* which a wrong variant does not know.                                    *)
KnowsNoDrive(text, otherwise) ==
    LET colon == Find(text, ":")
    IN  IF colon # 0
        THEN Over(Some("host", Before(text, colon)), Port(After(text, colon)))
        ELSE Some(otherwise, text)

HostPort(text, otherwise) ==
    LET colon == Find(text, ":")
        drive == colon = 2 /\ text[1] \in Letters \cup Marks
    IN  IF colon # 0 /\ ~drive
        THEN Over(Some("host", Before(text, colon)), Port(After(text, colon)))
        ELSE Some(otherwise, text)

Location(text) ==
    LET slash == Find(text, "/")
    IN  IF text # <<>> /\ text[1] = "[" THEN Bracketed(text)
        ELSE IF slash = 0 THEN HostPort(text, "database")
        ELSE Over(HostPort(Before(text, slash), "host"),
                  Some("database", After(text, slash)))

(* key=value, and several of them, each up to the next '&', of which later *)
(* ones count.                                                             *)
Setting(text) ==
    LET eq    == Find(text, "=")
        key   == InCase(Lower, Before(text, eq))
        value == After(text, eq)
    IN  IF eq = 0 THEN <<>>
        ELSE IF key = <<"port">> THEN Port(value)
        ELSE IF key \in {<<"charset">>, <<"user">>, <<"password">>}
        THEN Only(key[1], value)
        ELSE <<>>

Starts(text) == {0} \cup {i \in DOMAIN text : text[i] = "&"}

Piece(text, start) ==
    LET rest == After(text, start)
        end  == Find(rest, "&")
    IN  IF end = 0 THEN rest ELSE Before(rest, end)

Query(text) ==
    LET Said(start) == Setting(Piece(text, start))
        Saying(f)   == {a \in Starts(text) : f \in DOMAIN Said(a)}
    IN  [f \in UNION {DOMAIN Said(a) : a \in Starts(text)} |-> Said(Max(Saying(f)))[f]]

ParseDSN(input) ==
    LET start == IF input # <<>> /\ InCase(Lower, input)[1] \in Schemes
                 THEN Tail(input) ELSE input
        mark  == Find(start, "?")
        main  == IF mark = 0 THEN start ELSE Before(start, mark)
        query == IF mark = 0 THEN <<>> ELSE After(start, mark)
        at    == Find(main, "@")
    IN  Over(Query(query),
        Over(IF at = 0 THEN <<>> ELSE Credentials(Before(main, at)),
             Location(After(main, at))))

-----------------------------------------------------------------------------
(* ResolveParameters: for each field its option, under the first of its    *)
(* names that is there, then the attach string, the environment unless it  *)
(* is empty, and the default.                                              *)
OptionNames ==
    [f \in Fields |-> CASE f = "user"     -> <<"user", "username">>
                        [] f = "password" -> <<"password", "pass">>
                        [] f = "database" -> <<"database", "db">>
                        [] OTHER          -> <<f>>]

GetOption(f, opts) ==
    LET Given(key) == key \in DOMAIN opts
        first == SelectInSeq(OptionNames[f], Given)
    IN  IF first = 0 THEN <<>> ELSE <<opts[OptionNames[f][first]]>>

Default ==
    [f \in Fields |-> CASE f = "host"    -> <<"localhost">>
                        [] f = "port"    -> 3050
                        [] f = "user"    -> <<"SYSDBA">>
                        [] f = "charset" -> <<"UTF8">>
                        [] OTHER         -> <<>>]

(* A name in quotes is taken without them, another in upper case.          *)
NormalizeUser(user) ==
    IF Len(user) >= 2 /\ user[1] = Quote /\ Last(user) = Quote
    THEN SubSeq(user, 2, Len(user) - 1)
    ELSE InCase(Upper, user)

(* What a field's text is read as; that of the port may throw.             *)
Read(f, text) == IF f = "port" THEN Port(text) ELSE Only(f, text)

(* Wrong variant: the environment hides the attach string.                 *)
EnvironmentFirst(f, dsn, opts, environment) ==
    LET option == GetOption(f, opts)
    IN  IF option # <<>> THEN Read(f, option[1])
        ELSE IF environment[f] # <<>> THEN Read(f, environment[f])
        ELSE IF f \in DOMAIN dsn THEN Only(f, dsn[f])
        ELSE Only(f, Default[f])

Chosen(f, dsn, opts, environment) ==
    LET option == GetOption(f, opts)
    IN  IF option # <<>> THEN Read(f, option[1])
        ELSE IF f \in DOMAIN dsn THEN Only(f, dsn[f])
        ELSE IF environment[f] # <<>> THEN Read(f, environment[f])
        ELSE Only(f, Default[f])

ResolveParameters(dsn, opts, environment) ==
    LET of(f)  == Chosen(f, dsn, opts, environment)
        threw  == "threw" \in DOMAIN dsn \cup UNION {DOMAIN of(f) : f \in Fields}
    IN  IF threw \/ of("database").database = <<>> THEN Only("threw", TRUE)
        ELSE [f \in Fields |-> IF f = "user" THEN NormalizeUser(of(f)[f]) ELSE of(f)[f]]

-----------------------------------------------------------------------------
(* The documented form of an attach string, and a database alone; the      *)
(* fields `behind` are among the settings after the question mark.         *)
Has(f, fields) == f \in DOMAIN fields
Settings == {{"charset"}, {"user", "password", "port", "charset"}}

(* Two strings the parser reads in another way: the first '@' ends the     *)
(* credentials even if it is in the path, and a host of one letter is      *)
(* taken for a drive if a colon follows.                                   *)
Plain(fields, behind) ==
    /\ Has("database", fields) /\ Contains(fields.database, "@") =>
         DOMAIN fields \cap ({"user", "password"} \ behind) # {}
    /\ Has("host", fields) /\ Has("port", fields) /\ "port" \notin behind =>
         ~(Len(fields.host) = 1 /\ fields.host[1] \in Letters)

Part(f, fields, behind, mark) ==
    IF Has(f, fields) /\ f \notin behind THEN mark \o fields[f] ELSE <<>>

WrittenCredentials(fields, behind) ==
    LET creds == Part("user", fields, behind, <<>>)
                   \o Part("password", fields, behind, <<":">>)
    IN  IF creds = <<>> THEN <<>> ELSE creds \o <<"@">>

WrittenLocation(fields, behind) ==
    LET host == Part("host", fields, behind, <<>>)
    IN  (IF Find(host, ":") = 0 THEN host ELSE <<"[">> \o (host \o <<"]">>))
        \o (Part("port", fields, behind, <<":">>)
        \o (<<"/">> \o Part("database", fields, behind, <<>>)))

WrittenSetting(f, fields, behind) ==
    IF Has(f, fields) /\ f \in behind THEN <<"&", f, "=">> \o fields[f] ELSE <<>>

WrittenSettings(fields, behind) ==
    ((WrittenSetting("user", fields, behind)
      \o WrittenSetting("password", fields, behind))
      \o WrittenSetting("port", fields, behind))
      \o WrittenSetting("charset", fields, behind)

Written(scheme, fields, behind) ==
    LET settings == WrittenSettings(fields, behind)
    IN  <<scheme>>
        \o ((WrittenCredentials(fields, behind) \o WrittenLocation(fields, behind))
        \o (IF settings = <<>> THEN <<>> ELSE <<"?">> \o Tail(settings)))

(* A database alone: a name, or a path on a Windows drive.                 *)
Bare(text) ==
    /\ ToSet(text) \cap {"/", "@", "?"} = {}
    /\ text[1] # "[" /\ InCase(Lower, text)[1] \notin Schemes
    /\ Contains(text, ":") => Find(text, ":") = 2 /\ text[1] \in Letters

Input ==
    \/ /\ meant \in Documented
       /\ \E s \in Settings, scheme \in {"firebird://", "FB://"} :
            Plain(meant, s) /\ path = Written(scheme, meant, s)
    \/ /\ \E d \in Documented : Has("database", d) /\ meant = Only("database", d.database)
       /\ Bare(meant.database) /\ path = meant.database
    \/ meant = <<>> /\ path = <<>>

Init ==
    /\ Input
    /\ options \in OptionSets
    /\ env \in Environments
    /\ params = <<>> /\ outcome = "attaching"

Resolved == ResolveParameters(ParseDSN(path), options, env)

FirebirdAttach ==
    /\ outcome = "attaching" /\ "threw" \notin DOMAIN Resolved
    /\ params' = Resolved
    /\ outcome' = "attached"
    /\ UNCHANGED <<meant, path, options, env>>

AttachThrows ==
    /\ outcome = "attaching" /\ "threw" \in DOMAIN Resolved
    /\ outcome' = "threw"
    /\ UNCHANGED <<meant, path, options, env, params>>

Next == FirebirdAttach \/ AttachThrows

Spec == Init /\ [][Next]_vars

-----------------------------------------------------------------------------
(* What a text says, read on its own, and the text that counts.            *)
Meaning(f, text) ==
    CASE f = "port" -> Number[text[1]]
      [] f = "user" -> NormalizeUser(text)
      [] OTHER      -> text

Given(f) == GetOption(f, options) # <<>> \/ Has(f, meant) \/ env[f] # <<>>

Source(f) ==
    IF GetOption(f, options) # <<>> THEN GetOption(f, options)[1]
    ELSE IF Has(f, meant) THEN meant[f] ELSE env[f]

(* Each parameter is what its option says or, if there is none, what the   *)
(* attach string was written from, else the environment: no mark in one    *)
(* field of the string is taken for the end of it or for another field,    *)
(* and no field is found in the string that was not written there.  (A     *)
(* port that does not fit uint16_t is another one.)                        *)
AsWritten ==
    outcome = "attached" =>
        \A f \in Fields :
            LET meaning == IF Given(f) THEN Meaning(f, Source(f)) ELSE Default[f]
            IN  params[f] = meaning \/ (f = "port" /\ meaning > MaxPort)

(* A field means the same wherever it is given: with its text moved from   *)
(* the option or the attach string to the environment, the parameters are  *)
(* what they were.  (The string without the field has to be plain.)        *)
AnySource ==
    LET Without(fn, S) == [x \in DOMAIN fn \ S |-> fn[x]]
        Moved(f) == ResolveParameters(
                      ParseDSN(Written("fb://", Without(meant, {f}), {"charset"})),
                      Without(options, Range(OptionNames[f])),
                      [env EXCEPT ![f] = Source(f)])
    IN  outcome = "attached" =>
          \A f \in Fields :
            Given(f) /\ Source(f) # <<>> /\ Plain(Without(meant, {f}), {"charset"}) =>
              Moved(f) = params

(* ATTACH is refused only if a port it has to read is none, that of the    *)
(* attach string or the one that counts, or if it has no database.         *)
RefusedForCause ==
    LET NoPort(text) == Port(text) = Only("threw", TRUE)
    IN  outcome = "threw" =>
        \/ Given("port") /\ NoPort(Source("port"))
        \/ Has("port", meant) /\ NoPort(meant.port)
        \/ ~Given("database") \/ Source("database") = <<>>

-----------------------------------------------------------------------------
(* The inductive invariant: the parameters are those the inputs, which do  *)
(* not change, resolve to.                                                 *)
TypeOK ==
    /\ DOMAIN meant \subseteq Fields
    /\ meant \in [DOMAIN meant -> Texts]
    /\ path \in Texts
    /\ options \in OptionSets /\ env \in Environments
    /\ outcome \in {"attaching", "attached", "threw"}
    /\ \/ params = <<>>
       \/ /\ DOMAIN params = Fields
          /\ params.port \in 0..MaxPort
          /\ \A f \in Fields \ {"port"} : params[f] \in Texts

OutcomeOK ==
    /\ outcome = "attached" => "threw" \notin DOMAIN Resolved /\ params = Resolved
    /\ outcome = "threw" => "threw" \in DOMAIN Resolved

IInv == TypeOK /\ Input /\ OutcomeOK
=============================================================================
