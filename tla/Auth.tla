--------------------------------- MODULE Auth ---------------------------------
(***************************************************************************)
(* mod_auth and http_auth.c: auth.require says what a path wants, a file   *)
(* has the passwords, and the Authorization header of a request is checked *)
(* against both.                                                           *)
(*                                                                         *)
(* Paths are sequences of characters; an md5, or a crypt(), is the record  *)
(* of what was hashed.  A rule of "require" is [k, v], alone when it is    *)
(* "valid-user".                                                           *)
(***************************************************************************)
EXTENDS Integers, Sequences, SequencesExt

CONSTANTS
    Configs,            \* [require, backend, force_lowercase]: require is a sequence of [key, method, realm, rules]
    Files,              \* of passwords: sequences of [user, realm, password] and [user |-> "broken"]
    Paths, Methods,
    Users, Secrets, Realms

VARIABLES
    config, file,
    auth_user,          \* mod_auth: the last user let in, of any connection
    request,
    answer              \* [status, authed_user, challenge]; status 0 goes on

vars == <<config, file, auth_user, request, answer>>

NoRequest == [path |-> <<>>]
NoAnswer == [status |-> -1]
NoUser == ""

\* mod_auth_set_defaults() refuses other methods and an incomplete entry
Accepted(c) == \A i \in 1..Len(c.require) : c.require[i].method \in {"basic", "digest"}

Init ==
    /\ config \in {c \in Configs : Accepted(c)}
    /\ file \in Files
    /\ auth_user = NoUser /\ request = NoRequest /\ answer = NoAnswer

-----------------------------------------------------------------------------
lower(c) == CASE c = "A" -> "a" [] c = "B" -> "b" [] OTHER -> c
Lowered(s) == [i \in 1..Len(s) |-> lower(s[i])]

FirstOf(S) == IF S = {} THEN 0 ELSE CHOOSE i \in S : \A j \in S : i <= j

\* mod_auth_uri_handler(): the first entry the path begins with, 0 if there is none
Required(path) ==
    FirstOf({i \in 1..Len(config.require) :
                LET key == config.require[i].key
                IN  /\ key # <<>>
                    /\ IF config.force_lowercase THEN IsPrefix(Lowered(key), Lowered(path)) ELSE IsPrefix(key, path)})

\* http_auth_match_rules() looks for it anew, always with the case
RuleOf(path) ==
    FirstOf({i \in 1..Len(config.require) : config.require[i].key # <<>> /\ IsPrefix(config.require[i].key, path)})

One(r, user) ==
    CASE r.k = "user" /\ r.v = user -> "yes"
      [] r.k \in {"user", "host", "group"} -> "next"     \* host and group are not implemented
      [] OTHER -> "no"
match_rules(path, user) ==
    /\ RuleOf(path) # 0
    /\ LET rules == config.require[RuleOf(path)].rules
       IN  \/ Len(rules) = 1 /\ rules[1].k = "valid-user"
           \/ "yes" = FoldLeft(LAMBDA s, r : IF s = "next" THEN One(r, user) ELSE s, "next", rules)
\* mutant: whoever has a password
AnyUser(path, user) == TRUE
Matches(path, user) == match_rules(path, user)

-----------------------------------------------------------------------------
(***************************************************************************)
(* http_auth_get_password(): the first line of the user, and of the realm  *)
(* in a file of htdigest; a line that is none ends the search.             *)
(***************************************************************************)
Readable(l) == l.user # "broken" /\ (config.backend = "htdigest" => l.realm # "")
get_password(user, realm) ==
    LET stops == {i \in 1..Len(file) :
                     \/ ~Readable(file[i])
                     \/ file[i].user = user /\ (config.backend = "htdigest" => file[i].realm = realm)}
        i == FirstOf(stops)
    IN  IF user = "" \/ i = 0 \/ ~Readable(file[i]) \/ config.backend \notin {"htdigest", "htpasswd", "plain"}
        THEN <<>> ELSE <<file[i]>>

\* what a file of htdigest has in place of the password
Md5A1(user, realm, secret) == [user |-> user, realm |-> realm, secret |-> secret]
Stored(l) == Md5A1(l.user, l.realm, l.password)

basic_password_compare(l, user, realm, secret) ==
    IF config.backend = "htdigest" THEN Stored(l) = Md5A1(user, realm, secret) ELSE l.password = secret

basic_check(r, i) ==
    IF ~r.auth.decodes \/ ~r.auth.colon THEN 0
    ELSE LET l == get_password(r.auth.user, config.require[i].realm)
         IN  IF /\ l # <<>>
                /\ basic_password_compare(l[1], r.auth.user, config.require[i].realm, r.auth.secret)
                /\ Matches(r.path, r.auth.user)
             THEN 1 ELSE 0

-----------------------------------------------------------------------------
(***************************************************************************)
(* http_auth_digest_check(): the fields of the client make the response    *)
(* again.  The realm and the uri are those that the client names, a nonce  *)
(* is not remembered.                                                      *)
(***************************************************************************)
Complete(a) ==
    /\ {"username", "realm", "nonce", "uri", "response"} \subseteq a.fields
    /\ "qop" \in a.fields => {"nc", "cnonce"} \subseteq a.fields
    /\ a.sess => "cnonce" \in a.fields
Response(a, ha1, method) ==
    [a1 |-> IF a.sess THEN <<ha1, "nonce", "cnonce">> ELSE <<ha1>>, method |-> method, uri |-> a.uri,
     extra |-> a.fields \cap {"qop"}]

digest_check(r) ==
    LET a == r.auth
        l == get_password(a.user, a.realm)
    IN  IF config.backend \notin {"htdigest", "plain"} \/ ~Complete(a) THEN -1
        ELSE IF l = <<>> THEN 0
        ELSE LET ha1 == IF config.backend = "plain" THEN Md5A1(a.user, a.realm, l[1].password) ELSE Stored(l[1])
             IN  IF Response(a, ha1, r.method) = a.response /\ Matches(r.path, a.user) THEN 1 ELSE 0

\* the authorization is made for another scheme: nothing is checked
Satisfied(r, i) ==
    CASE r.auth.scheme = "basic" /\ config.require[i].method = "basic" -> basic_check(r, i)
      [] r.auth.scheme = "digest" /\ config.require[i].method = "digest" -> digest_check(r)
      [] OTHER -> 0

mod_auth_uri_handler(r) ==
    LET i == Required(r.path)
        s == IF i = 0 THEN 1 ELSE Satisfied(r, i)
    IN  /\ answer' = CASE i = 0 -> [status |-> 0, authed_user |-> NoUser, challenge |-> "none"]
                       [] i # 0 /\ s = 1 -> [status |-> 0, authed_user |-> r.auth.user, challenge |-> "none"]
                       [] i # 0 /\ s = 0 -> [status |-> 401, authed_user |-> NoUser, challenge |-> config.require[i].method]
                       [] OTHER -> [status |-> 400, authed_user |-> NoUser, challenge |-> "none"]
        /\ auth_user' = IF i # 0 /\ s = 1 THEN r.auth.user ELSE auth_user

Check(r) ==
    /\ answer = NoAnswer /\ mod_auth_uri_handler(r) /\ request' = r
    /\ UNCHANGED <<config, file>>

\* the request is over; the file is read anew for each
Done == answer # NoAnswer /\ answer' = NoAnswer /\ request' = NoRequest /\ UNCHANGED <<config, file, auth_user>>

-----------------------------------------------------------------------------
(***************************************************************************)
(* What clients send: nothing, a user and a secret in the clear, or a      *)
(* response made from them, for the request or for another one.            *)
(***************************************************************************)
Nobody == [scheme |-> "none"]
Clear(u, s, decodes, colon) == [scheme |-> "basic", user |-> u, secret |-> s, decodes |-> decodes, colon |-> colon]
AllFields == {"username", "realm", "nonce", "uri", "response", "qop", "nc", "cnonce"}
Digest(u, s, realm, method, fields, sess) ==
    LET a == [uri |-> "/", fields |-> fields, sess |-> sess]
    IN  [scheme |-> "digest", user |-> u, secret |-> s, realm |-> realm, uri |-> "/", fields |-> fields, sess |-> sess,
         for |-> method, response |-> Response(a, Md5A1(u, realm, s), method)]
Left == {AllFields \ {"qop", "nc", "cnonce"}, AllFields \ {"nc"}, AllFields \ {"uri"}}
Authorizations ==
    {Nobody} \cup {Clear(u, s, TRUE, TRUE) : u \in Users, s \in Secrets}
    \cup {Clear(u, s, d, ~d) : u \in Users, s \in Secrets, d \in BOOLEAN}
    \cup {Digest(u, s, realm, m, AllFields, b) : u \in Users, s \in Secrets, realm \in Realms, m \in Methods, b \in BOOLEAN}
    \cup {Digest(u, s, realm, "GET", f, b) : u \in Users, s \in Secrets, realm \in Realms, f \in Left, b \in {FALSE}}
Requests == [path : Paths, method : Methods, auth : Authorizations]

Next == (\E r \in Requests : Check(r)) \/ Done
Spec == Init /\ [][Next]_vars

-----------------------------------------------------------------------------
TypeOK == answer.status \in {-1, 0, 400, 401} /\ auth_user \in Users \cup {NoUser}

Rules(i) == config.require[i].rules
Permits(i, user) ==
    \/ Rules(i) = <<[k |-> "valid-user", v |-> ""]>>
    \/ \E j \in 1..Len(Rules(i)) : Rules(i)[j] = [k |-> "user", v |-> user]

(***************************************************************************)
(* Who goes on to a path that wants a user is one whom the entry of that   *)
(* path permits, and has this user's password from the file.               *)
(***************************************************************************)
KnowsPassword ==
    \E i \in 1..Len(file) :
        /\ file[i].user = request.auth.user /\ file[i].password = request.auth.secret
        /\ config.backend = "htdigest" /\ request.auth.scheme = "digest" => file[i].realm = request.auth.realm
LetIn ==
    answer.status = 0 /\ Required(request.path) # 0 =>
        /\ KnowsPassword
        /\ Permits(Required(request.path), request.auth.user)
        /\ request.auth.scheme = config.require[Required(request.path)].method
        /\ request.auth.scheme = "digest" => request.auth.for = request.method

(***************************************************************************)
(* Who is permitted and has the password is let in, unless a broken line   *)
(* stands before that of the user, or the case of the path is another one: *)
(* then the rules are not found (force-lowercase-filenames).               *)
(***************************************************************************)
Welcome ==
    LET i == Required(request.path)
        a == request.auth
    IN  /\ answer # NoAnswer /\ i # 0 /\ RuleOf(request.path) = i
        /\ config.backend = "plain" /\ Len(file) = 1 /\ file[1].user # "broken" /\ a.scheme = config.require[i].method
        /\ a.scheme = "basic" => a.decodes /\ a.colon
        /\ a.scheme = "digest" => Complete(a) /\ a.for = request.method
        /\ file[1].user = a.user /\ file[1].password = a.secret
        /\ \A j \in 1..Len(Rules(i)) : Rules(i)[j].k \in {"user", "host", "group"} \/ Len(Rules(i)) = 1
        /\ Permits(i, a.user)
        => answer.status = 0

(***************************************************************************)
(* The scripts and the log are told the user of this request.              *)
(***************************************************************************)
Named ==
    answer # NoAnswer => answer.authed_user \in {NoUser, IF request.auth = Nobody THEN NoUser ELSE request.auth.user}

AuthRight == LetIn /\ Welcome /\ Named
=============================================================================
