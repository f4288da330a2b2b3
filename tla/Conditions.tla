------------------------------ MODULE Conditions ------------------------------
(***************************************************************************)
(* The conditional blocks of the configuration: what a connection remembers*)
(* of their conditions (con->cond_cache), the settings it has from them    *)
(* (con->conf), and the plugins that change what the conditions are about: *)
(* mod_extforward the address of the client, mod_rewrite the URL; and      *)
(* mod_redirect, which is configured by them.                              *)
(*                                                                         *)
(* An item that conditions compare is one of few; a block is at the place *)
(* of its context_ndx, behind its parent and its earlier brothers.         *)
(***************************************************************************)
EXTENDS Integers, Sequences, FiniteSets, SequencesExt

CONSTANTS
    Configs,            \* [blocks, trust, rewrite, rewrite_NF, redirect], see Block, Rules and is_proxy_trusted
    Requests,           \* [host, url, method, forwarded, https]
    Peers,              \* where connections come from
    MaxLoops,           \* 100 in the code
    MaxRequests         \* bound

VARIABLES
    config,
    peer,
    pc,
    request,            \* the one that is handled; its url is request.uri
    item, valid,       \* of each comp_key_t: what there is to compare, and conditional_is_valid[]
    cond_cache,         \* of each block: [result, comp_type, match]
    conf,               \* of each setting: the block it is from, 0 outside of all
    saved,              \* mod_extforward's handler_ctx: the address to restore, or ""
    is_proxy_ssl,       \* of the server socket
    hctx,               \* mod_rewrite's: [loops, finished]
    passes, moved,      \* of this request: times it was prepared; has the address been changed
    requests

vars == <<config, peer, pc, request, item, valid, cond_cache, conf, saved, is_proxy_ssl, hctx, passes, moved, requests>>

\* in the order in which http_response_prepare() makes them valid
Keys == <<"socket", "scheme", "host", "ip", "method", "url">>
Settings == {"document-root", "ssl.engine"}
Block(i) == config.blocks[i]        \* [parent, prev, comp, op, want, sets]
Blocks == 1..Len(config.blocks)
\* dc->prev and those before it
Earlier ==
    LET f[i \in Blocks] == IF Block(i).prev = 0 THEN {} ELSE {Block(i).prev} \cup f[Block(i).prev] IN f
\* mutant: a block that is true leaves its brothers undecided
Nobody(i) == {}
\* dc->next and those behind it
Excluded(i) == {j \in Blocks : i \in Earlier[j]}
Unknown == [result |-> "unset", comp_type |-> "none", match |-> ""]
NoRequest == [url |-> ""]
NoHctx == [loops |-> -1, finished |-> FALSE]

Init ==
    /\ config \in Configs /\ peer \in Peers
    /\ pc = "idle" /\ request = NoRequest
    /\ item = [k \in ToSet(Keys) |-> CASE k = "ip" -> peer [] k = "socket" -> "s" [] OTHER -> ""] /\ valid = {}
    /\ cond_cache = [i \in Blocks |-> Unknown] /\ conf = [s \in Settings |-> 0]
    /\ saved = "" /\ is_proxy_ssl = FALSE /\ hctx = NoHctx /\ passes = 0 /\ moved = FALSE /\ requests = 0

-----------------------------------------------------------------------------
(***************************************************************************)
(* config_check_cond_nocache() and config_check_cond_cached(), on a state  *)
(* w of [cache, item, valid, conf].                                        *)
(***************************************************************************)
Matches(i, v) == IF Block(i).op = "ne" THEN v # Block(i).want ELSE v = Block(i).want

ByBrother(cache, i) == Block(i).prev # 0 /\ cache[i].result = "false"

RECURSIVE check_cached(_, _, _)
check_cached(w, cache, i) ==
    LET p == Block(i).parent
        q == Block(i).prev
        k == IF p = 0 THEN cache ELSE check_cached(w, cache, p)
        above == IF p = 0 THEN "true" ELSE k[p].result
        l == IF above # "true" \/ q = 0 THEN k ELSE check_cached(w, k, q)
        v == w.item[Block(i).comp]
        result == CASE above # "true" -> above
                    [] above = "true" /\ ByBrother(l, i) -> "false"
                    [] above = "true" /\ ~ByBrother(l, i) /\ Block(i).comp \notin w.valid -> "unset"
                    [] OTHER -> IF Matches(i, v) THEN "true" ELSE "false"
        tested == above = "true" /\ ~ByBrother(l, i) /\ Block(i).comp \in w.valid
    IN  IF cache[i].result # "unset" THEN cache
        ELSE [j \in Blocks |->
                CASE j = i -> [result |-> result, comp_type |-> Block(i).comp,
                               match |-> IF tested /\ Block(i).op = "match" /\ v = Block(i).want THEN v ELSE l[i].match]
                  [] j \in Excluded(i) /\ result = "true" -> [l[j] EXCEPT !.result = "false"]
                  [] OTHER -> l[j]]

Check(w, i) == [w EXCEPT !.cache = check_cached(w, @, i)]
IsTrue(w, i) == w.cache[i].result = "true"

Work == [cache |-> cond_cache, item |-> item, valid |-> valid, conf |-> conf]
Merge(w, i) ==
    LET x == Check(w, i)
    IN  IF IsTrue(x, i) THEN [x EXCEPT !.conf = [s \in Settings |-> IF s \in Block(i).sets THEN i ELSE @[s]]] ELSE x
config_patch_connection(w, key) ==
    FoldLeft(Merge, [w EXCEPT !.valid = @ \cup {key}], [i \in 1..Len(config.blocks) |-> i])
config_setup_connection(w) == [w EXCEPT !.conf = [s \in Settings |-> 0]]

Cleared(c) == [c EXCEPT !.result = "unset", !.match = ""]
config_cond_cache_reset(w) == [w EXCEPT !.cache = [i \in Blocks |-> Cleared(@[i])], !.valid = {}]
\* only what was tested itself is known to be about the item
reset_item(cache, k) == [i \in Blocks |-> IF cache[i].comp_type = k THEN Cleared(cache[i]) ELSE cache[i]]

Becomes(w) == cond_cache' = w.cache /\ item' = w.item /\ valid' = w.valid /\ conf' = w.conf

\* the settings of a plugin: those of the last block that has some ("has") and is true
Patched(has, skipped) ==
    LET Ask(s, i) == IF Block(i).comp \in skipped THEN s
                     ELSE LET x == Check(s.w, i) IN [w |-> x, from |-> IF IsTrue(x, i) /\ i \in has THEN i ELSE s.from]
    IN  FoldLeft(Ask, [w |-> Work, from |-> 0], [i \in 1..Len(config.blocks) |-> i])

-----------------------------------------------------------------------------
Accept(r) ==
    /\ pc = "idle" /\ requests < MaxRequests /\ requests' = requests + 1
    /\ request' = r /\ pc' = "prepare" /\ passes' = 0 /\ moved' = FALSE
    /\ UNCHANGED <<config, peer, item, valid, cond_cache, conf, saved, is_proxy_ssl, hctx>>

\* http_response_prepare() up to the plugins: the scheme is known from the settings of the socket
Scheme(w) == IF w.conf["ssl.engine"] = 0 THEN "http" ELSE "https"
Prepare ==
    LET a == config_patch_connection(config_setup_connection(config_cond_cache_reset(Work)), "socket")
        b == [a EXCEPT !.item = [@ EXCEPT !["scheme"] = Scheme(a), !["host"] = request.host, !["method"] = request.method]]
    IN  /\ pc = "prepare" /\ pc' = "extforward" /\ passes' = passes + 1
        /\ Becomes(FoldLeft(config_patch_connection, b, <<"scheme", "host", "ip", "method">>))
        /\ UNCHANGED <<config, peer, request, saved, is_proxy_ssl, hctx, moved, requests>>

(***************************************************************************)
(* mod_extforward: the last address in the header that is not one of a     *)
(* proxy, if the connection is from one.                                   *)
(***************************************************************************)
is_proxy_trusted(ip) == IF "all" \in DOMAIN config.trust THEN config.trust["all"] = "trust" ELSE ip \in DOMAIN config.trust
last_not_in_array(a) ==
    LET S == {i \in 1..Len(a) : a[i] \notin DOMAIN config.trust}
    IN  IF S = {} THEN "" ELSE a[CHOOSE i \in S : \A j \in S : j <= i]
Extforward ==
    LET real == last_not_in_array(request.forwarded)
        found == request.forwarded # <<>> /\ is_proxy_trusted(item["ip"]) /\ real # ""
    IN  /\ pc = "extforward" /\ pc' = "raw"
        /\ is_proxy_ssl' = IF found THEN request.https ELSE is_proxy_ssl
        \* "bad" is no address: nothing is changed
        /\ IF found /\ real # "bad"
           THEN /\ saved' = item["ip"] /\ item' = [item EXCEPT !["ip"] = real]
                /\ cond_cache' = reset_item(cond_cache, "ip") /\ moved' = TRUE
           ELSE UNCHANGED <<saved, item, cond_cache, moved>>
        /\ UNCHANGED <<config, peer, request, valid, conf, hctx, passes, requests>>

(***************************************************************************)
(* mod_rewrite: the first rule that matches the URL gives another one, and *)
(* the request is prepared again.  A plugin context exists from then on.   *)
(***************************************************************************)
FirstRule(rules) == {i \in 1..Len(rules) : rules[i].from = request.url /\ \A j \in 1..(i - 1) : rules[j].from # request.url}
Endless == hctx # NoHctx /\ hctx.loops > MaxLoops
Counted == IF hctx = NoHctx THEN hctx ELSE [hctx EXCEPT !.loops = @ + 1]
Rewritten(rule) ==
    /\ request' = [request EXCEPT !.url = rule.to]
    /\ hctx' = [loops |-> IF hctx = NoHctx THEN 0 ELSE hctx.loops + 1, finished |-> rule.once \/ hctx.finished]
process_rewrite_rules(rules, next) ==
    LET first == FirstRule(rules)
        passed == Endless \/ hctx.finished \/ first = {}
    IN  /\ pc' = CASE Endless -> "handled" [] ~Endless /\ passed -> next [] OTHER -> "prepare"
        /\ IF passed THEN hctx' = Counted /\ UNCHANGED request ELSE Rewritten(rules[CHOOSE i \in first : TRUE])
RewriteRaw ==
    LET s == Patched(DOMAIN config.rewrite, {"url"})
    IN  /\ pc = "raw" /\ process_rewrite_rules(config.rewrite[s.from], "url")
        /\ Becomes(s.w)
        /\ UNCHANGED <<config, peer, saved, is_proxy_ssl, passes, moved, requests>>

\* the path is cut out of the URL, and its conditions are valid from now on
PatchUrl ==
    /\ pc = "url" /\ pc' = "clean"
    /\ Becomes(config_patch_connection([Work EXCEPT !.item = [@ EXCEPT !["url"] = request.url]], "url"))
    /\ UNCHANGED <<config, peer, request, saved, is_proxy_ssl, hctx, passes, moved, requests>>

mod_redirect_uri_handler ==
    LET s == Patched(DOMAIN config.redirect, {})
    IN  /\ pc = "clean" /\ pc' = IF request.url \in config.redirect[s.from] THEN "handled" ELSE "physical"
        /\ Becomes(s.w)
        /\ UNCHANGED <<config, peer, request, saved, is_proxy_ssl, hctx, passes, moved, requests>>

\* the rules for what is no regular file
RewriteNotFile(regular) ==
    LET s == Patched(DOMAIN config.rewrite_NF, {"url"})
    IN  /\ pc = "physical"
        /\ IF regular THEN pc' = "handled" /\ UNCHANGED <<request, hctx>>
           ELSE process_rewrite_rules(config.rewrite_NF[s.from], "handled")
        /\ Becomes(s.w)
        /\ UNCHANGED <<config, peer, saved, is_proxy_ssl, passes, moved, requests>>

\* the request is over: mod_extforward_restore(), mod_rewrite_con_reset(), config_setup_connection()
Done ==
    /\ pc = "handled" /\ pc' = "idle" /\ request' = NoRequest
    /\ item' = [item EXCEPT !["ip"] = IF saved = "" THEN @ ELSE saved] /\ saved' = ""
    /\ cond_cache' = IF saved = "" THEN cond_cache ELSE reset_item(cond_cache, "ip")
    /\ conf' = [s \in Settings |-> 0] /\ hctx' = NoHctx
    /\ UNCHANGED <<config, peer, valid, is_proxy_ssl, passes, moved, requests>>

Next ==
    \/ \E r \in Requests : Accept(r)
    \/ Prepare \/ Extforward \/ RewriteRaw \/ PatchUrl \/ mod_redirect_uri_handler
    \/ \E regular \in BOOLEAN : RewriteNotFile(regular)
    \/ Done
Spec == Init /\ [][Next]_vars

-----------------------------------------------------------------------------
TypeOK ==
    /\ \A i \in Blocks : cond_cache[i].result \in {"unset", "false", "true"}
    /\ \A s \in Settings : conf[s] \in Blocks \cup {0}
    /\ hctx.loops \in -1..MaxLoops + 2

\* what a block is about, apart from itself: what encloses it, and its earlier brothers and theirs
Around(i) == IF Block(i).parent = 0 THEN {} ELSE {Block(i).parent}
DependsOn ==
    LET f[i \in Blocks] == {i} \cup UNION {f[j] : j \in Earlier[i] \cup Around(i)} IN f
Holds ==
    LET f[i \in Blocks] ==
            /\ \A j \in Around(i) : f[j]
            /\ \A j \in Earlier[i] : ~f[j]
            /\ Matches(i, item[Block(i).comp])
    IN  f
Rank(i) == CHOOSE n \in 1..Len(Keys) : Keys[n] = Block(i).comp
\* no branch was decided before one that comes before it
InOrder(i) == \A j \in DependsOn[i] : \A k \in Earlier[j] : \A m \in DependsOn[k] : Rank(m) <= Rank(j)
AboutAddress(i) == \E j \in DependsOn[i] : Block(j).comp = "ip"
Complete == pc \in {"clean", "physical"}

(***************************************************************************)
(* A block is in force exactly when its condition holds, those around it   *)
(* do, and those of the branches before it do not.  Not known of a branch  *)
(* that was decided before an earlier one could be, nor, once the address  *)
(* of the client was replaced, of what depends on it.                      *)
(***************************************************************************)
Decided ==
    Complete => \A i \in Blocks :
        /\ InOrder(i) /\ (moved => ~AboutAddress(i)) => cond_cache[i].result = IF Holds[i] THEN "true" ELSE "false"
        /\ cond_cache[i].result = "true" => Matches(i, item[Block(i).comp])

(***************************************************************************)
(* A setting is that of the last block in force that has it.               *)
(***************************************************************************)
LastOf(S) == IF S = {} THEN 0 ELSE CHOOSE i \in S : \A j \in S : j <= i
SettingsRight ==
    Complete /\ (\A i \in Blocks : InOrder(i)) /\ (moved => \A i \in Blocks : ~AboutAddress(i)) =>
        \A s \in Settings : conf[s] = LastOf({i \in Blocks : s \in Block(i).sets /\ Holds[i]})

(***************************************************************************)
(* Between two requests a connection has the address it came from, unless  *)
(* every address is trusted and a request was rewritten: then the second   *)
(* pass takes the client's for the connection's.                           *)
(***************************************************************************)
AddressBack == pc = "idle" /\ ~("all" \in DOMAIN config.trust) => item["ip"] = peer

(***************************************************************************)
(* What %1 of a rule stands for is what the condition was matched with.    *)
(***************************************************************************)
Captured == Complete => \A i \in Blocks : cond_cache[i].match # "" => cond_cache[i].match = item[Block(i).comp]

(***************************************************************************)
(* Rules that rewrite each other's URLs end.                               *)
(***************************************************************************)
RewritesEnd == passes <= MaxLoops + 3

ConditionsRight == Decided /\ SettingsRight /\ AddressBack /\ Captured /\ RewritesEnd
=============================================================================
