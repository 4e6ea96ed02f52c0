-------------------------- MODULE MCDecisionCatalogue --------------------------
EXTENDS DecisionCatalogue, TLC

CONSTANTS login, audit, tokens, retire, ann, bob, cache, store, wire

Rec(slug, over) == [slug |-> slug, supersedes |-> over]

\* login brings two records, the second of which supersedes the first; the others
\* supersede, by slug or by number, what may have been brought before them.
MCAuthored ==
    [s \in {login, audit, tokens, retire} |->
        CASE s = login -> <<Rec(cache, {}), Rec(store, {cache})>>
          [] s = audit -> <<Rec(cache, {1}), Rec(wire, {store})>>
          [] s = retire -> <<Rec(wire, {cache, 2})>>
          [] OTHER -> <<Rec(cache, {})>>]
================================================================================
