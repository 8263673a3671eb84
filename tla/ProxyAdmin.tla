----------------------------- MODULE ProxyAdmin -----------------------------
(***************************************************************************)
(* The list of proxies as the administrator manages it (ProxyList), with   *)
(* its parameters and its state: what AdminProofs proves about it and      *)
(* MCBotAndProxies checks.                                                 *)
(***************************************************************************)
CONSTANTS Callers, Urls, MaxProxies, MaxListed, MaxId, MaxRepeats

VARIABLES table, nextId, insertLock, call, due, jobPc, noticed, named, repeats

ProxyTable == INSTANCE ProxyList

ASSUME ProxyAdminAssumption == ProxyTable!ListAssumption

listVars == <<table, nextId, insertLock, call, due, jobPc, noticed, named, repeats>>

\* The list of proxies keeps its limit, has an address once, shows the checks of
\* the address itself, and a proxy that expires is in one notice, be it by name or
\* in the number of those it leaves out; a second notice has it only when a job
\* ended between the first and its mark.
ProxyListIsSound == ProxyTable!ProxyListIsSound

\* A proxy is marked as reported only when a notice named it.  Violated.
EachIsNamed == ProxyTable!EachIsNamed

=============================================================================
