-------------------------- MODULE MCBotAndProxies --------------------------
(***************************************************************************)
(* An instance for TLC of what is sent through Telegram and of the list    *)
(* whose proxies are reported there: the bot (TelegramBot) or the list     *)
(* (ProxyAdmin) is at work, and the other one stays as it is.              *)
(***************************************************************************)
EXTENDS TelegramBot, ProxyAdmin, TLC

VARIABLE component

TwoInit ==
    /\ component \in {"bot", "proxies"}
    /\ Init /\ ProxyTable!Init

TwoNext ==
    /\ UNCHANGED component
    /\ \/ component = "bot" /\ Next /\ UNCHANGED listVars
       \/ component = "proxies" /\ ProxyTable!Next /\ UNCHANGED vars

TwoSpec == TwoInit /\ [][TwoNext]_<<component, vars, listVars>>

\* The addresses of proxies are told apart and nothing else.
AnyAddress == Permutations(Urls)

=============================================================================
