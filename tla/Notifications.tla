--------------------------- MODULE Notifications ---------------------------
(***************************************************************************)
(* What subscribers are told: the text of a digest (DigestText) and its    *)
(* delivery (TelegramBot).  The first is a function of the changes of a    *)
(* run, the second takes messages as they are: of their number only.       *)
(***************************************************************************)
EXTENDS TelegramBot

CONSTANTS Limit, MaxLines, Bulk, Lengths, Plain, DashboardUrl,  \* DigestText
          MaxBanks, MaxChanges

VARIABLES digest, piece, packed, current

Text == INSTANCE DigestText WITH Dashboard <- DashboardUrl

ASSUME NotificationsAssumption == Text!DigestAssumption

\* A digest tells every change of its lines, in order and in messages that
\* Telegram takes; the state of the bot that sends them has its type.
DigestTellsAll == TypeOK /\ Text!TextTypeOK /\ Text!DigestTellsAll

=============================================================================
