------------------------------ MODULE Learning ------------------------------
(***************************************************************************)
(* What the bot keeps besides entries: the merchant catalogue and the rule *)
(* learned for a user and a merchant (categorisation/categorisation.go,    *)
(* store/merchants.go), insight rows and export files.  All entries name   *)
(* one merchant; the type of an entry is left out.                         *)
(***************************************************************************)
EXTENDS Inbound

(* The category the receipt or the words of an entry hint at, and another.    *)
Categories == {"hint", "other"}

VARIABLES
  merchant, \* row of the merchant: "unknown", "named" without its alias, or "known"
  rule,     \* [Users -> row of user_merchant_rules]
  derived,  \* [Users -> SUBSET {"insight", "export"}], insight rows and files
  lessons   \* [Users -> Seq(Categories)], what the user has decided (history)

memory == <<merchant, rule, derived, lessons>>

NoRule == [n |-> 0, confidence |-> 0, category |-> "none"]

LearningInit ==
  /\ merchant = "unknown"
  /\ rule = [u \in Users |-> NoRule]
  /\ derived = [u \in Users |-> {}]
  /\ lessons = [u \in Users |-> <<>>]

(* In percent. *)
ruleConfidence(n) == IF 60 + 10 * (n - 1) > 95 THEN 95 ELSE 60 + 10 * (n - 1)

UserRuleApplyConfidence == 70

SuggestCategory(u) ==
  IF rule[u].confidence >= UserRuleApplyConfidence THEN rule[u].category ELSE "hint"

Found == merchant # "unknown"

(* A row that exists is returned, and gets no alias. *)
CreateMerchant == merchant' = IF Found THEN merchant ELSE "named"

(* Mutant: the sample count is stored instead of added. *)
UpsertReplaces(u, row) == rule' = [rule EXCEPT ![u] = row]

UpsertUserMerchantRule(u, row) ==
  rule' = [rule EXCEPT ![u] = [row EXCEPT !.n = rule[u].n + row.n]]

LearnFromConfirmation(u, c) ==
  UpsertUserMerchantRule(u, [n |-> 1, confidence |-> ruleConfidence(rule[u].n + 1), category |-> c])

Teaches(u, c) == lessons' = [lessons EXCEPT ![u] = Append(@, c)]

Derives(u, what) == derived' = [derived EXCEPT ![u] = @ \cup {what}]

(* The user's part of what is removed with the account; files go before.      *)
ForgetUser(u) ==
  /\ rule' = [rule EXCEPT ![u] = NoRule]
  /\ lessons' = [lessons EXCEPT ![u] = <<>>]
  /\ derived' = [derived EXCEPT ![u] = @ \ {"insight"}]
  /\ UNCHANGED merchant
=============================================================================
