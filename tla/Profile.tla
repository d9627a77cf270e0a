------------------------------ MODULE Profile ------------------------------
(***************************************************************************)
(* What the router reads off a request (ProfileRequest, classifyComplexity,*)
(* buildTaskGraph in internal/server/brain.go, slotForRequest in           *)
(* internal/server/server.go).  A request is reduced to the set of things  *)
(* its fields and its words ask for: tools (or a tool choice), vision (a   *)
(* part that is an image, or a word), a long context, a high reasoning     *)
(* effort, and the words for code, for reasoning and for low cost.         *)
(* Kept filters the sequences of the modules that extend this one.         *)
(***************************************************************************)
EXTENDS Naturals, Sequences

CONSTANTS
  Models, \* configured models, each of one provider
  Asked   \* what requests ask for: sets of needs

Needs == {"tools", "vision", "long", "effort", "code", "reason", "economy"}

(* What the request is about; tools make it code only if nothing else is   *)
(* said.                                                                   *)
Intent(needs) ==
  CASE "vision" \in needs                  -> "vision"
    [] "vision" \notin needs /\ "code" \in needs -> "code"
    [] needs \cap {"vision", "code"} = {} /\ needs \cap {"reason", "effort"} # {} -> "reasoning"
    [] needs \cap {"vision", "code", "reason", "effort"} = {} ->
         IF "tools" \in needs THEN "code" ELSE "chat"

(* ComplexityHigh and above, which is all that selection distinguishes. *)
Complex(needs) ==
  needs \cap {"long", "tools", "effort"} # {} \/ Intent(needs) = "reasoning"

(* A request for which a fast model will do. *)
Simple(needs) == Intent(needs) = "chat" /\ needs \cap {"tools", "long"} = {}

(* The stages of the request, and whether they can run at once. *)
TaskGraph(needs) ==
  [stages   |-> CASE Intent(needs) = "vision"    -> <<"extract", "answer">>
                  [] Intent(needs) = "code"      -> <<"plan", "implement", "verify">>
                  [] Intent(needs) = "reasoning" -> <<"analyze", "critique", "synthesize">>
                  [] Intent(needs) = "chat"      -> <<"answer">>,
   parallel |-> Intent(needs) = "reasoning"]

(* The slot of the catalog that the request belongs to. *)
SlotFor(needs) ==
  LET order == <<"tools", "vision", "economy", "long", "code", "reason">>
      slots == <<"tool-use", "vision", "cheap-chat", "long-context", "fast-code", "strong-reason">>
      said  == {i \in DOMAIN order : order[i] \in needs}
  IN  IF said = {} THEN "auto" ELSE slots[CHOOSE i \in said : \A j \in said : i <= j]
-----------------------------------------------------------------------------
(* The members of a sequence that are in a set, in their order: SelectSeq, *)
(* as a recursive function so that it can be proved about.                 *)
Kept(list, members) ==
  LET kept[k \in 0..Len(list)] ==
        IF k = 0 THEN <<>>
        ELSE IF list[k] \in members THEN Append(kept[k - 1], list[k]) ELSE kept[k - 1]
  IN  kept[Len(list)]
=============================================================================
