---------------------------- MODULE SettingsPages ----------------------------
(***************************************************************************)
(* The LLM and Dictionary pages of the main window (ui/settings/llm.rs,    *)
(* dictionary.rs), with the debounced text fields (settings/mod.rs) and    *)
(* the transform chips of the Transcription page.                          *)
(*                                                                         *)
(* Every handler loads the configuration, changes it and saves it on the   *)
(* GTK thread: one step.  What lasts longer is a prompt typed and not yet  *)
(* saved, a consent dialog, and a request for an endpoint's models.        *)
(***************************************************************************)
EXTENDS Naturals, Sequences, SequencesExt

CONSTANTS
  Url,          (* Endpoints; those without a scope are not allowed.       *)
  ScopeOf,      (* The network authority of an endpoint.                   *)
  NoScope,
  MaxPageActs,  (* What the user does at most.                             *)
  MaxPresets,   (* Presets made at most.                                   *)
  MaxRules      (* Replacement rules made at most.                         *)

Scope == {ScopeOf[u] : u \in Url} \ {NoScope}
ASSUME SettingsAssumption ==
  DOMAIN ScopeOf = Url /\ MaxPageActs \in Nat /\ MaxPresets \in Nat \ {0, 1} /\ MaxRules \in Nat

VARIABLES
  url, enabled,
  consent,    (* llm_consent_endpoint; llm_consent_given is whether there is one. *)
  presets,    (* llm_presets: an identity, whose copies it is, its prompt. *)
  active,     (* llm_active_preset.                                        *)
  rules,      (* dictionary_replacements, by identity.                     *)
  terms,      (* dictionary_terms.                                         *)
  shownPage,
  switch,     (* The LLM page's enable switch.                             *)
  dialog,     (* The authority a consent dialog names, while one is open.  *)
  fetching,   (* Endpoints whose models are being fetched.                 *)
  status,     (* What the models line says.                                *)
  index,      (* The preset in the editor.                                 *)
  prompt,     (* The editor's text: for which preset it was typed, and when. *)
  edit,       (* The debounced save of a prompt: pinned index and text.    *)
  typedTerms, (* The terms field.                                          *)
  ruleRows,   (* The rule behind each row.                                 *)
  chips,      (* The preset behind each chip.                              *)
  pageActs, made

config == <<url, enabled, consent, presets, active, rules, terms>>
editor == <<index, prompt, edit>>
llmTop == <<url, enabled, consent, switch, dialog, fetching, status>>
dictionary == <<rules, terms, typedTerms, ruleRows>>
pageVars == <<config, shownPage, switch, dialog, fetching, status, editor, typedTerms,
              ruleRows, chips, pageActs, made>>

NoEdit == [at |-> 0, text |-> <<0, 0>>]
Text == (0..MaxPresets) \X (0..MaxPageActs)
Preset == [id : 1..MaxPresets, of : SUBSET (1..MaxPresets), prompt : Text]

(* The types of the configuration's fields and of the pages that edit      *)
(* them; there is always an active preset.                                 *)
PagesTypeOK ==
  /\ url \in Url /\ enabled \in BOOLEAN /\ consent \in Scope \cup {NoScope}
  /\ presets \in Seq(Preset) /\ presets # <<>> /\ active \in DOMAIN presets
  /\ rules \in Seq(1..MaxRules) /\ terms \in 0..MaxPageActs
  /\ shownPage \in {"llm", "dictionary", "transcription"}
  /\ switch \in BOOLEAN /\ dialog \in Scope \cup {NoScope}
  /\ fetching \subseteq Url /\ status \in Url \cup {"fetching", "idle", "error"}
  /\ index \in DOMAIN presets /\ prompt \in Text
  /\ edit = NoEdit \/ (edit.at \in DOMAIN presets /\ edit.text \in Text)
  /\ typedTerms \in 0..MaxPageActs
  /\ pageActs \in 0..MaxPageActs /\ made \in 0..MaxRules

NewPreset(id) == [id |-> id, of |-> {id}, prompt |-> <<id, 0>>]
Ids(ps) == [i \in DOMAIN ps |-> ps[i].id]

PagesInit ==
  /\ url \in Url /\ enabled = FALSE /\ consent = NoScope
  /\ presets = <<NewPreset(1), NewPreset(2)>> /\ active = 1
  /\ rules = <<>> /\ terms = 0 /\ made = 0
  /\ shownPage = "llm" /\ switch = FALSE /\ dialog = NoScope
  /\ fetching = {} /\ status = "idle"
  /\ index = 1 /\ prompt = <<1, 0>> /\ edit = NoEdit
  /\ typedTerms = 0 /\ ruleRows = <<>> /\ chips = Ids(presets) /\ pageActs = 0

(* A dialog is modal.                                                      *)
PageAct(p) ==
  /\ shownPage = p /\ dialog = NoScope
  /\ pageActs < MaxPageActs /\ pageActs' = pageActs + 1

------------------------------------------------------------------------------
(* The endpoint and the consent to send text there.                        *)
Refresh(u) == fetching' = fetching \cup {u} /\ status' = "fetching"
Below == UNCHANGED <<presets, active, editor, dictionary, shownPage, chips, made>>

Enable ==
  /\ PageAct("llm") /\ ~switch
  /\ IF consent # NoScope /\ consent = ScopeOf[url]
     THEN enabled' = TRUE /\ switch' = TRUE /\ Refresh(url) /\ UNCHANGED dialog
     ELSE /\ dialog' = ScopeOf[url] /\ switch' = (ScopeOf[url] # NoScope)
          /\ UNCHANGED <<enabled, fetching, status>>
  /\ UNCHANGED <<url, consent>> /\ Below

Consent ==
  /\ dialog # NoScope /\ dialog' = NoScope
  /\ enabled' = TRUE /\ consent' = dialog /\ Refresh(url)
  /\ UNCHANGED <<url, switch, pageActs>> /\ Below

(* Mutant: the switch stays on when the dialog is cancelled.               *)
RefuseKeepsSwitch ==
  /\ dialog # NoScope /\ dialog' = NoScope
  /\ UNCHANGED <<url, enabled, consent, switch, fetching, status, pageActs>> /\ Below

RefuseConsent ==
  /\ dialog # NoScope /\ dialog' = NoScope
  /\ switch' = FALSE
  /\ UNCHANGED <<url, enabled, consent, fetching, status, pageActs>> /\ Below

Disable ==
  /\ PageAct("llm") /\ switch
  /\ switch' = FALSE /\ enabled' = FALSE
  /\ UNCHANGED <<url, consent, dialog, fetching, status>> /\ Below

(* Mutant: the consent is dropped only while the integration is on.        *)
EndpointOfEnabled(u) ==
  LET moved == ScopeOf[url] # ScopeOf[u] /\ enabled IN
  /\ PageAct("llm") /\ ScopeOf[u] # NoScope
  /\ url' = u /\ Refresh(u)
  /\ consent' = IF moved THEN NoScope ELSE consent
  /\ UNCHANGED <<enabled, switch, dialog>> /\ Below

(* A provider, or a typed URL that is valid: another authority needs a new *)
(* consent.                                                                *)
SaveEndpoint(u) ==
  LET moved == ScopeOf[url] # ScopeOf[u] /\ (enabled \/ consent # NoScope) IN
  /\ PageAct("llm") /\ ScopeOf[u] # NoScope
  /\ url' = u /\ Refresh(u)
  /\ enabled' = (enabled /\ ~moved) /\ switch' = (switch /\ ~moved)
  /\ consent' = IF moved THEN NoScope ELSE consent
  /\ UNCHANGED dialog /\ Below

(* The answer, in any order, or an error.                                  *)
Models(u) ==
  /\ u \in fetching /\ fetching' = fetching \ {u}
  /\ status' \in {u, "error"}
  /\ UNCHANGED <<url, enabled, consent, switch, dialog, pageActs>> /\ Below

------------------------------------------------------------------------------
(* Presets.  A prompt is saved half a second after the last change, to the *)
(* preset that was in the editor then.                                     *)
Saved(e) == IF e = NoEdit \/ e.at \notin DOMAIN presets THEN presets
            ELSE [presets EXCEPT ![e.at].prompt = e.text]
Edits(i, ps) == index' = i /\ prompt' = ps[i].prompt
Above == UNCHANGED <<llmTop, dictionary, shownPage, chips, made>>

Type ==
  /\ PageAct("llm")
  /\ prompt' = <<presets[index].id, pageActs + 1>>
  /\ edit' = [at |-> index, text |-> prompt']
  /\ UNCHANGED <<presets, active, index>> /\ Above

SaveEdit ==
  /\ edit # NoEdit /\ edit' = NoEdit
  /\ presets' = Saved(edit)
  /\ UNCHANGED <<active, index, prompt, pageActs>> /\ Above

SelectPreset(i) ==
  /\ PageAct("llm") /\ i # index
  /\ active' = i /\ Edits(i, presets)
  /\ UNCHANGED <<presets, edit>> /\ Above

(* A new name rebuilds the list and the editor.                            *)
Rename ==
  /\ PageAct("llm")
  /\ Edits(index, presets)
  /\ UNCHANGED <<presets, active, edit>> /\ Above

Fresh == CHOOSE n \in 1..MaxPresets : \A i \in DOMAIN presets : presets[i].id # n /\ n \notin presets[i].of
Room == \E n \in 1..MaxPresets : \A i \in DOMAIN presets : presets[i].id # n /\ n \notin presets[i].of

AddPreset ==
  /\ PageAct("llm") /\ Room
  /\ presets' = Append(presets, NewPreset(Fresh))
  /\ active' = Len(presets') /\ Edits(Len(presets'), presets')
  /\ UNCHANGED edit /\ Above

DuplicatePreset ==
  /\ PageAct("llm") /\ Room
  /\ edit' = NoEdit
  /\ LET ps == Saved(edit)
         copy == [ps[index] EXCEPT !.id = Fresh, !.of = @ \cup {Fresh}]
     IN presets' = InsertAt(ps, index + 1, copy)
  /\ active' = index + 1 /\ Edits(index + 1, presets')
  /\ Above

Clamped(i, ps) == IF i > Len(ps) THEN Len(ps) ELSE i

(* Mutant: the pending prompt is not saved before the list shifts.         *)
DeleteUnflushed ==
  /\ PageAct("llm") /\ Len(presets) > 1
  /\ presets' = RemoveAt(presets, index)
  /\ active' = Clamped(index, presets') /\ Edits(active', presets')
  /\ edit' = IF edit.at \in DOMAIN presets' THEN edit ELSE NoEdit
  /\ Above

(* Mutant: the last preset can be deleted too.                             *)
DeleteLast ==
  /\ PageAct("llm") /\ edit' = NoEdit
  /\ presets' = RemoveAt(Saved(edit), index)
  /\ active' = Clamped(index, presets') /\ index' = active'
  /\ prompt' = IF presets' = <<>> THEN prompt ELSE presets'[index'].prompt
  /\ Above

DeletePreset ==
  /\ PageAct("llm") /\ Len(presets) > 1
  /\ edit' = NoEdit
  /\ presets' = RemoveAt(Saved(edit), index)
  /\ active' = Clamped(index, presets') /\ Edits(active', presets')
  /\ Above

------------------------------------------------------------------------------
(* The dictionary: the rows of the rules hold their indices, and are built *)
(* anew whenever a rule comes or goes.                                     *)
Beside == UNCHANGED <<llmTop, presets, active, editor, shownPage, chips>>

TypeTerms ==
  /\ PageAct("dictionary")
  /\ typedTerms' = pageActs + 1
  /\ UNCHANGED <<rules, terms, ruleRows, made>> /\ Beside

SaveTerms ==
  /\ terms # typedTerms /\ terms' = typedTerms
  /\ UNCHANGED <<rules, typedTerms, ruleRows, pageActs, made>> /\ Beside

AddRule ==
  /\ PageAct("dictionary") /\ made < MaxRules /\ made' = made + 1
  /\ rules' = Append(rules, made + 1) /\ ruleRows' = rules'
  /\ UNCHANGED <<terms, typedTerms>> /\ Beside

(* Mutant: a removed rule only takes its row away.                         *)
RemoveRowOnly(k) ==
  /\ PageAct("dictionary") /\ k \in DOMAIN ruleRows
  /\ rules' = RemoveAt(rules, k) /\ ruleRows' = Front(ruleRows)
  /\ UNCHANGED <<terms, typedTerms, made>> /\ Beside

RemoveRule(k) ==
  /\ PageAct("dictionary") /\ k \in DOMAIN ruleRows
  /\ rules' = RemoveAt(rules, k) /\ ruleRows' = rules'
  /\ UNCHANGED <<terms, typedTerms, made>> /\ Beside

------------------------------------------------------------------------------
(* Mutant: a page that is left keeps its debounced prompt.                 *)
NavigateUnflushed(p) ==
  /\ PageAct(shownPage) /\ p # shownPage /\ shownPage' = p
  /\ chips' = Ids(presets)
  /\ terms' = typedTerms /\ switch' = enabled /\ ruleRows' = rules
  /\ UNCHANGED <<url, enabled, consent, active, rules, dialog, fetching, status, index, prompt,
                 typedTerms, made, presets, edit>>

(* A page that goes saves what it was still to save; one that comes shows  *)
(* the configuration; the chips are built anew.                            *)
Navigate(p) ==
  /\ PageAct(shownPage) /\ p # shownPage /\ shownPage' = p
  /\ edit' = NoEdit /\ presets' = Saved(edit) /\ chips' = Ids(presets)
  /\ terms' = typedTerms /\ switch' = enabled /\ ruleRows' = rules
  /\ UNCHANGED <<url, enabled, consent, active, rules, dialog, fetching, status, index, prompt,
                 typedTerms, made>>

PagesNext ==
  \/ Enable \/ Consent \/ RefuseConsent \/ Disable
  \/ \E u \in Url : SaveEndpoint(u) \/ Models(u)
  \/ Type \/ SaveEdit \/ Rename \/ AddPreset \/ DuplicatePreset \/ DeletePreset
  \/ \E i \in DOMAIN presets : SelectPreset(i)
  \/ TypeTerms \/ SaveTerms \/ AddRule
  \/ \E k \in DOMAIN ruleRows : RemoveRule(k)
  \/ \E p \in {"llm", "dictionary", "transcription"} : Navigate(p)

------------------------------------------------------------------------------
(* Text is sent only to an authority the user agreed to, whatever endpoints *)
(* were tried on the way, and the switch says so.                          *)
EnabledHasConsent ==
  /\ enabled => consent # NoScope /\ consent = ScopeOf[url]
  /\ dialog = NoScope => switch = enabled

(* A consent outlives no change of authority: coming back asks again.      *)
ConsentIsOfEndpoint == consent # NoScope => consent = ScopeOf[url]

(* A prompt lands on the preset it was typed for, or on a copy of it, while *)
(* presets are added, duplicated, deleted and switched under the pending   *)
(* save.                                                                   *)
EditsLandOnTheirPreset == \A i \in DOMAIN presets : presets[i].prompt[1] \in presets[i].of

(* A row edits, and a chip runs, what it shows, whatever was added, deleted *)
(* or switched in between: both find it by its index.                      *)
IndicesMatch ==
  /\ ruleRows = rules
  /\ shownPage = "transcription" => chips = Ids(presets)

(* A page that is not shown owes the configuration nothing: leaving it     *)
(* saved the debounced text it still held.                                 *)
HiddenMeansSaved ==
  /\ shownPage # "llm" => edit = NoEdit
  /\ shownPage # "dictionary" => terms = typedTerms

(* A consent is of the endpoint in use, and a text, a row or a chip of     *)
(* the preset or rule it was shown for.                                    *)
PagesSafety ==
  /\ PagesTypeOK
  /\ EnabledHasConsent
  /\ ConsentIsOfEndpoint
  /\ EditsLandOnTheirPreset
  /\ IndicesMatch
  /\ HiddenMeansSaved
=============================================================================
