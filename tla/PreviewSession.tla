--------------------------- MODULE PreviewSession ---------------------------
(***************************************************************************)
(* The layers of the open document (the layer operations of state/         *)
(* project-session.svelte.ts) and their preview (state/                    *)
(* preview-session.svelte.ts), as the viewport shows them: the layer       *)
(* selected, how many layers the scrubber leaves visible, and requests     *)
(* for an image that may be answered in any order.                         *)
(***************************************************************************)
EXTENDS Naturals, Sequences, SequencesExt

CONSTANTS
  Layers,       \* bound: the ids that layers can have
  NoLayer,      \* selectedLayerId = null
  MaxRequests   \* bound: requests for a preview

ASSUME PreviewAssumption ==
  NoLayer \notin Layers /\ IsFiniteSet(Layers) /\ MaxRequests \in Nat

VARIABLES
  layers,            \* document.layers, by their ids
  selectedLayerId,
  values,            \* mandrel, tow and layer values: in order, or what rules them out
  mounted,           \* the workspace that holds the viewport is on display
  visibleLayerCount,
  requestId,
  isGenerating,
  error,             \* an error is on display
  image,             \* the request whose image is shown, 0 for none
  inFlight           \* requests that have not been answered

documentVars == <<layers, selectedLayerId, values>>
answerVars == <<requestId, isGenerating, error, image, inFlight>>
previewVars == <<documentVars, mounted, visibleLayerCount, answerVars>>

Values == {"ok", "bad_inputs", "bad_schema"}

PreviewInit ==
  /\ layers = <<>> /\ selectedLayerId = NoLayer /\ values = "ok"
  /\ mounted = TRUE /\ visibleLayerCount = 0
  /\ requestId = 0 /\ isGenerating = FALSE /\ error = FALSE
  /\ image = 0 /\ inFlight = {}

-----------------------------------------------------------------------------
(* The layers *)

\* Mutant: nothing is done when the viewport comes back.
SyncScrubberSeen ==
  visibleLayerCount' = IF mounted' /\ Len(layers') # Len(layers)
                         THEN Len(layers') ELSE visibleLayerCount

\* The viewport's effect runs after every change of the number of layers while it
\* is mounted, and when it is mounted.
SyncScrubber ==
  visibleLayerCount' = IF mounted' /\ (~mounted \/ Len(layers') # Len(layers))
                         THEN Len(layers') ELSE visibleLayerCount

Relayers(list, selected) ==
  /\ layers' = list /\ selectedLayerId' = selected
  /\ UNCHANGED <<values, mounted, answerVars>>
  /\ SyncScrubber

Fresh == Layers \ ToSet(layers)

AddLayer == \E id \in Fresh : Relayers(Append(layers, id), id)

RemoveLayer ==
  \E index \in 1..Len(layers) :
    LET list == RemoveAt(layers, index)
    IN Relayers(list, IF selectedLayerId # layers[index] THEN selectedLayerId
                      ELSE IF list = <<>> THEN NoLayer ELSE list[1])

DuplicateLayer ==
  \E index \in 1..Len(layers), id \in Fresh :
    Relayers(InsertAt(layers, index + 1, id), id)

ReorderLayers ==
  \E from, to \in 1..Len(layers) :
    /\ from # to
    /\ Relayers(InsertAt(RemoveAt(layers, from), to, layers[from]), selectedLayerId)

SelectLayer ==
  /\ selectedLayerId' \in ToSet(layers)
  /\ UNCHANGED <<layers, values, mounted, visibleLayerCount, answerVars>>

\* loadDocument: other layers, with ids of their own, and nothing selected.
LoadLayers ==
  /\ \E n \in 0..Cardinality(Layers) : \E list \in [1..n -> Layers] :
       IsInjective(list) /\ Relayers(list, NoLayer)

\* updateMandrel, updateTow, updateLayer: valid or not.
EditValues ==
  /\ values' \in Values
  /\ UNCHANGED <<layers, selectedLayerId, mounted, visibleLayerCount, answerVars>>

SwitchWorkspace ==
  /\ mounted' = ~mounted
  /\ UNCHANGED <<documentVars, answerVars>>
  /\ SyncScrubber

Scrub ==
  /\ mounted /\ layers # <<>>
  /\ visibleLayerCount' \in 1..Len(layers)
  /\ UNCHANGED <<documentVars, mounted, answerVars>>

-----------------------------------------------------------------------------
(* The preview *)

\* generate: what the inputs rule out is shown as an error and asks for nothing;
\* what the schema rules out takes a number and ends at once.
Generate ==
  /\ \/ /\ layers = <<>> \/ values = "bad_inputs"
        /\ error' = TRUE
        /\ UNCHANGED <<requestId, isGenerating, inFlight>>
     \/ /\ requestId < MaxRequests
        /\ layers # <<>>
        /\ requestId' = requestId + 1
        /\ \/ /\ values = "ok"
              /\ isGenerating' = TRUE /\ error' = FALSE
              /\ inFlight' = inFlight \cup {requestId + 1}
           \/ /\ values = "bad_schema"
              /\ isGenerating' = FALSE /\ error' = TRUE
              /\ UNCHANGED inFlight
  /\ UNCHANGED <<documentVars, mounted, visibleLayerCount, image>>

\* An answer counts only for the latest request; without an image it is an error.
ImageAnswered(n) ==
  /\ inFlight' = inFlight \ {n}
  /\ \/ n # requestId /\ UNCHANGED <<image, error, isGenerating>>
     \/ /\ n = requestId /\ isGenerating' = FALSE
        /\ \/ image' = n /\ error' = error
           \/ error' = TRUE /\ image' = image
  /\ UNCHANGED <<documentVars, mounted, visibleLayerCount, requestId>>

AnyAnswer == \E n \in inFlight : ImageAnswered(n)

\* Mutant: reset keeps the number.
ResetKeepsNumber ==
  /\ image' = 0 /\ error' = FALSE /\ isGenerating' = FALSE
  /\ UNCHANGED <<documentVars, mounted, visibleLayerCount, requestId, inFlight>>

\* reset: a number of its own makes every request in flight an old one.
Reset ==
  /\ requestId < MaxRequests /\ requestId' = requestId + 1
  /\ image' = 0 /\ error' = FALSE /\ isGenerating' = FALSE
  /\ UNCHANGED <<documentVars, mounted, visibleLayerCount, inFlight>>

PreviewNext ==
  \/ AddLayer \/ RemoveLayer \/ DuplicateLayer \/ ReorderLayers \/ SelectLayer
  \/ LoadLayers \/ EditValues \/ SwitchWorkspace \/ Scrub
  \/ Generate \/ AnyAnswer \/ Reset

PreviewSpec == PreviewInit /\ [][PreviewNext]_previewVars

-----------------------------------------------------------------------------
(* Properties *)

\* Every variable has its type, the layers have ids of their own, the selected one
\* is among them, and the scrubber of the viewport never asks for more layers than
\* there are, nor for none of them, whatever was added, removed, loaded or done out
\* of its sight.
PreviewTypeOK ==
  /\ layers \in Seq(Layers) /\ IsInjective(layers)
  /\ selectedLayerId \in ToSet(layers) \cup {NoLayer}
  /\ values \in Values /\ mounted \in BOOLEAN
  /\ visibleLayerCount \in 0..Cardinality(Layers)
  /\ mounted => visibleLayerCount <= Len(layers) /\ (layers # <<>> => visibleLayerCount > 0)
  /\ requestId \in 0..MaxRequests /\ inFlight \subseteq 1..requestId
  /\ isGenerating \in BOOLEAN /\ error \in BOOLEAN /\ image \in 0..requestId

\* The spinner is shown exactly while the latest request is out, whichever of the
\* others were answered, refused or dropped in between: it never sticks.
SpinnerMeansPending == isGenerating <=> requestId \in inFlight /\ requestId # 0
=============================================================================
