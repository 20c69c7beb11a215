-------------------------- MODULE MutationsProofs ---------------------------
(***************************************************************************)
(* Proofs about Mutations for any concepts, titles, links and edits, and   *)
(* for batches of any length.  All but the types and DirtyUntouched assume *)
(* that during a command the user neither commits nor takes an edit back   *)
(* (~Undoing): README says what is lost without that.                      *)
(***************************************************************************)
EXTENDS Mutations, TLAPS

\* What the running command is, by the point it has reached.
CommandInv ==
  /\ pc = "idle" <=> cmd = None
  /\ pc = "batch" => cmd = "apply"
  /\ adopted # None <=> cmd = "reconcile"
  /\ adopted # None => adopted.slug \in DOMAIN outputs

\* The user's steps, by what they do to the vault.
Touches == \E p \in Paths : \E c \in Contents(p) : Touch(p, c) /\ edits' \in Nat
UserCommits == \E p \in Paths : UserCommit(p)

\* The operations of a batch that give one concept a new text, or none.
Puts(slug, text) ==
  /\ Operate /\ Put(slug, text)
  /\ entries'.count = entries.count + 1 /\ entries.links \subseteq entries'.links
  /\ entries'.links \subseteq entries.links \cup {slug}
  /\ deleted' = IF text = None THEN deleted \cup {slug} ELSE deleted

\* Where the parts of such a text come from.
TitleFrom(slug, text) ==
  ~TitleTaken(working, slug, text.title) \/ (working[slug] # None /\ text.title = working[slug].title)
LinksFrom(slug, text) ==
  text.links \subseteq Present(working) \cup {slug}
    \/ (working[slug] # None /\ text.links = working[slug].links)
ForgedFrom(slug, text) ==
  text.forged = {} \/ (working[slug] # None /\ text.forged \subseteq working[slug].forged)
VerifiedFrom(slug, text) ==
  \/ text.verified = {}
  \/ /\ working[slug] # None
     /\ Wording(text) = Wording(working[slug])
     /\ text.verified \subseteq working[slug].verified \cup {Wording(text)}
Wellmade(slug, text) ==
  text # None => /\ TitleFrom(slug, text) /\ LinksFrom(slug, text)
                 /\ ForgedFrom(slug, text) /\ VerifiedFrom(slug, text)

PutSteps ==
  \E slug \in Slugs : \E text \in Documents \cup {None} : Puts(slug, text) /\ Wellmade(slug, text)
RenameSteps == \E old \in Slugs : \E new \in Slugs : Rename(old, new)

-----------------------------------------------------------------------------
\* The kinds of content.
LEMMA Kinds ==
  /\ \A s \in Slugs : Contents(s) = {None} \cup Documents
  /\ Contents("index.md") = {None} \cup Index
  /\ Contents("log.md") = {None} \cup Log
  /\ Contents("note.md") = {None} \cup Note
  /\ Slugs \subseteq Paths /\ {"index.md", "log.md", "note.md"} \subseteq Paths
  /\ \A p \in Paths : p \in Slugs \/ p \in {"index.md", "log.md", "note.md"}
  /\ "index.md" \notin Slugs /\ "log.md" \notin Slugs /\ "note.md" \notin Slugs
BY MutationsAssumption DEF Contents, Paths

\* Every text that is there has links to slugs.
LEMMA LinksOfTexts ==
  \A p \in Texts : \A c \in Contents(p) \ {None} :
    /\ c.links \subseteq Slugs
    /\ \A L \in SUBSET Slugs :
         [c EXCEPT !.links = L] \in Contents(p) /\ [c EXCEPT !.links = L].links = L
<1> SUFFICES ASSUME NEW p \in Texts, NEW c \in Contents(p) \ {None}
             PROVE  /\ c.links \subseteq Slugs
                    /\ \A L \in SUBSET Slugs :
                         [c EXCEPT !.links = L] \in Contents(p) /\ [c EXCEPT !.links = L].links = L
  OBVIOUS
<1>1. CASE p \in Slugs
  <2>1. c \in Documents BY <1>1, Kinds
  <2>2. QED BY <1>1, <2>1, Kinds DEF Documents
<1>2. CASE p = "log.md"
  <2>1. c \in Log BY <1>2, Kinds
  <2>2. QED BY <1>2, <2>1, Kinds DEF Log
<1>3. CASE p = "note.md"
  <2>1. c \in Note BY <1>3, Kinds
  <2>2. QED BY <1>3, <2>1, Kinds DEF Note
<1>4. QED BY <1>1, <1>2, <1>3, Kinds DEF Texts

\* The wording of a concept is one.
LEMMA WordingOfConcept ==
  ASSUME NEW c \in Documents
  PROVE  Wording(c) \in Wordings
BY DEF Wording, Wordings, Documents

\* A relinked concept is a concept that differs in its links only, and is
\* verified for what it says if it was.
LEMMA RelinkedConcept ==
  ASSUME NEW s \in Slugs, NEW c \in Documents, NEW old \in Slugs, NEW new \in Slugs
  PROVE  LET text == Relinked(s, c, old, new)
         IN  /\ text \in Documents
             /\ text.title = c.title /\ text.body = c.body /\ text.forged = c.forged
             /\ text.links = Swapped(c.links, old, new)
             /\ c.verified \subseteq {Wording(c)} => text.verified \subseteq {Wording(text)}
<1>1. PICK linked : linked = [c EXCEPT !.links = Swapped(@, old, new)] OBVIOUS
<1>2. PICK V : V = {[w EXCEPT !.links = Swapped(@, old, new)] : w \in c.verified} OBVIOUS
<1>3. PICK text : text = [linked EXCEPT !.verified = V] OBVIOUS
<1>4. /\ c.links \in SUBSET Slugs /\ c.verified \subseteq Wordings
      /\ c.title \in Titles /\ c.body \in Bodies /\ c.forged \subseteq Managed
  BY DEF Documents
<1>5. ASSUME NEW L \in SUBSET Slugs PROVE Swapped(L, old, new) \in SUBSET Slugs
  BY DEF Swapped
<1>6. V \subseteq Wordings
  <2>1. SUFFICES ASSUME NEW w \in Wordings
                 PROVE  [w EXCEPT !.links = Swapped(@, old, new)] \in Wordings
    BY <1>2, <1>4
  <2>2. w.links \in SUBSET Slugs BY DEF Wordings
  <2>3. QED BY <1>5, <2>2 DEF Wordings
<1>7. /\ linked \in Documents /\ linked.verified = c.verified
      /\ linked.title = c.title /\ linked.body = c.body /\ linked.forged = c.forged
      /\ linked.links = Swapped(c.links, old, new)
  BY <1>1, <1>4, <1>5 DEF Documents
<1>8. text = Relinked(s, c, old, new) BY <1>1, <1>2, <1>3, <1>7 DEF Relinked
<1>9. /\ text \in Documents /\ text.verified = V
      /\ text.title = c.title /\ text.body = c.body /\ text.forged = c.forged
      /\ text.links = Swapped(c.links, old, new)
  BY <1>3, <1>6, <1>7 DEF Documents
<1>10. ASSUME c.verified \subseteq {Wording(c)} PROVE V \subseteq {Wording(text)}
  <2>1. [Wording(c) EXCEPT !.links = Swapped(@, old, new)] = Wording(text)
    BY <1>9 DEF Wording
  <2>2. QED BY <1>2, <1>10, <2>1
<1>11. QED BY <1>8, <1>9, <1>10

\* A relinked text of any kind is one of that kind, with the new links.
LEMMA RelinkedText ==
  ASSUME NEW p \in Texts, NEW c \in Contents(p) \ {None}, NEW old \in Slugs, NEW new \in Slugs
  PROVE  /\ Relinked(p, c, old, new) \in Contents(p)
         /\ Relinked(p, c, old, new).links = Swapped(c.links, old, new)
<1>1. CASE p \in Slugs
  <2>1. c \in Documents BY <1>1, Kinds
  <2>2. QED BY <1>1, <2>1, RelinkedConcept, Kinds
<1>2. CASE p \notin Slugs
  <2>1. PICK K : K = Swapped(c.links, old, new) OBVIOUS
  <2>2. K \in SUBSET Slugs BY <2>1, LinksOfTexts DEF Swapped
  <2>3. Relinked(p, c, old, new) = [c EXCEPT !.links = K] BY <1>2, <2>1 DEF Relinked
  <2>4. QED BY <2>1, <2>2, <2>3, LinksOfTexts
<1>3. QED BY <1>1, <1>2

\* Every operation but a rename gives one concept a text, made from its own.
LEMMA OperationSteps ==
  ASSUME TypeOK, Operation
  PROVE  PutSteps \/ RenameSteps
<1>1. ASSUME NEW s \in Slugs, NEW t \in Titles, NEW b \in Bodies, NEW L \in Resolved(s),
             Create(s, t, b, L)
      PROVE  PutSteps
  <2>1. PICK text : text = [title |-> t, body |-> b, links |-> L, verified |-> {}, forged |-> {}]
    OBVIOUS
  <2>2. text \in Documents BY <2>1, MutationsAssumption DEF Documents, Resolved
  <2>3. text # None BY <2>2, NoneAssumption
  <2>4. Puts(s, text) BY <1>1, <2>1, <2>3 DEF Create, Puts, Entry
  <2>5. Wellmade(s, text)
    BY <1>1, <2>1 DEF Create, Wellmade, TitleFrom, LinksFrom, ForgedFrom, VerifiedFrom, Resolved
  <2>6. QED BY <2>2, <2>4, <2>5 DEF PutSteps
<1>2. ASSUME NEW s \in Slugs, NEW t \in Titles, NEW b \in Bodies, NEW L \in Resolved(s),
             Update(s, t, b, L)
      PROVE  PutSteps
  <2>1. PICK before : before = working[s] OBVIOUS
  <2>2. before \in Documents /\ before # None BY <1>2, <2>1 DEF Update, TypeOK
  <2>3. PICK after : after = [before EXCEPT !.title = t, !.body = b, !.links = L] OBVIOUS
  <2>4. L \subseteq Slugs BY MutationsAssumption DEF Resolved
  <2>5. /\ after \in Documents /\ after.title = t /\ after.links = L /\ after.body = b
        /\ after.verified = before.verified /\ after.forged = before.forged
    BY <2>2, <2>3, <2>4 DEF Documents
  <2>6. PICK text : text = Updated(before, after) OBVIOUS
  <2>7. /\ text \in Documents /\ text.title = t /\ text.links = L /\ text.body = b
        /\ text.forged \subseteq before.forged
        /\ text.verified = {} \/ (text.verified = before.verified
                                   /\ Wording(text) = Wording(before))
    <3>1. CASE MeaningfulChange(before, after)
      <4>1. text = [after EXCEPT !.verified = {}, !.forged = @ \ {"generated", "verified"}]
        BY <2>6, <3>1 DEF Updated
      <4>2. QED BY <2>5, <4>1 DEF Documents
    <3>2. CASE ~MeaningfulChange(before, after)
      <4>1. text = after BY <2>6, <3>2 DEF Updated
      <4>2. QED BY <2>5, <3>2, <4>1 DEF MeaningfulChange, Wording
    <3>3. QED BY <3>1, <3>2
  <2>8. text # None BY <2>7, NoneAssumption
  <2>9. Puts(s, text) BY <1>2, <2>1, <2>3, <2>6, <2>8 DEF Update, Puts, Entry
  <2>10. TitleFrom(s, text) BY <1>2, <2>7 DEF Update, TitleFrom
  <2>11. LinksFrom(s, text) BY <2>7 DEF LinksFrom, Resolved
  <2>12. ForgedFrom(s, text) /\ VerifiedFrom(s, text)
    BY <2>1, <2>2, <2>7 DEF ForgedFrom, VerifiedFrom
  <2>13. QED BY <2>7, <2>9, <2>10, <2>11, <2>12 DEF PutSteps, Wellmade
<1>3. ASSUME NEW s \in Slugs, Verify(s) PROVE PutSteps
  <2>1. PICK before : before = working[s] OBVIOUS
  <2>2. before \in Documents /\ before # None BY <1>3, <2>1 DEF Verify, TypeOK
  <2>3. PICK text : text = [before EXCEPT !.verified = @ \cup {Wording(before)}]
    OBVIOUS
  <2>4. /\ text \in Documents /\ text.title = before.title /\ text.links = before.links
        /\ text.body = before.body /\ text.forged = before.forged
        /\ text.verified = before.verified \cup {Wording(before)}
    BY <2>2, <2>3, WordingOfConcept DEF Documents
  <2>5. text # None BY <2>4, NoneAssumption
  <2>6. Puts(s, text) BY <1>3, <2>1, <2>3, <2>5 DEF Verify, Puts, Entry
  <2>7. Wellmade(s, text)
    BY <2>1, <2>2, <2>4 DEF Wellmade, TitleFrom, LinksFrom, ForgedFrom, VerifiedFrom, Wording
  <2>8. QED BY <2>4, <2>6, <2>7 DEF PutSteps
<1>4. ASSUME NEW s \in Slugs, Delete(s) PROVE PutSteps
  <2>1. Puts(s, None) BY <1>4 DEF Delete, Puts, Entry
  <2>2. QED BY <2>1 DEF PutSteps, Wellmade
<1>5. ASSUME NEW old \in Slugs, NEW new \in Slugs, Rename(old, new) PROVE RenameSteps
  BY <1>5 DEF RenameSteps
<1>6. QED BY <1>1, <1>2, <1>3, <1>4, <1>5 DEF Operation
-----------------------------------------------------------------------------
\* What a rename finds at a path, once the concept is moved, and what it leaves.
Found(old, new, p) ==
  IF p = old THEN None ELSE IF p = new THEN working[old] ELSE Current(outputs, p)
Relinks(old, new) ==
  {p \in Texts \ {old} : Found(old, new, p) # None /\ old \in Found(old, new, p).links}
Left(old, new, p) ==
  IF p \in Relinks(old, new) THEN Relinked(p, Found(old, new, p), old, new) ELSE Found(old, new, p)

\* A view of the concepts after the move and after the relinking.
MovedTo(view, old, new, s) == IF s = old THEN None ELSE IF s = new THEN working[old] ELSE view[s]
ViewAfter(view, old, new, s) ==
  IF s \in Relinks(old, new) /\ MovedTo(view, old, new, s) # None
  THEN Left(old, new, s) ELSE MovedTo(view, old, new, s)

\* A rename, without its intermediate values.
LEMMA RenameEffect ==
  ASSUME TypeOK, NEW old \in Slugs, NEW new \in Slugs, Rename(old, new)
  PROVE  /\ DOMAIN outputs' = DOMAIN outputs \cup {old, new} \cup Relinks(old, new)
         /\ \A p \in DOMAIN outputs' : outputs'[p] = Left(old, new, p)
         /\ working' = [s \in Slugs |-> ViewAfter(working, old, new, s)]
         /\ planned' = [s \in Slugs |-> ViewAfter(planned, old, new, s)]
         /\ working[old] \in Documents /\ working[old] # None
         /\ old # new /\ working[new] = None
<1>1. old # new /\ working[old] # None /\ working[new] = None BY DEF Rename
<1>2. PICK text : text = working[old] OBVIOUS
<1>3. text \in Documents BY <1>1, <1>2 DEF TypeOK
<1>4. PICK written : written = With(With(outputs, new, text), old, None) OBVIOUS
<1>5. PICK L : L = Linking(written, old) OBVIOUS
<1>6. /\ DOMAIN written = DOMAIN outputs \cup {old, new}
      /\ \A p \in DOMAIN written : written[p] = IF p = old THEN None ELSE
                                      IF p = new THEN text ELSE outputs[p]
  BY <1>4 DEF With
<1>7. \A p \in Paths : Current(written, p) = Found(old, new, p)
  BY <1>1, <1>2, <1>6 DEF Current, Found
<1>8. L = Relinks(old, new)
  BY <1>5, <1>7 DEF Linking, Relinks, Texts
<1>9. old \notin L /\ L \subseteq Paths BY <1>8 DEF Relinks, Texts
<1>10. outputs' = Onto([p \in L |-> Relinked(p, Current(written, p), old, new)], written)
  BY <1>2, <1>4, <1>5 DEF Rename
<1>11. /\ working' = Following(Moved(working, text, old, new), written, old, new)
       /\ planned' = Following(Moved(planned, text, old, new), written, old, new)
  BY <1>2, <1>4 DEF Rename
<1>12. DOMAIN outputs' = DOMAIN outputs \cup {old, new} \cup L
  BY <1>6, <1>10 DEF Onto
<1>13. ASSUME NEW p \in DOMAIN outputs' PROVE outputs'[p] = Left(old, new, p)
  <2>1. p \in Paths BY <1>9, <1>12, Kinds DEF TypeOK
  <2>2. outputs'[p] = IF p \in L THEN Relinked(p, Current(written, p), old, new) ELSE written[p]
    BY <1>6, <1>10, <1>12 DEF Onto
  <2>3. p \notin L => written[p] = Current(written, p)
    BY <1>6, <1>12 DEF Current
  <2>4. QED BY <1>7, <1>8, <2>1, <2>2, <2>3 DEF Left
<1>14. ASSUME NEW view, DOMAIN view = Slugs
       PROVE  Following(Moved(view, text, old, new), written, old, new)
                = [s \in Slugs |-> ViewAfter(view, old, new, s)]
  <2>1. \A s \in Slugs : Moved(view, text, old, new)[s] = MovedTo(view, old, new, s)
    BY <1>1, <1>2, <1>14 DEF Moved, MovedTo
  <2>2. \A s \in L : Relinked(s, Current(written, s), old, new) = Left(old, new, s)
    BY <1>7, <1>8, <1>9 DEF Left
  <2>3. QED BY <1>5, <1>8, <2>1, <2>2 DEF Following, ViewAfter
<1>15. DOMAIN working = Slugs /\ DOMAIN planned = Slugs BY DEF TypeOK
<1>16. working' = [s \in Slugs |-> ViewAfter(working, old, new, s)] BY <1>11, <1>14, <1>15
<1>17. planned' = [s \in Slugs |-> ViewAfter(planned, old, new, s)] BY <1>11, <1>14, <1>15
<1>18. QED BY <1>1, <1>2, <1>3, <1>8, <1>12, <1>13, <1>16, <1>17

\* What it finds and leaves are contents of the same kinds.
LEMMA RenameKinds ==
  ASSUME TypeOK, NEW old \in Slugs, NEW new \in Slugs, working[old] \in Documents
  PROVE  /\ \A p \in Paths : Found(old, new, p) \in Contents(p) /\ Left(old, new, p) \in Contents(p)
         /\ \A s \in Relinks(old, new) \cap Slugs :
              Found(old, new, s) \in Documents /\ Left(old, new, s) \in Documents
<1>1. ASSUME NEW p \in Paths PROVE Found(old, new, p) \in Contents(p)
  BY Kinds DEF Found, Current, TypeOK
<1>2. ASSUME NEW p \in Paths PROVE Left(old, new, p) \in Contents(p)
  <2>1. CASE p \in Relinks(old, new)
    <3>1. PICK c : c = Found(old, new, p) OBVIOUS
    <3>2. p \in Texts /\ c \in Contents(p) \ {None} BY <1>1, <2>1, <3>1 DEF Relinks
    <3>3. Left(old, new, p) = Relinked(p, c, old, new) BY <2>1, <3>1 DEF Left
    <3>4. QED BY <3>2, <3>3, RelinkedText
  <2>2. CASE p \notin Relinks(old, new) BY <1>1, <2>2 DEF Left
  <2>3. QED BY <2>1, <2>2
<1>3. ASSUME NEW s \in Relinks(old, new) \cap Slugs
      PROVE  Found(old, new, s) \in Documents /\ Left(old, new, s) \in Documents
  <2>1. Found(old, new, s) # None BY DEF Relinks
  <2>2. Found(old, new, s) \in Documents BY <1>1, <2>1, Kinds
  <2>3. QED BY <2>2, RelinkedConcept DEF Left
<1>4. QED BY <1>1, <1>2, <1>3

-----------------------------------------------------------------------------
\* The user's steps touch a file, or commit one.
LEMMA UserSteps ==
  ASSUME TypeOK, User
  PROVE  Touches \/ UserCommits
<1>1. edits + 1 \in Nat /\ edits \in Nat BY DEF TypeOK
<1>2. ASSUME NEW s \in Slugs, NEW t \in Titles, NEW b \in Bodies, NEW L \in LinkSets,
             NEW F \in {{}, Managed}, WriteConcept(s, t, b, L, F)
      PROVE  Touches
  <2>1. PICK c : c = [title |-> t, body |-> b, links |-> L,
                      verified |-> IF work[s] = None THEN {} ELSE work[s].verified,
                      forged |-> IF work[s] = None THEN {} ELSE work[s].forged \cup F]
    OBVIOUS
  <2>2. work[s] = None \/ work[s] \in Documents BY Kinds DEF TypeOK
  <2>3. c \in Documents BY <2>1, <2>2, MutationsAssumption DEF Documents
  <2>4. Touch(s, c) /\ edits' = edits + 1 BY <1>2, <2>1 DEF WriteConcept, Edit
  <2>5. QED BY <1>1, <2>3, <2>4, Kinds DEF Touches
<1>3. ASSUME NEW s \in Slugs, EditIndex(s) PROVE Touches
  <2>1. PICK c : c = [work["index.md"] EXCEPT ![s] = None] OBVIOUS
  <2>2. work["index.md"] \in Index BY <1>3, Kinds DEF EditIndex, TypeOK
  <2>3. c \in Index BY <2>1, <2>2 DEF Index
  <2>4. Touch("index.md", c) /\ edits' = edits + 1 BY <1>3, <2>1 DEF EditIndex, Edit
  <2>5. QED BY <1>1, <2>3, <2>4, Kinds DEF Touches
<1>4. ASSUME NEW p \in {"log.md", "note.md"}, NEW L \in LinkSets, EditLinks(p, L) PROVE Touches
  <2>1. PICK c : c = [work[p] EXCEPT !.links = L] OBVIOUS
  <2>2. p \in Texts /\ p \in Paths BY Kinds DEF Texts
  <2>3. work[p] \in Contents(p) \ {None} BY <1>4, <2>2 DEF EditLinks, TypeOK
  <2>4. c \in Contents(p) BY <2>1, <2>2, <2>3, LinksOfTexts, MutationsAssumption
  <2>5. Touch(p, c) /\ edits' = edits + 1 BY <1>4, <2>1 DEF EditLinks, Edit
  <2>6. QED BY <1>1, <2>2, <2>4, <2>5 DEF Touches
<1>5. ASSUME NEW p \in Paths, Remove(p) PROVE Touches
  <2>1. None \in Contents(p) BY Kinds
  <2>2. Touch(p, None) /\ edits' = edits + 1 BY <1>5 DEF Remove, Edit
  <2>3. QED BY <1>1, <2>1, <2>2 DEF Touches
<1>6. ASSUME NEW p \in Paths, Discard(p) PROVE Touches
  <2>1. head[p] \in Contents(p) BY DEF TypeOK
  <2>2. Touch(p, head[p]) /\ edits' = edits BY <1>6 DEF Discard
  <2>3. QED BY <1>1, <2>1, <2>2 DEF Touches
<1>7. QED BY <1>2, <1>3, <1>4, <1>5, <1>6 DEF User, UserCommits

\* All steps, with the batch's operations and the user's in two kinds each.
Reconciles == \E s \in Slugs : Reconcile(s)
LEMMA Steps ==
  ASSUME TypeOK, [Next]_vars
  PROVE  \/ Begin \/ PutSteps \/ RenameSteps \/ Render
         \/ Reconciles \/ RebuildIndex \/ Initialize
         \/ Execute \/ Refuse \/ Touches \/ UserCommits \/ UNCHANGED vars
BY OperationSteps, UserSteps DEF Next, Apply, Reconciles

-----------------------------------------------------------------------------
\* A vault to begin with, and nothing under way.
LEMMA TypeInit == Init => TypeOK /\ CommandInv
BY VaultsAssumption, NoneAssumption, Kinds
   DEF Init, TypeOK, CommandInv, NoConcepts, NoFiles, NoEntries, Commands

LEMMA TypeNext == TypeOK /\ CommandInv /\ [Next]_vars => TypeOK' /\ CommandInv'
<1> SUFFICES ASSUME TypeOK, CommandInv, [Next]_vars PROVE TypeOK' /\ CommandInv'
  OBVIOUS
<1>0. /\ None \notin Documents
      /\ None # "apply" /\ None # "reconcile" /\ None # "rebuild-index" /\ None # "init"
  BY NoneAssumption DEF Commands
<1>1. CASE Begin
  BY <1>0, <1>1, Kinds DEF Begin, Enter, vault, TypeOK, CommandInv, NoEntries, NoFiles, Concepts, Commands
<1>2. CASE PutSteps
  <2>1. PICK slug \in Slugs, text \in Documents \cup {None} : Puts(slug, text)
    BY <1>2 DEF PutSteps
  <2>2. QED BY <2>1, Kinds DEF Puts, Operate, Put, With, vault, TypeOK, CommandInv
<1>3. CASE RenameSteps
  <2>1. PICK old \in Slugs, new \in Slugs : Rename(old, new) BY <1>3 DEF RenameSteps
  <2>2. /\ DOMAIN outputs' = DOMAIN outputs \cup {old, new} \cup Relinks(old, new)
        /\ \A p \in DOMAIN outputs' : outputs'[p] = Left(old, new, p)
        /\ working' = [s \in Slugs |-> ViewAfter(working, old, new, s)]
        /\ planned' = [s \in Slugs |-> ViewAfter(planned, old, new, s)]
        /\ working[old] \in Documents
    BY <2>1, RenameEffect
  <2>3. /\ \A p \in Paths : Left(old, new, p) \in Contents(p)
        /\ \A s \in Relinks(old, new) \cap Slugs : Left(old, new, s) \in Documents
    BY <2>2, RenameKinds
  <2>4. Relinks(old, new) \subseteq Paths BY DEF Relinks, Texts
  <2>5. \A s \in Slugs : /\ ViewAfter(working, old, new, s) \in Documents \cup {None}
                         /\ ViewAfter(planned, old, new, s) \in Documents \cup {None}
    BY <2>2, <2>3 DEF ViewAfter, MovedTo, TypeOK
  <2>6. DOMAIN outputs' \subseteq Paths BY <2>2, <2>4, Kinds DEF TypeOK
  <2>7. /\ entries'.count \in Nat /\ entries'.links \subseteq Slugs /\ deleted' = deleted
        /\ ops' = ops + 1
        /\ UNCHANGED <<vault, pc, cmd, adopted, touched, commands, edits, gits>>
    BY <2>1 DEF Rename, Operate, Entry, TypeOK
  <2>8. QED BY <2>2, <2>3, <2>5, <2>6, <2>7 DEF TypeOK, CommandInv, vault
<1>4. CASE Render
  <2>1. PICK log : log = Logged(Current(outputs, "log.md"), entries) OBVIOUS
  <2>2. Current(outputs, "log.md") \in Log BY <1>4, Kinds DEF Render, Current, TypeOK
  <2>3. log \in Log BY <2>1, <2>2 DEF Logged, Log, TypeOK
  <2>4. PICK index : index = IndexOf(planned) OBVIOUS
  <2>5. index \in Index BY <2>4 DEF IndexOf, Index, TypeOK, Documents
  <2>6. outputs' = With(With(outputs, "log.md", log), "index.md", index)
    BY <1>4, <2>1, <2>4 DEF Render
  <2>7. /\ DOMAIN outputs' = DOMAIN outputs \cup {"log.md", "index.md"}
        /\ \A p \in DOMAIN outputs' : outputs'[p] \in Contents(p)
    BY <2>3, <2>5, <2>6, Kinds DEF With, TypeOK
  <2>8. QED BY <1>4, <2>7, Kinds DEF Render, vault, TypeOK, CommandInv
<1>5. CASE Reconciles
  <2>1. PICK slug \in Slugs : Reconcile(slug) BY <1>5 DEF Reconciles
  <2>2. PICK text, after, log :
          /\ text = Restored(head[slug], work[slug])
          /\ after = [Concepts(head) EXCEPT ![slug] = text]
          /\ log = Logged(work["log.md"], [count |-> 1, links |-> {slug}])
    OBVIOUS
  <2>3. head[slug] \in Documents /\ work[slug] \in Documents /\ work["log.md"] \in Log
    BY <2>1, Kinds DEF Reconcile, TypeOK
  <2>4. text \in Documents
    <3>1. CASE MeaningfulChange(head[slug], work[slug])
      BY <2>2, <2>3, <3>1 DEF Restored, Documents
    <3>2. CASE ~MeaningfulChange(head[slug], work[slug])
      BY <2>2, <2>3, <3>2 DEF Restored, Documents
    <3>3. QED BY <3>1, <3>2
  <2>5. log \in Log BY <2>2, <2>3 DEF Logged, Log
  <2>6. after = [s \in Slugs |-> IF s = slug THEN text ELSE head[s]] BY <2>2 DEF Concepts
  <2>7. \A s \in Slugs : after[s] \in Documents \cup {None} BY <2>4, <2>6, Kinds DEF TypeOK
  <2>8. PICK index : index = IndexOf(after) OBVIOUS
  <2>9. index \in Index BY <2>7, <2>8 DEF IndexOf, Index, Documents
  <2>10. outputs' = With(With(With(NoFiles, slug, text), "index.md", index), "log.md", log)
    BY <2>1, <2>2, <2>8 DEF Reconcile
  <2>11. /\ DOMAIN outputs' = {slug, "index.md", "log.md"}
         /\ \A p \in DOMAIN outputs' : outputs'[p] \in Contents(p)
    BY <2>4, <2>5, <2>9, <2>10, Kinds DEF With, NoFiles
  <2>12. /\ working' = Concepts(work) /\ planned' = after
         /\ adopted' = [slug |-> slug, text |-> work[slug]]
         /\ Enter("reconcile", "execute")
    BY <2>1, <2>2 DEF Reconcile
  <2>13. adopted' \in Adoptions /\ adopted'.slug = slug
    BY <2>3, <2>12 DEF Adoptions
  <2>14. adopted' # None BY <2>13, NoneAssumption
  <2>15. QED BY <1>0, <2>6, <2>7, <2>11, <2>12, <2>13, <2>14, Kinds
             DEF Enter, vault, TypeOK, CommandInv, NoEntries, Concepts, Commands
<1>6. CASE RebuildIndex
  <2>1. PICK index : index = IndexOf(Concepts(head)) OBVIOUS
  <2>2. index \in Index BY <2>1, Kinds DEF IndexOf, Concepts, Index, TypeOK, Documents
  <2>3. outputs' = With(NoFiles, "index.md", index) BY <1>6, <2>1 DEF RebuildIndex
  <2>4. DOMAIN outputs' = {"index.md"} /\ outputs'["index.md"] \in Contents("index.md")
    BY <2>2, <2>3, Kinds DEF With, NoFiles
  <2>5. QED BY <1>0, <1>6, <2>4, Kinds
            DEF RebuildIndex, Enter, vault, TypeOK, CommandInv, NoEntries, Concepts, Commands
<1>7. CASE Initialize
  <2>1. PICK skeleton : skeleton = Skeleton OBVIOUS
  <2>2. /\ DOMAIN skeleton = Derived
        /\ \A p \in Derived : skeleton[p] \in Contents(p)
    BY <2>1, Kinds DEF Skeleton, With, NoFiles, NoConcepts, IndexOf, Index, Log, Derived
  <2>3. outputs' = [p \in {q \in Derived : work[q] = None} |-> skeleton[p]]
    BY <1>7, <2>1 DEF Initialize
  <2>4. DOMAIN outputs' \subseteq Paths /\ \A p \in DOMAIN outputs' : outputs'[p] \in Contents(p)
    BY <2>2, <2>3 DEF Derived, Paths
  <2>5. QED BY <1>0, <1>7, <2>4, Kinds
            DEF Initialize, Enter, vault, TypeOK, CommandInv, NoEntries, Concepts, Commands
<1>8. CASE Execute
  <2>1. \A p \in Paths : Over(work)[p] \in Contents(p) /\ Over(head)[p] \in Contents(p)
    BY DEF Over, TypeOK
  <2>2. QED BY <1>0, <1>8, <2>1
            DEF Execute, Leave, Over, TypeOK, CommandInv, NoConcepts, NoFiles, NoEntries
<1>9. CASE Refuse
  BY <1>0, <1>9 DEF Refuse, Leave, vault, TypeOK, CommandInv, NoConcepts, NoFiles, NoEntries
<1>10. CASE Touches
  BY <1>10 DEF Touches, Touch, views, TypeOK, CommandInv
<1>11. CASE UserCommits
  BY <1>11 DEF UserCommits, UserCommit, views, TypeOK, CommandInv
<1>12. CASE UNCHANGED vars
  BY <1>12 DEF vars, vault, views, TypeOK, CommandInv
<1>13. QED
  BY <1>1, <1>2, <1>3, <1>4, <1>5, <1>6, <1>7, <1>8, <1>9, <1>10, <1>11, <1>12, Steps

\* Every variable of Mutations keeps its type: whatever sequence of operations
\* and link rewritings, the files asked for are of their kinds.
THEOREM MutationsTypeCorrect == Spec => []TypeOK
<1>1. TypeOK /\ CommandInv => TypeOK OBVIOUS
<1>2. QED BY <1>1, TypeInit, TypeNext, PTL DEF Spec

-----------------------------------------------------------------------------
\* Who writes the vault.
LEMMA Footprint ==
  ASSUME TypeOK, [Next]_vars
  PROVE  /\ work' = work \/ Execute \/ Touches
         /\ UNCHANGED <<head, committer>> \/ Execute \/ UserCommits
<1>1. CASE Begin \/ Reconciles \/ RebuildIndex \/ Initialize
  BY <1>1 DEF Begin, Reconciles, Reconcile, RebuildIndex, Initialize, Enter, vault
<1>2. CASE PutSteps \/ RenameSteps \/ Render
  BY <1>2 DEF PutSteps, Puts, RenameSteps, Rename, Operate, Render, vault
<1>3. CASE Refuse \/ Touches \/ UserCommits \/ UNCHANGED vars
  BY <1>3 DEF Refuse, Touches, Touch, UserCommits, UserCommit, vars, vault
<1>4. QED BY <1>1, <1>2, <1>3, Steps

\* A commit of a command is an execution.
LEMMA CommitsExecute == TypeOK /\ [Next]_vars /\ ManagedCommit => Execute
BY Footprint DEF ManagedCommit, UserCommits, UserCommit

LEMMA ExecuteLaysOver ==
  ASSUME Execute
  PROVE  /\ \A p \in Paths : work'[p] = IF p \in DOMAIN outputs THEN outputs[p] ELSE work[p]
         /\ \A p \in Paths : head'[p] = IF p \in DOMAIN outputs THEN outputs[p] ELSE head[p]
         /\ DOMAIN work' = Paths /\ DOMAIN head' = Paths
         /\ committer' = cmd /\ pc = "execute"
BY DEF Execute, Over

\* A command leaves a file with uncommitted changes as it is, and adopts only
\* the edit that it has read, even if the user commits or takes edits back.
THEOREM DirtyAlwaysUntouched == Spec => DirtyUntouched
<1>1. TypeOK /\ CommandInv /\ [Next]_vars =>
        (ManagedCommit =>
           \A p \in Dirty : IF Adopts(p) THEN work[p] = adopted.text
                            ELSE work'[p] = work[p] /\ head'[p] = head[p])
  <2> SUFFICES ASSUME TypeOK, CommandInv, [Next]_vars, ManagedCommit, NEW p \in Dirty
               PROVE  IF Adopts(p) THEN work[p] = adopted.text
                      ELSE work'[p] = work[p] /\ head'[p] = head[p]
    OBVIOUS
  <2>1. Execute BY CommitsExecute
  <2>2. p \in Paths BY DEF Dirty
  <2>3. CASE Adopts(p)
    <3>1. p \in DOMAIN outputs BY <2>3 DEF Adopts, CommandInv
    <3>2. QED BY <2>1, <2>3, <3>1 DEF Execute
  <2>4. CASE ~Adopts(p)
    <3>1. p \notin DOMAIN outputs BY <2>1, <2>4 DEF Execute
    <3>2. QED BY <2>1, <2>2, <2>4, <3>1, ExecuteLaysOver
  <2>5. QED BY <2>3, <2>4
<1>2. QED BY <1>1, TypeInit, TypeNext, PTL DEF Spec, DirtyUntouched

-----------------------------------------------------------------------------
\* If the user only goes on editing during a command, what was touched is dirty.
TouchedInv == touched \subseteq Dirty /\ (pc = "idle" => touched = {})

LEMMA TouchedInit == Init => TouchedInv
BY DEF Init, TouchedInv

LEMMA TouchedNext ==
  ~Undoing /\ TypeOK /\ CommandInv /\ TouchedInv /\ [Next]_vars => TouchedInv'
<1> SUFFICES ASSUME ~Undoing, TypeOK, CommandInv, TouchedInv, [Next]_vars PROVE TouchedInv'
  OBVIOUS
<1>1. CASE Begin \/ Reconciles \/ RebuildIndex \/ Initialize
  BY <1>1 DEF Begin, Reconciles, Reconcile, RebuildIndex, Initialize, Enter, TouchedInv
<1>2. CASE PutSteps \/ RenameSteps \/ Render
  BY <1>2 DEF PutSteps, Puts, RenameSteps, Rename, Operate, Render, vault, TouchedInv, Dirty
<1>3. CASE Execute \/ Refuse
  BY <1>3 DEF Execute, Refuse, Leave, TouchedInv
<1>4. CASE Touches
  <2>0. PICK p \in Paths : \E c \in Contents(p) : Touch(p, c) BY <1>4 DEF Touches
  <2>1. PICK c \in Contents(p) : Touch(p, c) BY <2>0
  <2>2. CASE pc = "idle" BY <2>1, <2>2 DEF Touch, TouchedInv
  <2>3. CASE pc # "idle"
    <3>1. /\ c # head[p] /\ touched' = touched \cup {p} /\ head' = head
          /\ work' = [work EXCEPT ![p] = c] /\ pc' = pc
      BY <2>1, <2>3 DEF Touch, May
    <3>2. QED BY <2>3, <3>1 DEF TouchedInv, Dirty, TypeOK
  <2>4. QED BY <2>2, <2>3
<1>5. CASE UserCommits
  BY <1>5 DEF UserCommits, UserCommit, May, TouchedInv
<1>6. CASE UNCHANGED vars
  BY <1>6 DEF vars, vault, TouchedInv, Dirty
<1>7. QED BY <1>1, <1>2, <1>3, <1>4, <1>5, <1>6, Steps

-----------------------------------------------------------------------------
\* CandidatesAgree, and what no operation has touched is planned as committed.
ViewsInv ==
  /\ CandidatesAgree
  /\ cmd = "apply" => \A s \in Slugs \ DOMAIN outputs : planned[s] = head[s]

\* What a rename leaves is what its outputs make of the working tree.
LEMMA RenameLaid ==
  ASSUME TypeOK, NEW old \in Slugs, NEW new \in Slugs, Rename(old, new)
  PROVE  \A p \in Paths : Over(work)'[p] = Left(old, new, p)
<1> SUFFICES ASSUME NEW p \in Paths PROVE Over(work)'[p] = Left(old, new, p)
  OBVIOUS
<1>1. /\ DOMAIN outputs' = DOMAIN outputs \cup {old, new} \cup Relinks(old, new)
      /\ \A q \in DOMAIN outputs' : outputs'[q] = Left(old, new, q)
  BY RenameEffect
<1>2. work' = work BY DEF Rename, Operate, vault
<1>3. CASE p \in DOMAIN outputs' BY <1>1, <1>3 DEF Over
<1>4. CASE p \notin DOMAIN outputs'
  <2>1. Over(work)'[p] = work[p] BY <1>2, <1>4 DEF Over
  <2>2. Left(old, new, p) = work[p] BY <1>1, <1>4 DEF Left, Found, Current
  <2>3. QED BY <2>1, <2>2
<1>5. QED BY <1>3, <1>4

\* A view that agrees with the outputs about a concept does so after a rename.
LEMMA RenamedView ==
  ASSUME NEW view, NEW old \in Slugs, NEW new \in Slugs, NEW s \in Slugs,
         working[old] # None, view[s] = Current(outputs, s)
  PROVE  ViewAfter(view, old, new, s) = Left(old, new, s)
<1>1. MovedTo(view, old, new, s) = Found(old, new, s) BY DEF MovedTo, Found
<1>2. s \in Relinks(old, new) => Found(old, new, s) # None BY DEF Relinks
<1>3. QED BY <1>1, <1>2 DEF ViewAfter, Left

LEMMA ViewsInit == Init => ViewsInv
BY NoneAssumption DEF Init, ViewsInv, CandidatesAgree, Commands

LEMMA ViewsNext ==
  ~Undoing /\ TypeOK /\ CommandInv /\ TouchedInv /\ ViewsInv /\ [Next]_vars => ViewsInv'
<1> SUFFICES ASSUME ~Undoing, TypeOK, CommandInv, TouchedInv, ViewsInv, [Next]_vars
             PROVE  ViewsInv'
  OBVIOUS
<1>1. CASE cmd' # "apply" BY <1>1 DEF ViewsInv, CandidatesAgree
<1>2. CASE Begin
  BY <1>2 DEF Begin, Enter, vault, ViewsInv, CandidatesAgree, Over, NoFiles, Concepts, Paths
<1>3. CASE PutSteps
  <2>1. PICK slug \in Slugs, text \in Documents \cup {None} : Puts(slug, text)
    BY <1>3 DEF PutSteps
  <2>2. /\ working' = [working EXCEPT ![slug] = text] /\ planned' = [planned EXCEPT ![slug] = text]
        /\ DOMAIN outputs' = DOMAIN outputs \cup {slug}
        /\ \A p \in DOMAIN outputs' : outputs'[p] = IF p = slug THEN text ELSE outputs[p]
        /\ UNCHANGED <<work, head, cmd, touched>>
    BY <2>1 DEF Puts, Operate, Put, With, vault
  <2>3. cmd = "apply" BY <2>1 DEF Puts, Operate, CommandInv
  <2>4. QED BY <2>2, <2>3, Kinds DEF ViewsInv, CandidatesAgree, Over, Dirty, TypeOK
<1>4. CASE RenameSteps
  <2>1. PICK old \in Slugs, new \in Slugs : Rename(old, new) BY <1>4 DEF RenameSteps
  <2>2. cmd = "apply" /\ UNCHANGED <<work, head, cmd, touched>>
    BY <2>1 DEF Rename, Operate, CommandInv, vault
  <2>3. /\ DOMAIN outputs' = DOMAIN outputs \cup {old, new} \cup Relinks(old, new)
        /\ working' = [s \in Slugs |-> ViewAfter(working, old, new, s)]
        /\ planned' = [s \in Slugs |-> ViewAfter(planned, old, new, s)]
        /\ working[old] # None
        /\ \A p \in DOMAIN outputs' : outputs'[p] = Left(old, new, p)
    BY <2>1, RenameEffect
  <2>4. \A p \in Paths : Over(work)'[p] = Left(old, new, p) BY <2>1, RenameLaid
  <2>5. ASSUME NEW s \in Slugs \ touched PROVE working'[s] = Over(work)'[s]
    <3>1. working[s] = Current(outputs, s)
      BY <2>2, Kinds DEF ViewsInv, CandidatesAgree, Over, Current
    <3>2. QED BY <2>3, <2>4, <3>1, RenamedView, Kinds
  <2>6. ASSUME NEW s \in Slugs \ touched, s \notin Dirty PROVE planned'[s] = Over(head)'[s]
    <3>1. work[s] = head[s] BY <2>6, Kinds DEF Dirty
    <3>2. planned[s] = Current(outputs, s)
      BY <2>2, <2>6, <3>1, Kinds DEF ViewsInv, CandidatesAgree, Over, Current
    <3>3. planned'[s] = Over(work)'[s] BY <2>3, <2>4, <3>2, RenamedView, Kinds
    <3>4. Over(work)'[s] = Over(head)'[s] BY <2>2, <3>1, Kinds DEF Over
    <3>5. QED BY <3>3, <3>4
  <2>7. ASSUME NEW s \in Slugs \ DOMAIN outputs' PROVE planned'[s] = head'[s]
    <3>1. s \notin DOMAIN outputs /\ s \notin Relinks(old, new) /\ s # old /\ s # new BY <2>3
    <3>2. planned'[s] = planned[s] BY <2>3, <3>1 DEF ViewAfter, MovedTo
    <3>3. QED BY <2>2, <3>1, <3>2 DEF ViewsInv
  <2>8. Dirty' = Dirty BY <2>2 DEF Dirty
  <2>9. QED BY <2>2, <2>5, <2>6, <2>7, <2>8 DEF ViewsInv, CandidatesAgree
<1>5. CASE Render
  <2>1. /\ DOMAIN outputs' = DOMAIN outputs \cup {"log.md", "index.md"}
        /\ \A s \in Slugs \cap DOMAIN outputs : outputs'[s] = outputs[s]
        /\ UNCHANGED <<work, head, cmd, touched, working, planned>>
    BY <1>5, Kinds DEF Render, With, vault
  <2>2. \A s \in Slugs : Over(work)'[s] = Over(work)[s] /\ Over(head)'[s] = Over(head)[s]
    BY <2>1, Kinds DEF Over
  <2>3. QED BY <2>1, <2>2, Kinds DEF ViewsInv, CandidatesAgree, Dirty
<1>6. CASE Reconciles \/ RebuildIndex \/ Initialize \/ Execute \/ Refuse
  BY <1>1, <1>6, NoneAssumption
     DEF Reconciles, Reconcile, RebuildIndex, Initialize, Enter, Execute, Refuse, Leave, Commands
<1>7. CASE Touches
  <2>0. PICK p \in Paths : \E c \in Contents(p) : Touch(p, c) BY <1>7 DEF Touches
  <2>1. PICK c \in Contents(p) : Touch(p, c) BY <2>0
  <2>2. CASE cmd # "apply" BY <1>1, <2>1, <2>2 DEF Touch
  <2>3. CASE cmd = "apply"
    <3>1. /\ touched' = touched \cup {p} /\ work' = [work EXCEPT ![p] = c]
          /\ UNCHANGED <<head, cmd, working, planned, outputs>>
      BY <2>1, <2>3, NoneAssumption DEF Touch, views, CommandInv, Commands
    <3>2. \A s \in Slugs \ touched' : /\ Over(work)'[s] = Over(work)[s]
                                      /\ Over(head)'[s] = Over(head)[s]
                                      /\ s \in Dirty' <=> s \in Dirty
      BY <3>1, Kinds DEF Over, Dirty, TypeOK
    <3>3. QED BY <2>3, <3>1, <3>2 DEF ViewsInv, CandidatesAgree
  <2>4. QED BY <2>2, <2>3
<1>8. CASE UserCommits
  BY <1>1, <1>8, NoneAssumption DEF UserCommits, UserCommit, May, CommandInv, Commands
<1>9. CASE UNCHANGED vars
  BY <1>9 DEF vars, vault, views, ViewsInv, CandidatesAgree, Over, Dirty
<1>10. QED BY <1>2, <1>3, <1>4, <1>5, <1>6, <1>7, <1>8, <1>9, Steps

-----------------------------------------------------------------------------
\* What is planned is what HEAD will be, the index asked for lists it, and a
\* batch asks for the log too.
IndexInv ==
  /\ cmd \in {"reconcile", "rebuild-index"} => \A s \in Slugs : planned[s] = Over(head)[s]
  /\ pc = "execute" /\ cmd # "init" =>
       "index.md" \in DOMAIN outputs /\ outputs["index.md"] = IndexOf(planned)
  /\ pc = "execute" /\ cmd = "apply" => "log.md" \in DOMAIN outputs
  /\ IndexAgrees

\* What the commands that are no batches ask for.
SingleInv ==
  /\ cmd \in {"rebuild-index", "init"} => DOMAIN outputs \subseteq Derived
  /\ cmd = "reconcile" =>
       /\ DOMAIN outputs = {adopted.slug} \cup Derived
       /\ head[adopted.slug] # None
       /\ outputs[adopted.slug] = Restored(head[adopted.slug], adopted.text)
       /\ ~TitleTaken(Concepts(head), adopted.slug, adopted.text.title)

\* A batch is refused unless no file that it asks for has uncommitted changes.
\* The following is claimed of batches that still can be executed.
Clean == DOMAIN outputs \cap Dirty = {}

\* A file that something in one file stems from: the file itself, or another
\* that the batch writes.
Behind(p, q) == q = p \/ q \in DOMAIN outputs
Titled(tree, s, t) == tree[s] # None /\ tree[s].title = t

TitlesInv ==
  cmd = "apply" /\ Clean =>
    \A a, b \in Slugs \ touched : \A t \in Titles :
      a # b /\ Titled(working, a, t) /\ Titled(working, b, t) =>
        \E c, d \in Slugs : /\ c # d /\ Behind(a, c) /\ Behind(b, d)
                            /\ Titled(work, c, t) /\ Titled(work, d, t)

LinksTo(tree, p, s) == tree[p] # None /\ s \in tree[p].links

LinksInv ==
  cmd = "apply" /\ Clean =>
    \A p \in Texts \ touched : \A s \in Slugs \ touched :
      LinksTo(Over(work), p, s) /\ Over(work)[s] = None =>
        \/ s \in deleted
        \/ p = "log.md" /\ s \in entries.links
        \/ work[s] = None /\ \E q \in Texts : Behind(p, q) /\ LinksTo(work, q, s)

OriginInv ==
  cmd = "apply" /\ Clean =>
    \A s \in Slugs \cap DOMAIN outputs : outputs[s] # None =>
      /\ outputs[s].forged \subseteq Forged(head)
      /\ Stale(head) = {} => outputs[s].verified \subseteq {Wording(outputs[s])}

\* While a command runs, the user only edits files: HEAD is as it was.
LEMMA CommitsWhenIdle ==
  ASSUME ~Undoing, CommandInv, UserCommits
  PROVE  pc = "idle" /\ cmd = None /\ adopted = None /\ UNCHANGED cmd
BY NoneAssumption DEF UserCommits, UserCommit, May, CommandInv, Commands

LEMMA IndexInit == Init => IndexInv
BY VaultsAssumption, NoneAssumption
   DEF Init, IndexInv, IndexAgrees, Commands

\* A batch that is executed leaves at HEAD what it planned.
LEMMA ExecutedAsPlanned ==
  ASSUME TypeOK, CommandInv, TouchedInv, ViewsInv, IndexInv, Execute, cmd # "init"
  PROVE  \A s \in Slugs : planned[s] = head'[s]
<1> SUFFICES ASSUME NEW s \in Slugs PROVE planned[s] = head'[s]
  OBVIOUS
<1>1. head'[s] = Over(head)[s] BY ExecuteLaysOver, Kinds DEF Over
<1>2. CASE cmd = "apply"
  <2>1. ~Adopts(s) BY <1>2 DEF Adopts, CommandInv
  <2>2. CASE s \in DOMAIN outputs
    <3>1. s \notin Dirty BY <2>1, <2>2 DEF Execute
    <3>2. QED BY <1>1, <1>2, <3>1 DEF TouchedInv, ViewsInv, CandidatesAgree
  <2>3. CASE s \notin DOMAIN outputs
    BY <1>1, <1>2, <2>3, Kinds DEF ViewsInv, Over
  <2>4. QED BY <2>2, <2>3
<1>3. CASE cmd # "apply"
  <2>1. cmd \in {"reconcile", "rebuild-index"}
    BY <1>3 DEF TypeOK, CommandInv, Execute, Commands
  <2>2. QED BY <1>1, <2>1 DEF IndexInv
<1>4. QED BY <1>2, <1>3

LEMMA IndexNext ==
  ~Undoing /\ TypeOK /\ CommandInv /\ TouchedInv /\ ViewsInv /\ IndexInv /\ [Next]_vars => IndexInv'
<1> SUFFICES ASSUME ~Undoing, TypeOK, CommandInv, TouchedInv, ViewsInv, IndexInv, [Next]_vars
             PROVE  IndexInv'
  OBVIOUS
<1>1. UNCHANGED <<head, committer>> => IndexAgrees' BY DEF IndexInv, IndexAgrees, Concepts
<1>2. CASE Begin
  BY <1>1, <1>2 DEF Begin, Enter, vault, IndexInv
<1>3. CASE PutSteps \/ RenameSteps
  BY <1>1, <1>3 DEF PutSteps, Puts, RenameSteps, Rename, Operate, vault, CommandInv, IndexInv
<1>4. CASE Render
  <2>1. cmd = "apply" /\ cmd' = cmd /\ UNCHANGED <<head, committer, planned>>
    BY <1>4 DEF Render, CommandInv, vault
  <2>2. /\ {"index.md", "log.md"} \subseteq DOMAIN outputs'
        /\ outputs'["index.md"] = IndexOf(planned)
    BY <1>4 DEF Render, With
  <2>3. QED BY <1>1, <2>1, <2>2 DEF IndexInv
<1>5. CASE Reconciles
  <2>1. PICK slug \in Slugs : Reconcile(slug) BY <1>5 DEF Reconciles
  <2>2. PICK text, after, log :
          /\ text = Restored(head[slug], work[slug])
          /\ after = [Concepts(head) EXCEPT ![slug] = text]
          /\ log = Logged(work["log.md"], [count |-> 1, links |-> {slug}])
    OBVIOUS
  <2>3. /\ outputs' = With(With(With(NoFiles, slug, text), "index.md", IndexOf(after)), "log.md", log)
        /\ planned' = after /\ UNCHANGED <<head, committer>>
    BY <2>1, <2>2 DEF Reconcile, Enter, vault
  <2>4. \A s \in Slugs : after[s] = IF s = slug THEN text ELSE head[s] BY <2>2 DEF Concepts
  <2>5. /\ outputs'["index.md"] = IndexOf(after) /\ outputs'[slug] = text
        /\ DOMAIN outputs' = {slug, "index.md", "log.md"}
    BY <2>3, Kinds DEF With, NoFiles
  <2>6. \A s \in Slugs : planned'[s] = Over(head)'[s]
    BY <2>3, <2>4, <2>5, Kinds DEF Over
  <2>7. QED BY <1>1, <2>3, <2>5, <2>6 DEF IndexInv
<1>6. CASE RebuildIndex
  <2>1. /\ planned' = Concepts(head) /\ outputs' = With(NoFiles, "index.md", IndexOf(Concepts(head)))
        /\ UNCHANGED <<head, committer>> /\ cmd' = "rebuild-index"
    BY <1>6 DEF RebuildIndex, Enter, vault
  <2>2. DOMAIN outputs' = {"index.md"} /\ outputs'["index.md"] = IndexOf(planned')
    BY <2>1 DEF With, NoFiles
  <2>3. \A s \in Slugs : planned'[s] = Over(head)'[s]
    BY <2>1, <2>2, Kinds DEF Over, Concepts
  <2>4. QED BY <1>1, <2>1, <2>2, <2>3 DEF IndexInv
<1>7. CASE Initialize
  BY <1>1, <1>7 DEF Initialize, Enter, vault, IndexInv
<1>8. CASE Execute
  <2>1. IndexAgrees'
    <3> SUFFICES ASSUME cmd \in {"apply", "reconcile", "rebuild-index"}
                 PROVE  head'["index.md"] = IndexOf(Concepts(head'))
      BY <1>8, ExecuteLaysOver DEF IndexAgrees
    <3>1. \A s \in Slugs : planned[s] = head'[s] BY <1>8, ExecutedAsPlanned
    <3>2. IndexOf(planned) = IndexOf(Concepts(head')) BY <3>1 DEF IndexOf, Concepts
    <3>3. head'["index.md"] = outputs["index.md"]
      BY <1>8, ExecuteLaysOver, Kinds DEF IndexInv
    <3>4. outputs["index.md"] = IndexOf(planned) BY <1>8, ExecuteLaysOver DEF IndexInv
    <3>5. QED BY <3>2, <3>3, <3>4
  <2>2. QED BY <1>8, <2>1, NoneAssumption DEF Execute, Leave, IndexInv, Commands
<1>9. CASE Refuse
  BY <1>1, <1>9, NoneAssumption DEF Refuse, Leave, vault, IndexInv, Commands
<1>10. CASE Touches
  <2>1. UNCHANGED <<head, committer, pc, cmd, planned, outputs>>
    BY <1>10 DEF Touches, Touch, views
  <2>2. QED BY <1>1, <2>1 DEF IndexInv, Over
<1>11. CASE UserCommits
  <2>1. pc' = "idle" /\ cmd' = None /\ committer' = "user"
    BY <1>11, CommitsWhenIdle DEF UserCommits, UserCommit
  <2>2. QED BY <2>1, NoneAssumption DEF IndexInv, IndexAgrees, Commands
<1>12. CASE UNCHANGED vars
  BY <1>1, <1>12 DEF vars, vault, views, IndexInv, Over
<1>13. QED
  BY <1>2, <1>3, <1>4, <1>5, <1>6, <1>7, <1>8, <1>9, <1>10, <1>11, <1>12, Steps

-----------------------------------------------------------------------------
LEMMA SingleInit == Init => SingleInv
BY NoneAssumption DEF Init, SingleInv, Commands

LEMMA SingleNext ==
  ~Undoing /\ TypeOK /\ CommandInv /\ SingleInv /\ [Next]_vars => SingleInv'
<1> SUFFICES ASSUME ~Undoing, TypeOK, CommandInv, SingleInv, [Next]_vars PROVE SingleInv'
  OBVIOUS
<1>1. CASE cmd' = "apply" \/ cmd' = None
  BY <1>1, NoneAssumption DEF SingleInv, Commands
<1>2. CASE Begin \/ PutSteps \/ RenameSteps \/ Render
  BY <1>1, <1>2 DEF Begin, Enter, PutSteps, Puts, RenameSteps, Rename, Operate, Render, CommandInv
<1>3. CASE Reconciles
  <2>1. PICK slug \in Slugs : Reconcile(slug) BY <1>3 DEF Reconciles
  <2>2. PICK text, index, log :
          /\ text = Restored(head[slug], work[slug])
          /\ index = IndexOf([Concepts(head) EXCEPT ![slug] = text])
          /\ log = Logged(work["log.md"], [count |-> 1, links |-> {slug}])
    OBVIOUS
  <2>3. /\ outputs' = With(With(With(NoFiles, slug, text), "index.md", index), "log.md", log)
        /\ adopted' = [slug |-> slug, text |-> work[slug]]
        /\ head[slug] # None /\ work[slug] # None /\ ~TitleTaken(Concepts(head), slug, text.title)
        /\ cmd' = "reconcile" /\ head' = head
    BY <2>1, <2>2 DEF Reconcile, Enter, vault
  <2>4. DOMAIN outputs' = {slug} \cup Derived /\ outputs'[slug] = text
    BY <2>3, Kinds DEF With, NoFiles, Derived
  <2>5. text.title = work[slug].title
    <3>1. work[slug] \in Documents BY <2>3, Kinds DEF TypeOK
    <3>2. QED BY <2>2, <3>1 DEF Restored, Documents
  <2>6. QED BY <2>2, <2>3, <2>4, <2>5 DEF SingleInv
<1>4. CASE RebuildIndex
  <2>1. cmd' = "rebuild-index" /\ DOMAIN outputs' = {"index.md"}
    BY <1>4 DEF RebuildIndex, Enter, With, NoFiles
  <2>2. QED BY <2>1 DEF SingleInv, Derived
<1>5. CASE Initialize
  <2>1. cmd' = "init" /\ DOMAIN outputs' \subseteq Derived BY <1>5 DEF Initialize, Enter
  <2>2. QED BY <2>1 DEF SingleInv
<1>6. CASE Execute \/ Refuse BY <1>1, <1>6 DEF Execute, Refuse, Leave
<1>7. CASE Touches
  BY <1>7 DEF Touches, Touch, views, SingleInv, TitleTaken, Present, Concepts
<1>8. CASE UserCommits BY <1>1, <1>8, CommitsWhenIdle
<1>9. CASE UNCHANGED vars
  BY <1>9 DEF vars, vault, views, SingleInv, TitleTaken, Present, Concepts
<1>10. QED BY <1>2, <1>3, <1>4, <1>5, <1>6, <1>7, <1>8, <1>9, Steps

-----------------------------------------------------------------------------
\* What a batch knows of a concept without uncommitted changes.
LEMMA Settled ==
  ASSUME cmd = "apply", TouchedInv, CandidatesAgree, NEW s \in Slugs, s \notin Dirty
  PROVE  s \notin touched /\ work[s] = head[s] /\ working[s] = Current(outputs, s)
BY Kinds DEF TouchedInv, CandidatesAgree, Dirty, Over, Current

\* A batch that can still be executed after a step could be before it.
LEMMA CleanBefore ==
  ASSUME ~Undoing, TypeOK, CommandInv, [Next]_vars, cmd = "apply", cmd' = "apply", Clean'
  PROVE  /\ Clean
         /\ head' = head /\ touched \subseteq touched' /\ DOMAIN outputs \subseteq DOMAIN outputs'
         /\ \A p \in Paths : p \notin touched' => work'[p] = work[p]
         /\ \A p \in DOMAIN outputs : p \in Paths /\ work'[p] = work[p]
<1>1. pc # "idle" /\ cmd # None BY NoneAssumption DEF CommandInv, Commands
<1>2. CASE Begin \/ Reconciles \/ RebuildIndex \/ Initialize \/ UserCommits
  BY <1>1, <1>2, CommitsWhenIdle DEF Begin, Reconciles, Reconcile, RebuildIndex, Initialize, Enter
<1>3. CASE Execute \/ Refuse
  BY <1>3, NoneAssumption DEF Execute, Refuse, Leave, Commands
<1>4. CASE PutSteps
  BY <1>4 DEF PutSteps, Puts, Operate, Put, With, vault, Clean, Dirty, TypeOK
<1>5. CASE RenameSteps
  <2>1. PICK old \in Slugs, new \in Slugs : Rename(old, new) BY <1>5 DEF RenameSteps
  <2>2. DOMAIN outputs' = DOMAIN outputs \cup {old, new} \cup Relinks(old, new)
    BY <2>1, RenameEffect
  <2>3. QED BY <2>1, <2>2 DEF Rename, Operate, vault, Clean, Dirty, TypeOK
<1>6. CASE Render
  BY <1>6 DEF Render, With, vault, Clean, Dirty, TypeOK
<1>7. CASE Touches
  <2>0. PICK p \in Paths : \E c \in Contents(p) : Touch(p, c) BY <1>7 DEF Touches
  <2>1. PICK c \in Contents(p) : Touch(p, c) BY <2>0
  <2>2. /\ c # head[p] /\ touched' = touched \cup {p} /\ work' = [work EXCEPT ![p] = c]
        /\ UNCHANGED <<head, outputs>>
    BY <1>1, <2>1 DEF Touch, May, views
  <2>3. p \in Dirty' /\ Dirty \subseteq Dirty' BY <2>2 DEF Dirty, TypeOK
  <2>4. p \notin DOMAIN outputs BY <2>2, <2>3 DEF Clean
  <2>5. QED BY <2>2, <2>3, <2>4 DEF Clean, TypeOK
<1>8. CASE UNCHANGED vars
  BY <1>8 DEF vars, vault, views, Clean, Dirty, TypeOK
<1>9. QED BY <1>2, <1>3, <1>4, <1>5, <1>6, <1>7, <1>8, Steps

\* The steps of a batch that are neither operations nor Render.
LEMMA BatchSteps ==
  ASSUME ~Undoing, TypeOK, CommandInv, [Next]_vars, cmd' = "apply"
  PROVE  \/ Begin
         \/ cmd = "apply" /\ (PutSteps \/ RenameSteps \/ Render)
         \/ cmd = "apply" /\ UNCHANGED <<working, planned, outputs, entries, deleted>>
<1>1. CASE Reconciles \/ RebuildIndex \/ Initialize
  BY <1>1 DEF Reconciles, Reconcile, RebuildIndex, Initialize, Enter
<1>2. CASE UserCommits \/ Execute \/ Refuse
  BY <1>2, CommitsWhenIdle, NoneAssumption DEF Execute, Refuse, Leave, Commands
<1>3. CASE PutSteps \/ RenameSteps \/ Render
  BY <1>3 DEF PutSteps, Puts, RenameSteps, Rename, Operate, Render
<1>4. CASE Touches \/ UNCHANGED vars
  BY <1>4 DEF Touches, Touch, vars, views
<1>5. QED BY <1>1, <1>2, <1>3, <1>4, Steps

LEMMA PutEffect ==
  ASSUME TypeOK, NEW slug \in Slugs, NEW text, Puts(slug, text)
  PROVE  /\ DOMAIN outputs' = DOMAIN outputs \cup {slug} /\ outputs'[slug] = text
         /\ \A p \in DOMAIN outputs \ {slug} : outputs'[p] = outputs[p]
         /\ \A s \in Slugs : working'[s] = IF s = slug THEN text ELSE working[s]
         /\ \A p \in Paths : Over(work)'[p] = IF p = slug THEN text ELSE Over(work)[p]
         /\ UNCHANGED <<work, head, touched>>
<1>1. /\ working' = [working EXCEPT ![slug] = text] /\ UNCHANGED <<work, head, touched>>
      /\ outputs' = With(outputs, slug, text)
  BY DEF Puts, Operate, Put, vault
<1>2. /\ DOMAIN outputs' = DOMAIN outputs \cup {slug} /\ outputs'[slug] = text
      /\ \A p \in DOMAIN outputs \ {slug} : outputs'[p] = outputs[p]
  BY <1>1 DEF With
<1>3. QED BY <1>1, <1>2 DEF Over, TypeOK

-----------------------------------------------------------------------------
LEMMA TitlesInit == Init => TitlesInv
BY NoneAssumption DEF Init, TitlesInv, Commands

\* Two concepts of one title come from two that had it: an operation looks for
\* the title among all concepts of the batch, and a rename takes it along.
LEMMA TitlesNext ==
  ~Undoing /\ TypeOK /\ CommandInv /\ TouchedInv /\ ViewsInv /\ TitlesInv /\ [Next]_vars => TitlesInv'
<1> SUFFICES ASSUME ~Undoing, TypeOK, CommandInv, TouchedInv, ViewsInv, TitlesInv, [Next]_vars,
                    cmd' = "apply", Clean',
                    NEW a \in Slugs \ touched', NEW b \in Slugs \ touched', NEW t \in Titles,
                    a # b, Titled(working', a, t), Titled(working', b, t)
             PROVE  \E c, d \in Slugs : /\ c # d /\ Behind(a, c)' /\ Behind(b, d)'
                                        /\ Titled(work', c, t) /\ Titled(work', d, t)
  BY DEF TitlesInv, Titled, Behind
<1>1. CASE Begin
  BY <1>1 DEF Begin, Enter, vault, Concepts, Titled, Behind
<1>2. CASE cmd = "apply"
  <2>1. /\ Clean /\ touched \subseteq touched' /\ DOMAIN outputs \subseteq DOMAIN outputs'
        /\ \A p \in Paths : p \notin touched' => work'[p] = work[p]
        /\ \A p \in DOMAIN outputs : work'[p] = work[p]
    BY <1>2, CleanBefore
  <2>2. ASSUME NEW x \in Slugs \ touched, NEW y \in Slugs \ touched, x # y,
               Titled(working, x, t), Titled(working, y, t),
               x = a \/ x \in DOMAIN outputs' \cap DOMAIN outputs \/ (x \in DOMAIN outputs' /\ work' = work),
               y = b \/ y \in DOMAIN outputs' \cap DOMAIN outputs \/ (y \in DOMAIN outputs' /\ work' = work)
        PROVE  \E c, d \in Slugs : /\ c # d /\ Behind(a, c)' /\ Behind(b, d)'
                                   /\ Titled(work', c, t) /\ Titled(work', d, t)
    <3>1. PICK c \in Slugs, d \in Slugs :
            /\ c # d /\ Behind(x, c) /\ Behind(y, d) /\ Titled(work, c, t) /\ Titled(work, d, t)
      BY <1>2, <2>1, <2>2 DEF TitlesInv
    <3>2. Behind(a, c)' /\ Behind(b, d)' BY <2>1, <2>2, <3>1 DEF Behind
    <3>3. work'[c] = work[c] /\ work'[d] = work[d] BY <2>1, <2>2, <3>1, Kinds DEF Behind
    <3>4. QED BY <3>1, <3>2, <3>3 DEF Titled
  <2>3. CASE PutSteps
    <3>1. PICK slug \in Slugs, text \in Documents \cup {None} : Puts(slug, text) /\ Wellmade(slug, text)
      BY <2>3 DEF PutSteps
    <3>2. \A s \in Slugs : working'[s] = IF s = slug THEN text ELSE working[s]
      BY <3>1, PutEffect
    <3>3. \A s \in Slugs \ {slug} : Titled(working', s, t) => Titled(working, s, t)
      BY <3>2 DEF Titled
    <3>4. Titled(working', slug, t) =>
            Titled(working, slug, t) \/ \A s \in Slugs \ {slug} : ~Titled(working, s, t)
      BY <3>1, <3>2 DEF Titled, Wellmade, TitleFrom, TitleTaken, Present
    <3>5. Titled(working, a, t) /\ Titled(working, b, t) BY <3>3, <3>4
    <3>6. QED BY <2>1, <2>2, <3>5
  <2>4. CASE RenameSteps
    <3>1. PICK old \in Slugs, new \in Slugs : Rename(old, new) BY <2>4 DEF RenameSteps
    <3>2. /\ DOMAIN outputs' = DOMAIN outputs \cup {old, new} \cup Relinks(old, new)
          /\ working' = [s \in Slugs |-> ViewAfter(working, old, new, s)]
          /\ working[old] \in Documents /\ old # new
      BY <3>1, RenameEffect
    <3>3. UNCHANGED <<work, head, touched>> /\ Dirty' = Dirty
      BY <3>1 DEF Rename, Operate, vault, Dirty
    <3>4. \A s \in Slugs \cap DOMAIN outputs' : s \notin Dirty
      BY <3>3 DEF Clean
    <3>5. ASSUME NEW s \in Slugs, Titled(working', s, t)
          PROVE  s # old /\ Titled(working, IF s = new THEN old ELSE s, t)
      <4>1. MovedTo(working, old, new, s) # None
        BY <3>2, <3>5 DEF Titled, ViewAfter
      <4>2. s # old BY <4>1 DEF MovedTo
      <4>3. CASE s \notin Relinks(old, new)
        BY <3>2, <3>5, <4>2, <4>3 DEF Titled, ViewAfter, MovedTo
      <4>4. CASE s \in Relinks(old, new)
        <5>1. working[s] = Current(outputs, s) BY <1>2, <3>2, <3>4, <4>4, Settled DEF ViewsInv
        <5>2. Found(old, new, s) = MovedTo(working, old, new, s)
          BY <5>1 DEF Found, MovedTo
        <5>3. Found(old, new, s) \in Documents BY <3>2, <4>4, RenameKinds
        <5>4. working'[s].title = Found(old, new, s).title
          BY <3>2, <4>1, <4>4, <5>3, RelinkedConcept DEF ViewAfter, Left
        <5>5. QED BY <3>5, <4>1, <4>2, <5>2, <5>4 DEF Titled, MovedTo
      <4>5. QED BY <4>2, <4>3, <4>4
    <3>6. PICK x \in Slugs, y \in Slugs :
            x = (IF a = new THEN old ELSE a) /\ y = (IF b = new THEN old ELSE b)
      OBVIOUS
    <3>7. x # y /\ Titled(working, x, t) /\ Titled(working, y, t) BY <3>5, <3>6
    <3>8. old \in DOMAIN outputs' /\ old \notin touched
      BY <3>2, <3>4 DEF TouchedInv
    <3>9. x \notin touched /\ y \notin touched BY <3>3, <3>6, <3>8
    <3>10. QED BY <2>2, <3>3, <3>6, <3>7, <3>8, <3>9
  <2>5. CASE Render \/ UNCHANGED <<working, planned, outputs, entries, deleted>>
    <3>1. working' = working BY <2>5 DEF Render
    <3>2. QED BY <2>1, <2>2, <3>1
  <2>6. ~Begin BY <1>2, NoneAssumption DEF Begin, Enter, CommandInv, Commands
  <2>7. QED BY <2>3, <2>4, <2>5, <2>6, BatchSteps
<1>3. QED BY <1>1, <1>2, BatchSteps

-----------------------------------------------------------------------------
LEMMA LinksInit == Init => LinksInv
BY NoneAssumption DEF Init, LinksInv, Commands

\* A link that leads nowhere led nowhere before the batch, or leads to what it
\* deleted: a text that it was given links to concepts that are there, and
\* after a rename nothing links to the old name.
LEMMA LinksNext ==
  ~Undoing /\ TypeOK /\ CommandInv /\ TouchedInv /\ ViewsInv /\ LinksInv /\ [Next]_vars => LinksInv'
<1> SUFFICES ASSUME ~Undoing, TypeOK, CommandInv, TouchedInv, ViewsInv, LinksInv, [Next]_vars,
                    cmd' = "apply", Clean',
                    NEW p \in Texts \ touched', NEW s \in Slugs \ touched',
                    LinksTo(Over(work)', p, s), Over(work)'[s] = None
             PROVE  \/ s \in deleted'
                    \/ p = "log.md" /\ s \in entries'.links
                    \/ work'[s] = None /\ \E q \in Texts : Behind(p, q)' /\ LinksTo(work', q, s)
  BY DEF LinksInv, LinksTo, Behind
<1>0. p \in Paths /\ s \in Paths /\ p # "index.md" /\ "log.md" \notin Slugs
  BY Kinds DEF Texts
<1>1. CASE Begin
  <2>1. UNCHANGED work /\ DOMAIN outputs' = {} BY <1>1 DEF Begin, Enter, vault, NoFiles
  <2>2. Over(work)'[p] = work[p] /\ Over(work)'[s] = work[s] BY <1>0, <2>1 DEF Over
  <2>3. QED BY <2>1, <2>2 DEF LinksTo, Behind
<1>2. CASE cmd = "apply"
  <2>1. /\ Clean /\ touched \subseteq touched' /\ DOMAIN outputs \subseteq DOMAIN outputs'
        /\ \A x \in Paths : x \notin touched' => work'[x] = work[x]
        /\ \A x \in DOMAIN outputs : work'[x] = work[x]
    BY <1>2, CleanBefore
  <2>2. p \notin touched /\ s \notin touched BY <2>1
  <2>3. ASSUME NEW x \in Texts \ touched, LinksTo(Over(work), x, s), Over(work)[s] = None,
               x = p \/ (x \in Slugs \cap DOMAIN outputs' /\ work' = work),
               deleted \subseteq deleted', entries.links \subseteq entries'.links
        PROVE  \/ s \in deleted'
               \/ p = "log.md" /\ s \in entries'.links
               \/ work'[s] = None /\ \E q \in Texts : Behind(p, q)' /\ LinksTo(work', q, s)
    <3>1. CASE s \in deleted \/ (x = "log.md" /\ s \in entries.links)
      BY <1>0, <2>3, <3>1
    <3>2. CASE work[s] = None /\ \E q \in Texts : Behind(x, q) /\ LinksTo(work, q, s)
      <4>1. PICK q \in Texts : Behind(x, q) /\ LinksTo(work, q, s) BY <3>2
      <4>2. work'[s] = None BY <1>0, <2>1, <3>2
      <4>3. Behind(p, q)' BY <2>1, <2>3, <4>1 DEF Behind
      <4>4. work'[q] = work[q] BY <1>0, <2>1, <2>3, <4>1 DEF Behind
      <4>5. QED BY <4>1, <4>2, <4>3, <4>4 DEF LinksTo
    <3>3. QED BY <1>2, <2>1, <2>2, <2>3, <3>1, <3>2 DEF LinksInv
  <2>4. CASE PutSteps
    <3>1. PICK slug \in Slugs, text \in Documents \cup {None} : Puts(slug, text) /\ Wellmade(slug, text)
      BY <2>4 DEF PutSteps
    <3>2. /\ \A x \in Paths : Over(work)'[x] = IF x = slug THEN text ELSE Over(work)[x]
          /\ DOMAIN outputs' = DOMAIN outputs \cup {slug}
          /\ UNCHANGED <<work, head, touched>>
      BY <3>1, PutEffect
    <3>3. /\ deleted' = IF text = None THEN deleted \cup {slug} ELSE deleted
          /\ entries.links \subseteq entries'.links
      BY <3>1 DEF Puts
    <3>4. CASE s = slug BY <1>0, <3>2, <3>3, <3>4
    <3>5. CASE s # slug
      <4>1. Over(work)[s] = None BY <1>0, <3>2, <3>5
      <4>2. CASE p # slug
        <5>1. LinksTo(Over(work), p, s) BY <1>0, <3>2, <4>2 DEF LinksTo
        <5>2. QED BY <2>2, <2>3, <3>3, <4>1, <5>1
      <4>3. CASE p = slug
        <5>1. text # None /\ s \in text.links BY <1>0, <3>2, <4>3 DEF LinksTo
        <5>2. working[s] = None
          BY <1>2, <2>2, <4>1 DEF ViewsInv, CandidatesAgree
        <5>3. working[slug] # None /\ s \in working[slug].links
          BY <3>1, <3>5, <5>1, <5>2 DEF Wellmade, LinksFrom, Present
        <5>4. working[slug] = Over(work)[slug]
          BY <1>2, <2>2, <4>3 DEF ViewsInv, CandidatesAgree
        <5>5. LinksTo(Over(work), p, s) BY <4>3, <5>3, <5>4 DEF LinksTo
        <5>6. QED BY <2>2, <2>3, <3>3, <4>1, <5>5
      <4>4. QED BY <4>2, <4>3
    <3>6. QED BY <3>4, <3>5
  <2>5. CASE RenameSteps
    <3>1. PICK old \in Slugs, new \in Slugs : Rename(old, new) BY <2>5 DEF RenameSteps
    <3>2. /\ DOMAIN outputs' = DOMAIN outputs \cup {old, new} \cup Relinks(old, new)
          /\ working[old] \in Documents /\ working[old] # None /\ old # new
      BY <3>1, RenameEffect
    <3>3. \A x \in Paths : Over(work)'[x] = Left(old, new, x) BY <3>1, RenameLaid
    <3>4. /\ UNCHANGED <<work, head, touched>> /\ Dirty' = Dirty
          /\ deleted' = deleted /\ entries.links \subseteq entries'.links
      BY <3>1 DEF Rename, Operate, vault, Dirty, Entry
    <3>5. Left(old, new, p) # None /\ s \in Left(old, new, p).links /\ Left(old, new, s) = None
      BY <1>0, <3>3 DEF LinksTo
    <3>6. p # old
      BY <3>5 DEF Left, Found, Relinks
    <3>7. /\ Found(old, new, p) # None
          /\ s \in Found(old, new, p).links \ {old} \/ (s = new /\ p \in Relinks(old, new))
      <4>1. CASE p \in Relinks(old, new)
        <5>1. PICK c : c = Found(old, new, p) OBVIOUS
        <5>2. c \in Contents(p) \ {None} BY <1>0, <3>2, <4>1, <5>1, RenameKinds DEF Relinks
        <5>3. Left(old, new, p) = Relinked(p, c, old, new) BY <4>1, <5>1 DEF Left
        <5>4. p \in Texts BY <4>1 DEF Relinks
        <5>5. Left(old, new, p).links = Swapped(c.links, old, new)
          BY <5>2, <5>3, <5>4, RelinkedText
        <5>6. QED BY <3>5, <4>1, <5>1, <5>2, <5>5 DEF Swapped
      <4>2. CASE p \notin Relinks(old, new)
        <5>1. Left(old, new, p) = Found(old, new, p) BY <4>2 DEF Left
        <5>2. old \notin Found(old, new, p).links BY <3>5, <3>6, <4>2, <5>1 DEF Relinks
        <5>3. QED BY <3>5, <5>1, <5>2
      <4>3. QED BY <4>1, <4>2
    <3>8. s \notin Relinks(old, new)
      <4>1. s \in Relinks(old, new) => Left(old, new, s) \in Documents
        BY <3>2, RenameKinds
      <4>2. QED BY <3>5, <4>1, NoneAssumption
    <3>9. Found(old, new, s) = None BY <3>5, <3>8 DEF Left
    <3>10. s # new BY <3>2, <3>9 DEF Found
    <3>11. s # old /\ s \in Found(old, new, p).links BY <3>7, <3>10
    <3>12. Over(work)[s] = None
      BY <1>0, <3>9, <3>10, <3>11 DEF Found, Over, Current
    <3>13. CASE p = new
      <4>1. old \in DOMAIN outputs' /\ old \notin Dirty /\ old \in Texts
        BY <3>2, <3>4, Kinds DEF Clean, Texts
      <4>2. working[old] = Current(outputs, old) /\ old \notin touched
        BY <1>2, <4>1, Settled DEF ViewsInv
      <4>3. Over(work)[old] = working[old] BY <4>2, Kinds DEF Over, Current
      <4>4. LinksTo(Over(work), old, s)
        BY <3>2, <3>11, <3>13, <4>3 DEF LinksTo, Found
      <4>5. QED BY <2>3, <3>4, <3>12, <4>1, <4>2, <4>4
    <3>14. CASE p # new
      <4>1. Over(work)[p] = Found(old, new, p)
        BY <1>0, <3>6, <3>14 DEF Found, Over, Current
      <4>2. LinksTo(Over(work), p, s) BY <3>7, <3>11, <4>1 DEF LinksTo
      <4>3. QED BY <2>2, <2>3, <3>4, <3>12, <4>2
    <3>15. QED BY <3>13, <3>14
  <2>6. CASE Render
    <3>1. PICK log : log = Logged(Current(outputs, "log.md"), entries) OBVIOUS
    <3>2. outputs' = With(With(outputs, "log.md", log), "index.md", IndexOf(planned))
      BY <2>6, <3>1 DEF Render
    <3>3. UNCHANGED <<work, entries, deleted>> BY <2>6 DEF Render, vault
    <3>4. /\ DOMAIN outputs' = DOMAIN outputs \cup {"log.md", "index.md"}
          /\ outputs'["log.md"] = log
          /\ \A x \in DOMAIN outputs \ {"log.md", "index.md"} : outputs'[x] = outputs[x]
      BY <3>2 DEF With
    <3>5. \A x \in Paths \ {"log.md", "index.md"} : Over(work)'[x] = Over(work)[x]
      BY <3>3, <3>4 DEF Over
    <3>6. Over(work)[s] = None BY <1>0, <3>5, Kinds
    <3>7. CASE p # "log.md"
      <4>1. LinksTo(Over(work), p, s) BY <1>0, <3>5, <3>7 DEF LinksTo
      <4>2. QED BY <2>2, <2>3, <3>3, <3>6, <4>1
    <3>8. CASE p = "log.md"
      <4>1. s \in log.links BY <1>0, <3>4, <3>8 DEF LinksTo, Over
      <4>2. s \in entries.links \/ s \in Current(outputs, "log.md").links
        BY <3>1, <4>1 DEF Logged
      <4>3. Over(work)["log.md"] = Current(outputs, "log.md") /\ Current(outputs, "log.md") # None
        BY <1>0, <2>6, <3>8 DEF Render, Over, Current
      <4>4. CASE s \in entries.links BY <3>3, <3>8, <4>4
      <4>5. CASE s \in Current(outputs, "log.md").links
        <5>1. LinksTo(Over(work), p, s) BY <3>8, <4>3, <4>5 DEF LinksTo
        <5>2. QED BY <2>2, <2>3, <3>3, <3>6, <5>1
      <4>6. QED BY <4>2, <4>4, <4>5
    <3>9. QED BY <3>7, <3>8
  <2>7. CASE UNCHANGED <<working, planned, outputs, entries, deleted>>
    <3>1. Over(work)'[p] = Over(work)[p] /\ Over(work)'[s] = Over(work)[s]
      BY <1>0, <2>1, <2>7 DEF Over
    <3>2. LinksTo(Over(work), p, s) BY <3>1 DEF LinksTo
    <3>3. QED BY <2>2, <2>3, <2>7, <3>1, <3>2
  <2>8. ~Begin BY <1>2, NoneAssumption DEF Begin, Enter, CommandInv, Commands
  <2>9. QED BY <2>4, <2>5, <2>6, <2>7, <2>8, BatchSteps
<1>3. QED BY <1>1, <1>2, BatchSteps

-----------------------------------------------------------------------------
\* Attribution and verification that HEAD would accept.
Sound(c) ==
  /\ c.forged \subseteq Forged(head)
  /\ Stale(head) = {} => c.verified \subseteq {Wording(c)}

\* What is at HEAD is sound ...
LEMMA HeadSound ==
  ASSUME TypeOK, NEW s \in Slugs, head[s] # None
  PROVE  Sound(head[s])
<1>1. s \in Present(Concepts(head)) BY DEF Present, Concepts
<1>2. head[s].forged \subseteq Forged(head) BY <1>1 DEF Forged
<1>3. ASSUME Stale(head) = {} PROVE head[s].verified \subseteq {Wording(head[s])}
  BY <1>1, <1>3 DEF Stale
<1>4. QED BY <1>2, <1>3 DEF Sound

\* ... and so is what a batch has of a concept without uncommitted changes.
LEMMA WorkingSound ==
  ASSUME TypeOK, cmd = "apply", TouchedInv, CandidatesAgree, OriginInv, Clean,
         NEW s \in Slugs, s \notin Dirty, working[s] # None
  PROVE  Sound(working[s])
<1>1. work[s] = head[s] /\ working[s] = Current(outputs, s) BY Settled
<1>2. CASE s \in DOMAIN outputs
  BY <1>1, <1>2 DEF Current, OriginInv, Sound
<1>3. CASE s \notin DOMAIN outputs
  BY <1>1, <1>3, HeadSound DEF Current
<1>4. QED BY <1>2, <1>3

LEMMA OriginInit == Init => OriginInv
BY NoneAssumption DEF Init, OriginInv, Commands

\* A batch writes attribution and verification of its own, or that it found.
LEMMA OriginNext ==
  ~Undoing /\ TypeOK /\ CommandInv /\ TouchedInv /\ ViewsInv /\ OriginInv /\ [Next]_vars => OriginInv'
<1> SUFFICES ASSUME ~Undoing, TypeOK, CommandInv, TouchedInv, ViewsInv, OriginInv, [Next]_vars,
                    cmd' = "apply", Clean', NEW s \in Slugs \cap DOMAIN outputs', outputs'[s] # None
             PROVE  /\ outputs'[s].forged \subseteq Forged(head)'
                    /\ Stale(head)' = {} =>
                         outputs'[s].verified \subseteq {Wording(outputs'[s])}
  BY DEF OriginInv
<1>1. CASE Begin
  BY <1>1 DEF Begin, NoFiles
<1>2. CASE cmd = "apply"
  <2>1. Clean /\ head' = head BY <1>2, CleanBefore
  <2>2. PICK c : c = outputs'[s] OBVIOUS
  <2>3. Forged(head)' = Forged(head) /\ Stale(head)' = Stale(head)
    BY <2>1 DEF Forged, Stale, Present, Concepts
  <2>4. SUFFICES Sound(c) BY <2>2, <2>3 DEF Sound
  <2>5. CASE PutSteps
    <3>1. PICK slug \in Slugs, text \in Documents \cup {None} : Puts(slug, text) /\ Wellmade(slug, text)
      BY <2>5 DEF PutSteps
    <3>2. /\ DOMAIN outputs' = DOMAIN outputs \cup {slug} /\ outputs'[slug] = text
          /\ \A p \in DOMAIN outputs \ {slug} : outputs'[p] = outputs[p]
          /\ UNCHANGED <<work, head, touched>>
      BY <3>1, PutEffect
    <3>3. CASE s # slug
      BY <1>2, <2>1, <2>2, <3>2, <3>3 DEF OriginInv, Sound
    <3>4. CASE s = slug
      <4>1. slug \notin Dirty BY <3>2 DEF Clean, Dirty
      <4>2. working[slug] # None => Sound(working[slug])
        BY <1>2, <2>1, <4>1, WorkingSound DEF ViewsInv
      <4>3. c = text /\ text # None BY <2>2, <3>2, <3>4
      <4>4. c.forged \subseteq Forged(head)
        BY <3>1, <4>2, <4>3 DEF Wellmade, ForgedFrom, Sound
      <4>5. ASSUME Stale(head) = {} PROVE c.verified \subseteq {Wording(c)}
        <5>1. VerifiedFrom(slug, c) BY <3>1, <4>3 DEF Wellmade
        <5>2. QED BY <4>2, <4>5, <5>1 DEF VerifiedFrom, Sound
      <4>6. QED BY <4>4, <4>5 DEF Sound
    <3>5. QED BY <3>3, <3>4
  <2>6. CASE RenameSteps
    <3>1. PICK old \in Slugs, new \in Slugs : Rename(old, new) BY <2>6 DEF RenameSteps
    <3>2. /\ DOMAIN outputs' = DOMAIN outputs \cup {old, new} \cup Relinks(old, new)
          /\ \A p \in DOMAIN outputs' : outputs'[p] = Left(old, new, p)
          /\ working[old] \in Documents /\ working[old] # None
      BY <3>1, RenameEffect
    <3>3. Dirty' = Dirty BY <3>1 DEF Rename, Operate, vault, Dirty
    <3>4. old \notin Dirty /\ s \notin Dirty BY <3>2, <3>3 DEF Clean
    <3>5. Found(old, new, s) # None
      BY <2>2, <3>2 DEF Left, Relinks
    <3>6. Sound(Found(old, new, s))
      <4>1. CASE s = new
        BY <1>2, <2>1, <3>2, <3>4, <3>5, <4>1, WorkingSound DEF Found, ViewsInv
      <4>2. CASE s # new
        <5>1. Found(old, new, s) = Current(outputs, s) BY <3>5, <4>2 DEF Found
        <5>2. Current(outputs, s) = working[s] BY <1>2, <3>4, Settled DEF ViewsInv
        <5>3. QED BY <1>2, <2>1, <3>4, <3>5, <5>1, <5>2, WorkingSound DEF ViewsInv
      <4>3. QED BY <4>1, <4>2
    <3>7. CASE s \in Relinks(old, new)
      <4>1. PICK found : found = Found(old, new, s) OBVIOUS
      <4>2. found \in Documents BY <3>2, <3>7, <4>1, RenameKinds
      <4>3. c = Relinked(s, found, old, new) BY <2>2, <3>2, <3>7, <4>1 DEF Left
      <4>4. /\ c.forged = found.forged
            /\ found.verified \subseteq {Wording(found)} => c.verified \subseteq {Wording(c)}
        <5>1. s \in Slugs OBVIOUS
        <5>2. c.forged = found.forged BY <4>2, <4>3, <5>1, RelinkedConcept
        <5>3. found.verified \subseteq {Wording(found)} => c.verified \subseteq {Wording(c)}
          BY <4>2, <4>3, <5>1, RelinkedConcept
        <5>4. QED BY <5>2, <5>3
      <4>5. QED BY <3>6, <4>1, <4>4 DEF Sound
    <3>8. CASE s \notin Relinks(old, new)
      BY <2>2, <3>2, <3>6, <3>8 DEF Left
    <3>9. QED BY <3>7, <3>8
  <2>7. CASE Render
    <3>1. s \in DOMAIN outputs /\ outputs'[s] = outputs[s] BY <2>7, Kinds DEF Render, With
    <3>2. QED BY <1>2, <2>1, <2>2, <3>1 DEF OriginInv, Sound
  <2>8. CASE UNCHANGED <<working, planned, outputs, entries, deleted>>
    BY <1>2, <2>1, <2>2, <2>8 DEF OriginInv, Sound
  <2>9. ~Begin BY <1>2, NoneAssumption DEF Begin, Enter, CommandInv, Commands
  <2>10. QED BY <2>5, <2>6, <2>7, <2>8, <2>9, BatchSteps
<1>3. QED BY <1>1, <1>2, BatchSteps

-----------------------------------------------------------------------------
IInv ==
  /\ TypeOK /\ CommandInv /\ TouchedInv /\ ViewsInv /\ IndexInv /\ SingleInv
  /\ TitlesInv /\ LinksInv /\ OriginInv

\* The inductive invariant of the commands, for a user who edits at any moment
\* but neither commits nor takes an edit back during a command: the views of a
\* batch, what it asks for, and the vault stay in step.
THEOREM MutationsInvariant ==
  ASSUME ~Undoing PROVE Spec => []IInv
<1>1. Init => IInv
  BY TypeInit, TouchedInit, ViewsInit, IndexInit, SingleInit, TitlesInit, LinksInit, OriginInit
     DEF IInv
<1>2. IInv /\ [Next]_vars => IInv'
  BY TypeNext, TouchedNext, ViewsNext, IndexNext, SingleNext, TitlesNext, LinksNext, OriginNext
     DEF IInv
<1>3. QED BY <1>1, <1>2, PTL DEF Spec

\* The views that apply_operations keeps by hand agree with the outputs after
\* batches of any length.
THEOREM CandidatesAlwaysAgree ==
  ASSUME ~Undoing PROVE Spec => []CandidatesAgree
<1>1. IInv => CandidatesAgree BY DEF IInv, ViewsInv
<1>2. QED BY <1>1, MutationsInvariant, PTL

\* The committed index lists the committed concepts, whatever is uncommitted.
THEOREM IndexAlwaysAgrees ==
  ASSUME ~Undoing PROVE Spec => []IndexAgrees
<1>1. IInv => IndexAgrees BY DEF IInv, IndexInv
<1>2. QED BY <1>1, MutationsInvariant, PTL

-----------------------------------------------------------------------------
\* What an executed batch asked for was clean.
LEMMA ExecutedClean ==
  ASSUME TypeOK, CommandInv, TouchedInv, Execute, cmd = "apply"
  PROVE  Clean
BY DEF Execute, Adopts, CommandInv, Clean

\* What is executed is a batch, an adoption, or concerns no concept.
LEMMA ExecutedCommand ==
  ASSUME TypeOK, CommandInv, SingleInv, Execute
  PROVE  \/ cmd = "apply" \/ cmd = "reconcile"
         \/ DOMAIN outputs \cap Slugs = {}
<1>1. cmd \in Commands BY DEF TypeOK, CommandInv, Execute
<1>2. Derived \cap Slugs = {} BY Kinds DEF Derived
<1>3. QED BY <1>1, <1>2 DEF SingleInv, Commands

\* An adoption leaves the adopted text, with managed metadata restored.
LEMMA ExecutedAdoption ==
  ASSUME TypeOK, CommandInv, SingleInv, Execute, cmd = "reconcile"
  PROVE  \E s \in Slugs, before \in Documents, after \in Documents :
           /\ s = adopted.slug /\ before = head[s] /\ after = work[s]
           /\ DOMAIN outputs \cap Slugs = {s} /\ outputs[s] = Restored(before, after)
           /\ ~TitleTaken(Concepts(head), s, after.title)
<1>1. adopted # None /\ adopted \in Adoptions BY DEF CommandInv, TypeOK
<1>2. PICK s \in Slugs, after \in Documents : s = adopted.slug /\ after = adopted.text
  BY <1>1 DEF Adoptions
<1>3. /\ DOMAIN outputs = {s} \cup Derived /\ head[s] # None
      /\ outputs[s] = Restored(head[s], after) /\ ~TitleTaken(Concepts(head), s, after.title)
  BY <1>2 DEF SingleInv
<1>4. work[s] = after BY <1>1, <1>2, <1>3 DEF Execute, Adopts
<1>5. head[s] \in Documents BY <1>3, Kinds DEF TypeOK
<1>6. DOMAIN outputs \cap Slugs = {s} BY <1>3, Kinds DEF Derived
<1>7. QED BY <1>2, <1>3, <1>4, <1>5, <1>6

LEMMA RestoredConcept ==
  ASSUME NEW before \in Documents, NEW after \in Documents
  PROVE  LET text == Restored(before, after)
         IN  /\ text \in Documents
             /\ text.title = after.title /\ text.body = after.body
             /\ text.forged \subseteq before.forged
             /\ text.verified = {} \/ (text.verified = before.verified
                                         /\ Wording(text) = Wording(before))
<1>1. CASE MeaningfulChange(before, after) BY <1>1 DEF Restored, Documents
<1>2. CASE ~MeaningfulChange(before, after)
  BY <1>2 DEF Restored, Documents, MeaningfulChange, Wording
<1>3. QED BY <1>1, <1>2

-----------------------------------------------------------------------------
\* No sequence of operations makes two concepts of one title out of concepts
\* that nobody has edited meanwhile, and no adoption does so at HEAD.
THEOREM NeverNewDuplicates ==
  ASSUME ~Undoing PROVE Spec => NoNewDuplicates
<1>1. IInv /\ [Next]_vars =>
        (ManagedCommit =>
           /\ Doubled(work', Slugs \ touched) \subseteq Doubled(work, Slugs)
           /\ cmd = "reconcile" => Doubled(head', Slugs) \subseteq Doubled(head, Slugs))
  <2> SUFFICES ASSUME IInv, [Next]_vars, ManagedCommit
               PROVE  /\ Doubled(work', Slugs \ touched) \subseteq Doubled(work, Slugs)
                      /\ cmd = "reconcile" => Doubled(head', Slugs) \subseteq Doubled(head, Slugs)
    OBVIOUS
  <2>1. Execute /\ TypeOK /\ CommandInv /\ TouchedInv /\ ViewsInv /\ SingleInv /\ TitlesInv
    BY CommitsExecute DEF IInv
  <2>2. /\ \A p \in Paths : work'[p] = IF p \in DOMAIN outputs THEN outputs[p] ELSE work[p]
        /\ \A p \in Paths : head'[p] = IF p \in DOMAIN outputs THEN outputs[p] ELSE head[p]
    BY <2>1, ExecuteLaysOver
  <2>3. CASE cmd = "apply"
    <3>1. Clean BY <2>1, <2>3, ExecutedClean
    <3>2. ASSUME NEW s \in Slugs \ touched, NEW t \in Titles, Titled(work', s, t)
          PROVE  Titled(working, s, t)
      <4>1. working[s] = work'[s] BY <2>1, <2>2, <2>3, Kinds DEF ViewsInv, CandidatesAgree, Over
      <4>2. QED BY <3>2, <4>1 DEF Titled
    <3>3. ASSUME NEW t \in Doubled(work', Slugs \ touched) PROVE t \in Doubled(work, Slugs)
      <4>1. PICK a \in Slugs \ touched, b \in Slugs \ touched :
              a # b /\ Titled(work', a, t) /\ Titled(work', b, t)
        BY <3>3 DEF Doubled, Titled
      <4>2. t \in Titles BY <3>3 DEF Doubled
      <4>3. PICK c \in Slugs, d \in Slugs : c # d /\ Titled(work, c, t) /\ Titled(work, d, t)
        BY <2>1, <2>3, <3>1, <3>2, <4>1, <4>2 DEF TitlesInv
      <4>4. QED BY <4>2, <4>3 DEF Doubled, Titled
    <3>4. QED BY <2>3, <3>3
  <2>4. CASE cmd = "reconcile"
    <3>1. PICK s \in Slugs, before \in Documents, after \in Documents :
            /\ before = head[s] /\ after = work[s]
            /\ DOMAIN outputs \cap Slugs = {s} /\ outputs[s] = Restored(before, after)
            /\ ~TitleTaken(Concepts(head), s, after.title)
      BY <2>1, <2>4, ExecutedAdoption
    <3>2. outputs[s].title = after.title BY <3>1, RestoredConcept
    <3>3. /\ after # None /\ outputs[s] # None
      BY <3>1, RestoredConcept, NoneAssumption
    <3>4. ASSUME NEW x \in Slugs, NEW t PROVE Titled(work', x, t) <=> Titled(work, x, t)
      BY <2>2, <3>1, <3>2, <3>3, Kinds DEF Titled
    <3>5. Doubled(work', Slugs \ touched) \subseteq Doubled(work, Slugs)
      BY <3>4 DEF Doubled, Titled
    <3>6. ASSUME NEW x \in Slugs \ {s}, NEW t
          PROVE  (Titled(head', x, t) <=> Titled(head, x, t)) /\ ~Titled(head, x, after.title)
      BY <2>2, <3>1, Kinds DEF Titled, TitleTaken, Present, Concepts
    <3>7. \A t : Titled(head', s, t) => t = after.title
      BY <2>2, <3>1, <3>2, Kinds DEF Titled
    <3>8. ASSUME NEW t \in Doubled(head', Slugs) PROVE t \in Doubled(head, Slugs)
      <4>1. PICK a \in Slugs, b \in Slugs : a # b /\ Titled(head', a, t) /\ Titled(head', b, t)
        BY <3>8 DEF Doubled, Titled
      <4>2. a # s /\ b # s BY <3>6, <3>7, <4>1
      <4>3. Titled(head, a, t) /\ Titled(head, b, t) BY <3>6, <4>1, <4>2
      <4>4. QED BY <3>8, <4>1, <4>3 DEF Doubled, Titled
    <3>9. QED BY <3>5, <3>8
  <2>5. CASE DOMAIN outputs \cap Slugs = {} /\ cmd # "reconcile"
    <3>1. \A x \in Slugs : work'[x] = work[x] BY <2>2, <2>5, Kinds
    <3>2. QED BY <2>5, <3>1 DEF Doubled
  <2>6. QED BY <2>1, <2>3, <2>4, <2>5, ExecutedCommand
<1>2. QED BY <1>1, MutationsInvariant, PTL DEF Spec, NoNewDuplicates

\* Renames, and operations before and after them in a batch, leave no link
\* behind that leads nowhere; only deletions do.
THEOREM LinksAlwaysFollow ==
  ASSUME ~Undoing PROVE Spec => LinksFollow
<1>1. IInv /\ [Next]_vars =>
        (ManagedCommit /\ cmd = "apply" =>
           /\ Dangling(work', Texts \ (touched \cup {"log.md"}))
                \subseteq Dangling(work, Texts) \cup Gone
           /\ Dangling(work', {"log.md"})
                \subseteq Dangling(work, Texts) \cup Gone \cup entries.links)
  <2> SUFFICES ASSUME IInv, [Next]_vars, ManagedCommit, cmd = "apply"
               PROVE  /\ Dangling(work', Texts \ (touched \cup {"log.md"}))
                           \subseteq Dangling(work, Texts) \cup Gone
                      /\ Dangling(work', {"log.md"})
                           \subseteq Dangling(work, Texts) \cup Gone \cup entries.links
    OBVIOUS
  <2>1. Execute /\ TypeOK /\ CommandInv /\ TouchedInv /\ IndexInv /\ LinksInv
    BY CommitsExecute DEF IInv
  <2>2. \A p \in Paths : work'[p] = Over(work)[p] BY <2>1, ExecuteLaysOver DEF Over
  <2>3. Clean BY <2>1, ExecutedClean
  <2>4. ASSUME NEW p \in Texts \ touched, NEW s \in Slugs \ touched, LinksTo(work', p, s),
               work'[s] = None, s \notin deleted
        PROVE  s \in Dangling(work, Texts) \/ (p = "log.md" /\ s \in entries.links)
    <3>1. Over(work)[s] = None BY <2>2, <2>4, Kinds
    <3>2. work'[p] = Over(work)[p] BY <2>2 DEF Texts
    <3>3. LinksTo(Over(work), p, s) BY <2>4, <3>2 DEF LinksTo
    <3>4. CASE p = "log.md" /\ s \in entries.links BY <3>4
    <3>5. CASE work[s] = None /\ \E q \in Texts : LinksTo(work, q, s)
      BY <3>5 DEF Dangling, LinksTo
    <3>6. QED BY <2>1, <2>3, <2>4, <3>1, <3>3, <3>4, <3>5 DEF LinksInv
  <2>5. ASSUME NEW s \in Dangling(work', Texts \ (touched \cup {"log.md"}))
        PROVE  s \in Dangling(work, Texts) \cup Gone
    BY <2>4, <2>5 DEF Dangling, LinksTo, Gone
  <2>6. ASSUME NEW s \in Dangling(work', {"log.md"})
        PROVE  s \in Dangling(work, Texts) \cup Gone \cup entries.links
    <3>1. s \in Slugs /\ work'[s] = None /\ LinksTo(work', "log.md", s)
      BY <2>6 DEF Dangling, LinksTo
    <3>2. "log.md" \in Texts BY Kinds DEF Texts
    <3>3. "log.md" \notin touched
      BY <2>1, <2>3 DEF Execute, IndexInv, TouchedInv, Clean
    <3>4. QED BY <2>4, <3>1, <3>2, <3>3 DEF Gone
  <2>7. QED BY <2>5, <2>6
<1>2. QED BY <1>1, MutationsInvariant, PTL DEF Spec, LinksFollow

\* What any command brings to HEAD is sound.
LEMMA ExecutedSound ==
  ASSUME IInv, Execute, NEW s \in Slugs, head'[s] # None
  PROVE  Sound(head'[s])
<1>1. TypeOK /\ CommandInv /\ TouchedInv /\ SingleInv /\ OriginInv BY DEF IInv
<1>2. head'[s] = IF s \in DOMAIN outputs THEN outputs[s] ELSE head[s]
  BY ExecuteLaysOver, Kinds
<1>3. CASE s \notin DOMAIN outputs BY <1>1, <1>2, <1>3, HeadSound
<1>4. CASE s \in DOMAIN outputs /\ cmd = "apply"
  BY <1>1, <1>2, <1>4, ExecutedClean DEF OriginInv, Sound
<1>5. CASE s \in DOMAIN outputs /\ cmd = "reconcile"
  <2>1. PICK before \in Documents, after \in Documents :
          before = head[s] /\ outputs[s] = Restored(before, after)
    BY <1>1, <1>5, ExecutedAdoption
  <2>2. PICK text : text = outputs[s] OBVIOUS
  <2>3. /\ text.forged \subseteq before.forged
        /\ text.verified = {} \/ (text.verified = before.verified
                                    /\ Wording(text) = Wording(before))
    BY <2>1, <2>2, RestoredConcept
  <2>4. Sound(before) BY <1>1, <2>1, HeadSound, NoneAssumption
  <2>5. Sound(text) BY <2>3, <2>4 DEF Sound
  <2>6. QED BY <1>2, <1>5, <2>2, <2>5
<1>6. QED BY <1>1, <1>3, <1>4, <1>5, ExecutedCommand

\* No command brings attribution or verification into HEAD that was written by
\* hand into a concept.
THEOREM NothingEverForged ==
  ASSUME ~Undoing PROVE Spec => NothingForged
<1>1. IInv /\ [Next]_vars => (ManagedCommit => Forged(head') \subseteq Forged(head))
  <2> SUFFICES ASSUME IInv, [Next]_vars, ManagedCommit, NEW x \in Forged(head')
               PROVE  x \in Forged(head)
    OBVIOUS
  <2>1. PICK s \in Slugs : head'[s] # None /\ x \in head'[s].forged
    BY DEF Forged, Present, Concepts
  <2>2. Sound(head'[s]) BY <2>1, CommitsExecute, ExecutedSound DEF IInv
  <2>3. QED BY <2>1, <2>2 DEF Sound
<1>2. QED BY <1>1, MutationsInvariant, PTL DEF Spec, NothingForged

\* Nor a verification that was given for another text than the one it stands by.
THEOREM VerifiedAlwaysCurrent ==
  ASSUME ~Undoing PROVE Spec => VerifiedIsCurrent
<1>1. IInv /\ [Next]_vars => (ManagedCommit => Stale(head') = {} \/ Stale(head) # {})
  <2> SUFFICES ASSUME IInv, [Next]_vars, ManagedCommit, Stale(head) = {}, NEW s \in Stale(head')
               PROVE  FALSE
    OBVIOUS
  <2>1. /\ s \in Slugs /\ head'[s] # None
        /\ head'[s].verified \ {Wording(head'[s])} # {}
    BY DEF Stale, Present, Concepts
  <2>2. Sound(head'[s]) BY <2>1, CommitsExecute, ExecutedSound DEF IInv
  <2>3. QED BY <2>1, <2>2 DEF Sound
<1>2. QED BY <1>1, MutationsInvariant, PTL DEF Spec, VerifiedIsCurrent
=============================================================================
