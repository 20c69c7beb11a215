----------------------------- MODULE Mutations -----------------------------
(***************************************************************************)
(* Concept operations of agent_memory/mutations.py and the creation of a   *)
(* vault in initialization.py.                                             *)
(*                                                                         *)
(* A command reads the vault, works out new contents for some files (a     *)
(* batch does so operation by operation, on three views it keeps in step), *)
(* and hands them to execute_transaction, which Transaction models step by *)
(* step and which here either refuses or commits them at once.  The user   *)
(* edits files and runs Git meanwhile; the writer lock keeps other         *)
(* commands out.                                                           *)
(***************************************************************************)
EXTENDS Naturals

CONSTANTS Slugs,        \* concept slugs
          Titles,       \* normalised titles
          Bodies,       \* texts of a body, but for its links
          LinkSets,     \* the sets of slugs that a text may link to
          None,         \* absent
          Vaults,       \* vaults to begin with
          Undoing,      \* whether the user commits, or takes an edit back, during a command
          MaxCommands,  \* bound: commands
          MaxOps,       \* bound: operations of all batches
          MaxEdits,     \* bound: direct edits
          MaxGit,       \* bound: commits by the user
          MaxActs       \* bound: the last three together

Paths == Slugs \cup {"index.md", "log.md", "note.md"}
Derived == {"index.md", "log.md"}

\* The files in which a rename looks for links: all Markdown but the index.
\* note.md is one that no command here writes, as a session file is.
Texts == Paths \ {"index.md"}

\* What a direct edit can change of the metadata that commands maintain.
Managed == {"created", "generated", "verified"}

\* verified: the texts that a verification event was given for; forged: the
\* managed metadata that was changed by hand.
Wordings == [title : Titles, body : Bodies, links : SUBSET Slugs]
Documents ==
  [title : Titles, body : Bodies, links : SUBSET Slugs,
   verified : SUBSET Wordings, forged : SUBSET Managed]
Index == [Slugs -> Titles \cup {None}]
Log == [entries : Nat, links : SUBSET Slugs]
Note == [links : SUBSET Slugs]

\* The edit of a concept that a reconciliation takes over.
Adoptions == [slug : Slugs, text : Documents]

Commands == {"apply", "reconcile", "rebuild-index", "init"}

Contents(p) ==
  {None} \cup (CASE p = "index.md" -> Index [] p = "log.md" -> Log
                 [] p = "note.md" -> Note [] OTHER -> Documents)

VARIABLES
  work,       \* the working tree
  head,       \* the files at HEAD
  committer,  \* the command that made HEAD, "user", or "nobody" without a commit
  pc, cmd,    \* the running command
  working,    \* its concepts: those of the working tree, with the operations applied
  planned,    \* its concepts: those at HEAD, with the operations applied
  outputs,    \* the files it asks for so far, None for a deletion
  entries,    \* its log entries
  adopted,    \* the edit that a reconciliation takes over
  deleted,    \* concepts that its operations deleted
  touched,    \* files the user has changed since it began
  commands, ops, edits, gits   \* the bounded counters

vault == <<work, head, committer>>
views == <<working, planned, outputs, entries, deleted>>
vars == <<vault, pc, cmd, views, adopted, touched, commands, ops, edits, gits>>

ASSUME MutationsAssumption ==
  /\ None \notin Slugs \cup Titles /\ "index.md" \notin Slugs
  /\ "log.md" \notin Slugs /\ "note.md" \notin Slugs
  /\ LinkSets \subseteq SUBSET Slugs /\ Undoing \in BOOLEAN
  /\ {MaxCommands, MaxOps, MaxEdits, MaxGit, MaxActs} \subseteq Nat

\* An absent file, edit or command is none of these.
ASSUME NoneAssumption ==
  None \notin Documents /\ None \notin Adoptions /\ None \notin Commands

-----------------------------------------------------------------------------
\* What the code computes from texts.

Concepts(tree) == [s \in Slugs |-> tree[s]]
NoConcepts == [s \in Slugs |-> None]
NoFiles == [p \in {} |-> None]
Present(texts) == {s \in Slugs : texts[s] # None}

\* What a verification is given for.
Wording(text) == [title |-> text.title, body |-> text.body, links |-> text.links]

\* _render_index
IndexOf(texts) ==
  [s \in Slugs |-> IF texts[s] = None THEN None ELSE texts[s].title]

\* Links are part of a body.
MeaningfulChange(before, after) ==
  \/ before.title # after.title
  \/ before.body # after.body
  \/ before.links # after.links

\* _duplicates: the title of another concept.
TitleTaken(texts, slug, title) ==
  \E s \in Present(texts) \ {slug} : texts[s].title = title

NoEntries == [count |-> 0, links |-> {}]
Entry(link) == [count |-> entries.count + 1, links |-> entries.links \cup link]

\* _log
Logged(existing, e) ==
  [entries |-> existing.entries + e.count, links |-> existing.links \cup e.links]

\* The concepts that files link to and that are not there: what `validate`
\* reports as broken links.
Dangling(tree, files) ==
  {s \in Slugs : tree[s] = None
                 /\ \E p \in files : tree[p] # None /\ s \in tree[p].links}

\* A vault that work begins with is empty, or commands have made it.
ASSUME VaultsAssumption ==
  \A v \in Vaults :
    /\ DOMAIN v = Paths /\ \A p \in Paths : v[p] \in Contents(p)
    /\ (\A p \in Paths : v[p] = None) \/ v["index.md"] = IndexOf(Concepts(v))

\* One more file, and others laid over files.
With(files, p, content) ==
  [q \in DOMAIN files \cup {p} |-> IF q = p THEN content ELSE files[q]]
Onto(more, files) ==
  [q \in DOMAIN more \cup DOMAIN files |-> IF q \in DOMAIN more THEN more[q] ELSE files[q]]

Over(tree) == [p \in Paths |-> IF p \in DOMAIN outputs THEN outputs[p] ELSE tree[p]]
Dirty == {p \in Paths : work[p] # head[p]}

ActsLeft == ops + edits + gits < MaxActs

Init ==
  /\ head \in Vaults
  /\ work = head
  /\ committer = IF \A p \in Paths : head[p] = None THEN "nobody" ELSE "apply"
  /\ pc = "idle" /\ cmd = None
  /\ working = NoConcepts /\ planned = NoConcepts
  /\ outputs = NoFiles /\ entries = NoEntries /\ adopted = None
  /\ deleted = {} /\ touched = {}
  /\ commands = 0 /\ ops = 0 /\ edits = 0 /\ gits = 0

\* The command takes the writer lock and reads the vault.
Enter(command, where) ==
  /\ pc = "idle" /\ commands < MaxCommands
  /\ commands' = commands + 1
  /\ cmd' = command /\ pc' = where
  /\ touched' = {} /\ deleted' = {} /\ entries' = NoEntries
  /\ UNCHANGED <<vault, ops, edits, gits>>

\* The command ends; what it had in memory is forgotten.
Leave ==
  /\ pc' = "idle" /\ cmd' = None
  /\ working' = NoConcepts /\ planned' = NoConcepts
  /\ outputs' = NoFiles /\ entries' = NoEntries /\ adopted' = None
  /\ deleted' = {} /\ touched' = {}
  /\ UNCHANGED <<commands, ops, edits, gits>>

\* Any error: an argument, a validation, a conflict, a staged path, a journal.
Refuse == pc # "idle" /\ UNCHANGED vault /\ Leave

-----------------------------------------------------------------------------
\* apply_operations

\* Variant: the index is planned from the working tree.
BeginDirty ==
  /\ Enter("apply", "batch") /\ committer # "nobody"
  /\ working' = Concepts(work) /\ planned' = Concepts(work)
  /\ outputs' = NoFiles /\ adopted' = None

Begin ==
  /\ Enter("apply", "batch") /\ committer # "nobody"
  /\ working' = Concepts(work) /\ planned' = Concepts(head)
  /\ outputs' = NoFiles /\ adopted' = None

Operate ==
  /\ pc = "batch" /\ ops < MaxOps /\ ActsLeft
  /\ ops' = ops + 1
  /\ UNCHANGED <<vault, pc, cmd, adopted, touched, commands, edits, gits>>

\* A new text of a concept enters the three views.
Put(slug, text) ==
  /\ working' = [working EXCEPT ![slug] = text]
  /\ planned' = [planned EXCEPT ![slug] = text]
  /\ outputs' = With(outputs, slug, text)

\* A text that a caller gives links to concepts that exist.
Resolved(slug) == {L \in LinkSets : L \subseteq Present(working) \cup {slug}}

\* Variant: only the slug is looked up.
CreateTwin(slug, title, body, links) ==
  /\ Operate
  /\ working[slug] = None
  /\ Put(slug, [title |-> title, body |-> body, links |-> links,
                verified |-> {}, forged |-> {}])
  /\ entries' = Entry({slug})
  /\ UNCHANGED deleted

Create(slug, title, body, links) ==
  /\ Operate
  /\ working[slug] = None /\ ~TitleTaken(working, slug, title)
  /\ Put(slug, [title |-> title, body |-> body, links |-> links,
                verified |-> {}, forged |-> {}])
  /\ entries' = Entry({slug})
  /\ UNCHANGED deleted

\* Variant: a body that differs in its links only leaves the verification.
UpdatedLinks(before, after) ==
  IF before.title # after.title \/ before.body # after.body
  THEN [after EXCEPT !.verified = {}, !.forged = @ \ {"generated", "verified"}]
  ELSE after

\* A meaningful change is attributed to the caller and ends the verification.
Updated(before, after) ==
  IF MeaningfulChange(before, after)
  THEN [after EXCEPT !.verified = {}, !.forged = @ \ {"generated", "verified"}]
  ELSE after

Update(slug, title, body, links) ==
  /\ Operate
  /\ working[slug] # None /\ ~TitleTaken(working, slug, title)
  /\ Put(slug, Updated(working[slug],
       [working[slug] EXCEPT !.title = title, !.body = body, !.links = links]))
  /\ entries' = Entry({slug})
  /\ UNCHANGED deleted

Verify(slug) ==
  /\ Operate
  /\ working[slug] # None
  /\ Put(slug, [working[slug] EXCEPT !.verified = @ \cup {Wording(working[slug])}])
  /\ entries' = Entry({slug})
  /\ UNCHANGED deleted

\* Variant: the file is emptied instead of deleted.
DeleteContent(slug) ==
  /\ Operate
  /\ working[slug] # None
  /\ Put(slug, [links |-> {}])
  /\ entries' = Entry({})
  /\ deleted' = deleted \cup {slug}

\* Its entry names the concept without linking to it.
Delete(slug) ==
  /\ Operate
  /\ working[slug] # None
  /\ Put(slug, None)
  /\ entries' = Entry({})
  /\ deleted' = deleted \cup {slug}

\* What _rewrite_links reads: what the batch has written so far, then the disk.
Current(written, p) == IF p \in DOMAIN written THEN written[p] ELSE work[p]

\* Variant: concepts that are only in the batch are not looked at.
LinkingOnDisk(written, old) ==
  {p \in Texts \ {old} : /\ work[p] # None
                         /\ Current(written, p) # None
                         /\ old \in Current(written, p).links}

Linking(written, old) ==
  {p \in Texts \ {old} : /\ Current(written, p) # None
                         /\ old \in Current(written, p).links}

Swapped(links, old, new) ==
  IF old \in links THEN (links \ {old}) \cup {new} ELSE links

\* The new text of a file.  It leaves the front matter alone, and so a concept
\* stays verified: what it was verified for is followed as well.
Relinked(p, text, old, new) ==
  LET linked == [text EXCEPT !.links = Swapped(@, old, new)]
  IN  IF p \in Slugs
      THEN [linked EXCEPT !.verified = {[w EXCEPT !.links = Swapped(@, old, new)] : w \in @}]
      ELSE linked

\* Variant: the views do not follow.
Forgetting(view, written, old, new) == view

\* _rewrite_links: a view of the concepts follows what is rewritten.
Following(view, written, old, new) ==
  [s \in Slugs |-> IF s \in Linking(written, old) /\ view[s] # None
                   THEN Relinked(s, Current(written, s), old, new) ELSE view[s]]

Moved(view, text, old, new) == [view EXCEPT ![old] = None, ![new] = text]

Rename(old, new) ==
  /\ Operate
  /\ working[old] # None /\ working[new] = None /\ old # new
  /\ LET text == working[old]
         written == With(With(outputs, new, text), old, None)
     IN  /\ working' = Following(Moved(working, text, old, new), written, old, new)
         /\ planned' = Following(Moved(planned, text, old, new), written, old, new)
         /\ outputs' = Onto([p \in Linking(written, old) |->
                               Relinked(p, Current(written, p), old, new)], written)
  /\ entries' = Entry({new})
  /\ UNCHANGED deleted

\* After the operations: the index of what will be at HEAD, and the log.
Render ==
  /\ pc = "batch" /\ entries.count > 0
  /\ Current(outputs, "log.md") # None
  /\ pc' = "execute"
  /\ outputs' = With(With(outputs, "log.md", Logged(Current(outputs, "log.md"), entries)),
                     "index.md", IndexOf(planned))
  /\ UNCHANGED <<vault, cmd, working, planned, entries, deleted, adopted, touched,
                 commands, ops, edits, gits>>

-----------------------------------------------------------------------------
\* reconcile_concept, rebuild_index, initialize_vault

\* Variant: managed metadata is put right by a meaningful change only.
RestoredLazily(before, after) ==
  IF MeaningfulChange(before, after)
  THEN [after EXCEPT !.verified = {}, !.forged = before.forged \cap {"created"}]
  ELSE after

\* What a direct edit becomes: `created` is restored; a meaningful edit is
\* attributed anew and no longer verified, another keeps what was committed.
Restored(before, after) ==
  [after EXCEPT
     !.verified = IF MeaningfulChange(before, after) THEN {} ELSE before.verified,
     !.forged = IF MeaningfulChange(before, after)
                THEN before.forged \cap {"created"} ELSE before.forged]

Reconcile(slug) ==
  LET text == Restored(head[slug], work[slug])
      after == [Concepts(head) EXCEPT ![slug] = text]
  IN  /\ Enter("reconcile", "execute")
      /\ head[slug] # None /\ work[slug] # None /\ work[slug] # head[slug]
      /\ ~TitleTaken(Concepts(head), slug, text.title)
      /\ text # head[slug]
      /\ work["log.md"] # None
      /\ working' = Concepts(work) /\ planned' = after
      /\ adopted' = [slug |-> slug, text |-> work[slug]]
      /\ outputs' = With(With(With(NoFiles, slug, text), "index.md", IndexOf(after)),
                         "log.md", Logged(work["log.md"], [count |-> 1, links |-> {slug}]))

\* Only over concepts without uncommitted changes, and when the index differs.
RebuildIndex ==
  /\ Enter("rebuild-index", "execute") /\ committer # "nobody"
  /\ Dirty \cap Slugs = {}
  /\ work["index.md"] # None /\ work["index.md"] # IndexOf(Concepts(head))
  /\ working' = Concepts(work) /\ planned' = Concepts(head)
  /\ outputs' = With(NoFiles, "index.md", IndexOf(Concepts(head)))
  /\ adopted' = None

\* Only files that are missing are created; of those, the two that concern us.
Skeleton == With(With(NoFiles, "index.md", IndexOf(NoConcepts)),
                 "log.md", [entries |-> 0, links |-> {}])

Initialize ==
  /\ Enter("init", "execute")
  /\ \E p \in Derived : work[p] = None
  /\ working' = Concepts(work) /\ planned' = Concepts(head)
  /\ outputs' = [p \in {q \in Derived : work[q] = None} |-> Skeleton[p]]
  /\ adopted' = None

-----------------------------------------------------------------------------
\* execute_transaction, as a whole: see Transaction.

Adopts(p) == adopted # None /\ adopted.slug = p
Commits == \E p \in DOMAIN outputs : outputs[p] # work[p] \/ Adopts(p)

\* Variant: the dirty check is left out.
ExecuteUnchecked ==
  /\ pc = "execute" /\ Commits
  /\ work' = Over(work) /\ head' = Over(head)
  /\ committer' = cmd
  /\ Leave

\* Every file asked for is as committed, but for the adopted edit, which is
\* the one that was read.
Execute ==
  /\ pc = "execute" /\ Commits
  /\ \A p \in DOMAIN outputs : IF Adopts(p) THEN work[p] = adopted.text /\ p \in Dirty
                                            ELSE p \notin Dirty
  /\ work' = Over(work) /\ head' = Over(head)
  /\ committer' = cmd
  /\ Leave

-----------------------------------------------------------------------------
\* The user, in Obsidian and with Git.

May(undone) == pc = "idle" \/ Undoing \/ ~undone

Touch(p, content) ==
  /\ content # work[p] /\ May(content = head[p])
  /\ work' = [work EXCEPT ![p] = content]
  /\ touched' = IF pc = "idle" THEN {} ELSE touched \cup {p}
  /\ UNCHANGED <<head, committer, pc, cmd, views, adopted, commands, ops, gits>>

Edit(p, content) ==
  edits < MaxEdits /\ ActsLeft /\ edits' = edits + 1 /\ Touch(p, content)

\* Whatever the front matter of a new file says of its origin is the user's word.
WriteConcept(slug, title, body, links, forged) ==
  Edit(slug, [title |-> title, body |-> body, links |-> links,
              verified |-> IF work[slug] = None THEN {} ELSE work[slug].verified,
              forged |-> IF work[slug] = None THEN {} ELSE work[slug].forged \cup forged])

Remove(p) == work[p] # None /\ Edit(p, None)

EditIndex(slug) ==
  work["index.md"] # None /\ Edit("index.md", [work["index.md"] EXCEPT ![slug] = None])

EditLinks(p, links) == work[p] # None /\ Edit(p, [work[p] EXCEPT !.links = links])

Discard(p) == Touch(p, head[p]) /\ UNCHANGED edits

UserCommit(p) ==
  /\ gits < MaxGit /\ ActsLeft /\ gits' = gits + 1
  /\ p \in Dirty /\ committer # "nobody" /\ May(TRUE)
  /\ head' = [head EXCEPT ![p] = work[p]]
  /\ committer' = "user"
  /\ UNCHANGED <<work, pc, cmd, views, adopted, touched, commands, ops, edits>>

Operation ==
  \/ \E s \in Slugs, t \in Titles, b \in Bodies : \E L \in Resolved(s) :
       Create(s, t, b, L) \/ Update(s, t, b, L)
  \/ \E s \in Slugs : Verify(s) \/ Delete(s)
  \/ \E old, new \in Slugs : Rename(old, new)

Apply == Begin \/ Operation \/ Render

User ==
  \/ \E s \in Slugs, t \in Titles, b \in Bodies, L \in LinkSets, F \in {{}, Managed} :
       WriteConcept(s, t, b, L, F)
  \/ \E s \in Slugs : EditIndex(s)
  \/ \E p \in {"log.md", "note.md"}, L \in LinkSets : EditLinks(p, L)
  \/ \E p \in Paths : Remove(p) \/ Discard(p) \/ UserCommit(p)

Next ==
  \/ Apply
  \/ \E s \in Slugs : Reconcile(s)
  \/ RebuildIndex \/ Initialize
  \/ Execute \/ Refuse
  \/ User

Spec == Init /\ [][Next]_vars

-----------------------------------------------------------------------------
(* Properties *)

\* The files, the views and what is asked for are of their kinds.
TypeOK ==
  /\ DOMAIN work = Paths /\ DOMAIN head = Paths /\ DOMAIN outputs \subseteq Paths
  /\ \A p \in Paths : work[p] \in Contents(p) /\ head[p] \in Contents(p)
  /\ \A p \in DOMAIN outputs : outputs[p] \in Contents(p)
  /\ DOMAIN working = Slugs /\ DOMAIN planned = Slugs
  /\ \A s \in Slugs : {working[s], planned[s]} \subseteq Documents \cup {None}
  /\ committer \in Commands \cup {"nobody", "user"} /\ cmd \in Commands \cup {None}
  /\ pc \in {"idle", "batch", "execute"}
  /\ entries.count \in Nat /\ entries.links \subseteq Slugs
  /\ adopted \in Adoptions \cup {None}
  /\ deleted \subseteq Slugs /\ touched \subseteq Paths
  /\ {commands, ops, edits, gits} \subseteq Nat

\* The three views that apply_operations keeps by hand agree after any sequence
\* of operations and link rewritings: `working` is the working tree, `planned`
\* is HEAD, with the outputs laid over them.  A file with uncommitted changes is
\* planned from what a rename read of it, and refused at the end.
CandidatesAgree ==
  cmd = "apply" =>
    \A s \in Slugs \ touched :
      /\ working[s] = Over(work)[s]
      /\ s \notin Dirty => planned[s] = Over(head)[s]

\* The committed index lists the committed concepts whenever a command that
\* renders it made the last commit, whatever else is in the working tree.
IndexAgrees ==
  committer \in {"apply", "reconcile", "rebuild-index"} =>
    head["index.md"] = IndexOf(Concepts(head))

ManagedCommit == head' # head /\ committer' # "user"

\* A command leaves a file with uncommitted changes as it is, in the working
\* tree and at HEAD; it adopts none but the edit that it has read and judged.
DirtyUntouched ==
  [][ManagedCommit =>
       \A p \in Dirty : IF Adopts(p) THEN work[p] = adopted.text
                        ELSE work'[p] = work[p] /\ head'[p] = head[p]]_vars

Doubled(tree, S) ==
  {t \in Titles : \E a, b \in S : /\ a # b /\ tree[a] # None /\ tree[b] # None
                                  /\ tree[a].title = t /\ tree[b].title = t}

\* No sequence of operations makes two concepts of one title out of concepts
\* that nobody has edited meanwhile, and no adoption does so at HEAD.
NoNewDuplicates ==
  [][ManagedCommit =>
       /\ Doubled(work', Slugs \ touched) \subseteq Doubled(work, Slugs)
       /\ cmd = "reconcile" => Doubled(head', Slugs) \subseteq Doubled(head, Slugs)]_vars

\* Renames, and operations before and after them in a batch, leave no link
\* behind that leads nowhere, in any file and in what the log said before; only
\* deletions do, by an operation or by the user meanwhile.
Gone == deleted \cup touched

LinksFollow ==
  [][ManagedCommit /\ cmd = "apply" =>
       /\ Dangling(work', Texts \ (touched \cup {"log.md"}))
            \subseteq Dangling(work, Texts) \cup Gone
       /\ Dangling(work', {"log.md"})
            \subseteq Dangling(work, Texts) \cup Gone \cup entries.links]_vars

\* The same of the entries that the batch itself adds to the log.  No run checks
\* this, as it fails: an entry links to a concept that the batch renames later.
LogLinksFollow ==
  [][ManagedCommit /\ cmd = "apply" =>
       Dangling(work', {"log.md"}) \subseteq Dangling(work, Texts) \cup Gone]_vars

Forged(tree) == UNION {tree[s].forged : s \in Present(Concepts(tree))}

\* No command brings attribution or verification into HEAD that was written by
\* hand into a concept.
NothingForged == [][ManagedCommit => Forged(head') \subseteq Forged(head)]_vars

Stale(tree) ==
  {s \in Present(Concepts(tree)) :
     tree[s].verified \ {Wording(tree[s])} # {}}

\* Nor a verification that was given for another text than the one it stands by,
\* in its title, its body or its links, but for links that renames have rewritten.
VerifiedIsCurrent ==
  [][ManagedCommit => Stale(head') = {} \/ Stale(head) # {}]_vars
=============================================================================
