------------------------------- MODULE Skills -------------------------------
(***************************************************************************)
(* The skills of a session (src/harness/skills.py): SKILL.md folders under *)
(* a built-in and a user's root, read once when the session starts, the    *)
(* catalog the model sees, and the blocks of the system prompt they become *)
(* (src/agent_loop/context.py).  The user edits the folders at any time;   *)
(* a new version of the package may bring other built-in skills.           *)
(***************************************************************************)
EXTENDS Naturals, Sequences, FiniteSets, TLC

CONSTANTS
    Folders,        \* the names of folders, in their order (a sequence)
    MaxSkills,      \* skills.max_skills
    CatalogMax,     \* skills.catalog_max_chars
    MaxEdits        \* how often a folder changes (bound)

VARIABLES
    folders,        \* root -> folder -> what is in it
    store,          \* SkillStore: name -> [source, kind] of the visible skills
    problems,       \* the skipped folders, <<source, folder>>
    shadowed,       \* built-in names that a user's skill replaced
    sections,       \* the blocks the session made of its skills
    prompt,         \* the system prompt, block by block
    viewed,         \* what skill_view answered last
    started,        \* the folders and the circumstances when the session started
    edits

vars == <<folders, store, problems, shadowed, sections, prompt, viewed, started, edits>>

Names == {Folders[i] : i \in 1 .. Len(Folders)}
Roots == {"builtin", "user"}

\* What a folder may hold: no SKILL.md, one that _read_skill refuses, a skill, one with a
\* long description, one for sessions with a browser, one whose body is always on.
Kinds == {"none", "broken", "plain", "long", "browser", "always"}
-----------------------------------------------------------------------------
\* _skill_folders: the folders of a root that hold a SKILL.md, by name; only the first
\* max_skills of them are read, the broken ones among them included.
Present(root) == SelectSeq(Folders, LAMBDA n : folders[root][n] # "none")
IsRead(root) == LET there == Present(root) IN {there[i] : i \in {j \in 1 .. Len(there) : j <= MaxSkills}}
Readable(root) == {n \in IsRead(root) : folders[root][n] # "broken"}

\* requires, for the capabilities of the session
Covered(kind, browser) == kind = "browser" => browser

Visible(root, browser) == {n \in Readable(root) : Covered(folders[root][n], browser)}

Skill(root, n) == [source |-> root, kind |-> folders[root][n]]

\* SkillStore.load: one root after the other, a later root's skill replaces an earlier one's.
Load(roots, browser) ==
    LET Read(root) == [n \in Visible(root, browser) |-> Skill(root, n)]
    IN IF "user" \in roots THEN Read("user") @@ Read("builtin") ELSE Read("builtin")

Skipped(roots) ==
    UNION {{<<root, n>> : n \in {m \in Names : folders[root][m] # "none"} \ Readable(root)} : root \in roots}

Shadowed(roots, browser) ==
    IF "user" \in roots THEN Visible("user", browser) \cap Visible("builtin", browser) ELSE {}

SkillRoots(enabled) == {"builtin"} \cup (IF enabled THEN {"user"} ELSE {})
-----------------------------------------------------------------------------
\* The catalog, in units of a short line: the header, a line per skill and the line that
\* counts the skills not shown.
Header == 1
More == 1
CatalogLine(skill) == IF skill.kind = "long" THEN 2 ELSE 1

SkillsByName(skills) == SelectSeq(Folders, LAMBDA n : n \in DOMAIN skills)

\* The length of the text after its first k lines.
TextLength(skills, k) ==
    LET names == SkillsByName(skills)
        f[i \in 0 .. k] == IF i = 0 THEN Header ELSE f[i - 1] + CatalogLine(skills[names[i]])
    IN f[k]

\* render adds line k while it leaves room for the line that counts the rest.
Fits(skills, k) ==
    TextLength(skills, k) + (IF k < Len(SkillsByName(skills)) THEN More ELSE 0) <= CatalogMax

Shown(skills) ==
    LET all == Len(SkillsByName(skills))
        stops == {k \in 1 .. all : ~Fits(skills, k)}
    IN IF stops = {} THEN all ELSE (CHOOSE k \in stops : \A j \in stops : k <= j) - 1

Render(skills) ==
    LET k == Shown(skills) IN
    [names |-> SubSeq(SkillsByName(skills), 1, k), more |-> Len(SkillsByName(skills)) - k,
     length |-> TextLength(skills, k) + (IF k < Len(SkillsByName(skills)) THEN More ELSE 0)]

NoCatalog == [names |-> <<>>, more |-> 0, length |-> 0]

\* always_sections and catalog_section; a catalog without a skill is no block.
Always(skills) == SelectSeq(SkillsByName(skills), LAMBDA n : skills[n].kind = "always")
CatalogSection(skills) == IF skills # <<>> THEN Render(skills) ELSE NoCatalog

\* _prompt_sections: the always-on bodies are there with and without the catalog.
PromptSections(skills, enabled) ==
    [catalog |-> IF enabled THEN CatalogSection(skills) ELSE NoCatalog, always |-> Always(skills)]

\* get_system_prompt: the agent's prompt, then the blocks in the order of their priorities
\* (the catalog's is the smaller one), equal ones by heading.
SystemPrompt(blocks) ==
    <<"agent">> \o (IF blocks.catalog # NoCatalog THEN <<"Skills">> ELSE <<>>) \o blocks.always
-----------------------------------------------------------------------------
NoSession == [on |-> FALSE]
NoSections == [catalog |-> NoCatalog, always |-> <<>>]

Init ==
    /\ folders = [r \in Roots |-> [n \in Names |-> "none"]]
    /\ store = <<>> /\ problems = {} /\ shadowed = {} /\ sections = NoSections /\ prompt = <<>> /\ viewed = "nothing"
    /\ started = NoSession /\ edits = 0

\* The user, or an upgrade of the package, changes a folder.
Edit(root, n, kind) ==
    /\ edits < MaxEdits
    /\ folders' = [folders EXCEPT ![root][n] = kind]
    /\ edits' = edits + 1
    /\ UNCHANGED <<store, problems, shadowed, sections, prompt, viewed, started>>

\* _load_skills and _prompt_sections, once MCP runs and it is known whether there is a browser.
Start(enabled, browser) ==
    /\ ~started.on
    /\ store' = Load(SkillRoots(enabled), browser)
    /\ problems' = Skipped(SkillRoots(enabled))
    /\ shadowed' = Shadowed(SkillRoots(enabled), browser)
    /\ sections' = PromptSections(store', enabled)
    /\ prompt' = SystemPrompt(sections')
    /\ started' = [on |-> TRUE, folders |-> folders, enabled |-> enabled, browser |-> browser]
    /\ UNCHANGED <<folders, viewed, edits>>

\* skill_view, offered when skills are enabled and one is visible: the body as the session
\* read it, a file as it is now.
ViewBody(n) ==
    /\ started.on /\ started.enabled /\ store # <<>>
    /\ viewed' = IF n \in DOMAIN store THEN "body" ELSE "unknown skill"
    /\ UNCHANGED <<folders, store, problems, shadowed, sections, prompt, started, edits>>

ViewFile(n) ==
    /\ started.on /\ started.enabled /\ store # <<>>
    /\ viewed' = IF n \notin DOMAIN store THEN "unknown skill"
                 ELSE IF folders[store[n].source][n] = "none" THEN "does not exist" ELSE "file"
    /\ UNCHANGED <<folders, store, problems, shadowed, sections, prompt, started, edits>>

Close ==
    /\ started.on
    /\ store' = <<>> /\ problems' = {} /\ shadowed' = {} /\ sections' = NoSections /\ prompt' = <<>> /\ viewed' = "nothing"
    /\ started' = NoSession
    /\ UNCHANGED <<folders, edits>>

Next ==
    \/ \E root \in Roots : \E n \in Names : \E kind \in Kinds : Edit(root, n, kind)
    \/ \E enabled, browser \in BOOLEAN : Start(enabled, browser)
    \/ \E n \in Names : ViewBody(n) \/ ViewFile(n)
    \/ Close

Spec == Init /\ [][Next]_vars
-----------------------------------------------------------------------------
\* A folder holds a skill that this session may use.
Usable(root, n) ==
    /\ started.folders[root][n] \notin {"none", "broken"}
    /\ started.folders[root][n] = "browser" => started.browser

\* Within the limit of a root, counting every folder that comes before.
WithinLimit(root, n) ==
    Cardinality({i \in 1 .. Len(Folders) :
        /\ started.folders[root][Folders[i]] # "none"
        /\ \E j \in i .. Len(Folders) : Folders[j] = n}) <= MaxSkills

\* A broken skill of the user, or one that this session cannot use, never hides the
\* built-in one of its name; what could not be read is reported; the user's folder is not
\* read while skills are off (skills.py:20-22).
SkillsAreAsWritten ==
    started.on =>
        \A n \in Names :
            LET Offers(root) == root \in SkillRoots(started.enabled) /\ Usable(root, n) /\ WithinLimit(root, n) IN
            /\ n \in DOMAIN store <=> \E root \in Roots : Offers(root)
            /\ n \in DOMAIN store => store[n].source = (IF Offers("user") THEN "user" ELSE "builtin")
            /\ n \in shadowed <=> Offers("user") /\ Offers("builtin")

\* The catalog names or counts every visible skill, within its budget, and nothing of it is
\* shown while skills are off; an always-on body is in the prompt once.
CatalogIsHonest ==
    started.on =>
        LET catalog == sections.catalog IN
        /\ started.enabled => Len(catalog.names) + catalog.more = Cardinality(DOMAIN store)
        /\ ~started.enabled => catalog = NoCatalog
        /\ catalog.length <= CatalogMax
        /\ "Skills" \in {prompt[i] : i \in 1 .. Len(prompt)} <=> started.enabled /\ store # <<>>
        /\ \A n \in DOMAIN store : store[n].kind = "always" =>
              Cardinality({i \in 1 .. Len(prompt) : prompt[i] = n}) = 1
=============================================================================
