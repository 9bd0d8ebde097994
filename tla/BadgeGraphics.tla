----------------------------- MODULE BadgeGraphics -----------------------------
(***************************************************************************)
(* The gallery of badge graphics: its rows, the image files beside them,   *)
(* the app's default graphic, and the settings page on which several       *)
(* administrators edit them.  An image is stored when it is uploaded, the  *)
(* row that names it is saved later, and the file that the row named       *)
(* before is deleted after that.                                           *)
(***************************************************************************)
EXTENDS Naturals, FiniteSets, Sequences

CONSTANTS
  Admins,
  Slugs,       \* slugs; slug.avif is the file of an upload for an existing row
  Names,       \* names of uploaded files, which may be a slug's
  Seed,        \* the slug of the row that is there from the start, with an image of the app's own
  MaxRows,     \* bound: rows ever created
  Supplies     \* bound: uploads, saves, archivings and removals, and defaults chosen

VARIABLES
  rows,       \* BadgeGraphic by id: slug, imagePath, status ("GONE": deleted)
  default,    \* App.defaultBadgeGraphicSlug
  files,      \* image files that exist
  form,       \* per administrator: the form, and whether its image was uploaded by itself
  uploads,    \* uploads in progress, and what each is for
  calls,      \* update, setDefault and remove calls in progress
  supply,
  odd         \* observation only: by path, the rows that have named it; rows that were saved from an
              \*   outdated form; whether a default was chosen while its row went away

vars == <<rows, default, files, form, uploads, calls, supply, odd>>

External == "external"
NoSlug == "none"
Closed == [open |-> "none", id |-> 0, path |-> NoSlug, fresh |-> FALSE]
Ids == DOMAIN rows
Active(id) == rows[id].status = "ACTIVE"

Init ==
  /\ rows = <<[slug |-> Seed, path |-> External, status |-> "ACTIVE"]>>
  /\ default = NoSlug
  /\ files = {External}
  /\ form = [a \in Admins |-> Closed]
  /\ uploads = {} /\ calls = {}
  /\ supply \in Supplies
  /\ odd = [named |-> {<<External, 1>>}, stale |-> {}, raced |-> FALSE]

Uses(what) ==
  /\ supply[what] > 0
  /\ supply' = [supply EXCEPT ![what] = @ - 1]

-----------------------------------------------------------------------------
(* The form.                                                               *)

OpenCreate(a) ==
  /\ form[a].open = "none"
  /\ form' = [form EXCEPT ![a] = [Closed EXCEPT !.open = "create"]]
  /\ UNCHANGED <<rows, default, files, uploads, calls, supply, odd>>

OpenEdit(a, id) ==
  /\ form[a].open = "none" /\ Active(id)
  /\ form' = [form EXCEPT ![a] = [open |-> "edit", id |-> id, path |-> rows[id].path, fresh |-> FALSE]]
  /\ UNCHANGED <<rows, default, files, uploads, calls, supply, odd>>

\* Not while this administrator's save is pending.
ResetForm(a) ==
  /\ form[a].open # "none"
  /\ \A c \in calls : c.kind = "update" => c.by # a
  /\ form' = [form EXCEPT ![a] = Closed]
  /\ UNCHANGED <<rows, default, files, uploads, calls, supply, odd>>

-----------------------------------------------------------------------------
(* Images.                                                                 *)

\* An image for the form: the file is named after the row that is edited, or keeps its name.
HandleUpload(a) ==
  /\ form[a].open # "none"
  /\ Uses("uploads")
  /\ \E name \in Names :
       uploads' = uploads \cup {[n |-> supply.uploads, by |-> a, id |-> 0, made |-> form[a].id,
                                 path |-> IF form[a].open = "edit" THEN rows[form[a].id].slug ELSE name]}
  /\ UNCHANGED <<rows, default, files, form, calls, odd>>

\* An image that replaces a row's at once.
HandleReplaceImage(a, id) ==
  /\ form[a].open = "none" /\ Active(id)
  /\ \A c \in calls : c.kind = "update" => c.by # a
  /\ Uses("uploads")
  /\ uploads' = uploads \cup {[n |-> supply.uploads, by |-> a, id |-> id, made |-> id, path |-> rows[id].slug]}
  /\ UNCHANGED <<rows, default, files, form, calls, odd>>

Update(a, id, path, fresh) ==
  [kind |-> "update", by |-> a, id |-> id, path |-> path, fresh |-> fresh, pc |-> "read", old |-> NoSlug]

\* The file is written; its path goes into the form that is open then, whatever it is for, or
\* on to the row's update.
StoreFile(u) ==
  /\ files' = files \cup {u.path}
  /\ uploads' = uploads \ {u}
  /\ IF u.id # 0
     THEN calls' = calls \cup {Update(u.by, u.id, u.path, TRUE)} /\ UNCHANGED form
     ELSE /\ form' = [form EXCEPT ![u.by] =
                        IF @.open = "none" THEN @ ELSE [@ EXCEPT !.path = u.path, !.fresh = form[u.by].id = u.made]]
          /\ UNCHANGED calls
  /\ UNCHANGED <<rows, default, supply, odd>>

UploadFails(u) ==
  /\ uploads' = uploads \ {u}
  /\ UNCHANGED <<rows, default, files, form, calls, supply, odd>>

\* Another app's image is not the control plane's to delete.
Unlinked(path) == IF path = External THEN files ELSE files \ {path}

-----------------------------------------------------------------------------
(* BadgeGraphicService.                                                    *)

\* The slug is unique among the rows, archived ones included.
Create(a) ==
  /\ form[a].open = "create" /\ form[a].path # NoSlug
  /\ Len(rows) < MaxRows
  /\ Uses("saves")
  /\ \E slug \in Slugs :
       /\ \A id \in Ids : rows[id].status # "GONE" => rows[id].slug # slug
       /\ rows' = Append(rows, [slug |-> slug, path |-> form[a].path, status |-> "ACTIVE"])
  /\ odd' = [odd EXCEPT !.named = @ \cup {<<form[a].path, Len(rows) + 1>>}]
  /\ form' = [form EXCEPT ![a] = Closed]
  /\ UNCHANGED <<default, files, uploads, calls>>

\* The form is sent with the path it was opened with, or that of the last upload.
SaveEdit(a) ==
  /\ form[a].open = "edit"
  /\ \A c \in calls : c.kind = "update" => c.by # a
  /\ Uses("saves")
  /\ calls' = calls \cup {Update(a, form[a].id, form[a].path, form[a].fresh)}
  /\ UNCHANGED <<rows, default, files, form, uploads, odd>>

ReadPreviousPath(c) ==
  /\ c.kind = "update" /\ c.pc = "read"
  /\ calls' = (calls \ {c}) \cup {[c EXCEPT !.pc = "commit", !.old = rows[c.id].path]}
  /\ UNCHANGED <<rows, default, files, form, uploads, supply, odd>>

\* A row that is gone is an error.
CommitUpdate(c) ==
  /\ c.kind = "update" /\ c.pc = "commit"
  /\ IF rows[c.id].status = "GONE"
     THEN calls' = calls \ {c} /\ UNCHANGED <<rows, odd>>
     ELSE /\ rows' = [rows EXCEPT ![c.id].path = c.path]
          /\ calls' = (calls \ {c}) \cup {[c EXCEPT !.pc = "unlink"]}
          /\ odd' = [odd EXCEPT !.named = @ \cup {<<c.path, c.id>>},
                                !.stale = IF c.fresh \/ c.path = rows[c.id].path THEN @ ELSE @ \cup {c.id}]
  /\ UNCHANGED <<default, files, form, uploads, supply>>

\* Mutant: the file that the row names now is deleted with the old one.
UnlinkPreviousAlways(c) ==
  /\ c.kind = "update" /\ c.pc = "unlink"
  /\ files' = Unlinked(c.old)
  /\ calls' = calls \ {c}
  /\ form' = [form EXCEPT ![c.by] = Closed]
  /\ UNCHANGED <<rows, default, uploads, supply, odd>>

\* The file that the row named before goes, and the administrator's form closes.
UnlinkPrevious(c) ==
  /\ c.kind = "update" /\ c.pc = "unlink"
  /\ files' = IF c.old = c.path THEN files ELSE Unlinked(c.old)
  /\ calls' = calls \ {c}
  /\ form' = [form EXCEPT ![c.by] = Closed]
  /\ UNCHANGED <<rows, default, uploads, supply, odd>>

\* The process dies: the file stays.
CallLost(c) ==
  /\ calls' = calls \ {c}
  /\ UNCHANGED <<rows, default, files, form, uploads, supply, odd>>

\* The default is cleared in the transaction in which its row goes.
Archive(id) ==
  /\ Active(id)
  /\ Uses("removals")
  /\ rows' = [rows EXCEPT ![id].status = "ARCHIVED"]
  /\ default' = IF default = rows[id].slug THEN NoSlug ELSE default
  /\ odd' = [odd EXCEPT !.raced = @ \/ \E c \in calls : c.kind = "default" /\ c.path = rows[id].slug]
  /\ UNCHANGED <<files, form, uploads, calls>>

Remove(a, id) ==
  /\ Active(id)
  /\ Uses("removals")
  /\ rows' = [rows EXCEPT ![id].status = "GONE"]
  /\ default' = IF default = rows[id].slug THEN NoSlug ELSE default
  /\ calls' = calls \cup {[Update(a, id, rows[id].path, FALSE) EXCEPT !.kind = "remove", !.pc = "unlink"]}
  /\ odd' = [odd EXCEPT !.raced = @ \/ \E c \in calls : c.kind = "default" /\ c.path = rows[id].slug]
  /\ UNCHANGED <<files, form, uploads>>

UnlinkRemoved(c) ==
  /\ c.kind = "remove"
  /\ files' = Unlinked(c.path)
  /\ calls' = calls \ {c}
  /\ UNCHANGED <<rows, default, form, uploads, supply, odd>>

\* setDefaultSlug looks for the active row, and writes the slug in a transaction after that.
CheckDefault(a, id) ==
  /\ Active(id)
  /\ Uses("defaults")
  /\ calls' = calls \cup {[Update(a, id, rows[id].slug, FALSE) EXCEPT !.kind = "default"]}
  /\ UNCHANGED <<rows, default, files, form, uploads, odd>>

WriteDefault(c) ==
  /\ c.kind = "default"
  /\ default' = c.path
  /\ calls' = calls \ {c}
  /\ UNCHANGED <<rows, files, form, uploads, supply, odd>>

Next ==
  \/ \E a \in Admins :
       \/ OpenCreate(a) \/ ResetForm(a) \/ HandleUpload(a) \/ Create(a) \/ SaveEdit(a)
       \/ \E id \in Ids : OpenEdit(a, id) \/ HandleReplaceImage(a, id) \/ Remove(a, id) \/ CheckDefault(a, id)
  \/ \E id \in Ids : Archive(id)
  \/ \E u \in uploads : StoreFile(u) \/ UploadFails(u)
  \/ \E c \in calls :
       \/ ReadPreviousPath(c) \/ CommitUpdate(c) \/ UnlinkPrevious(c) \/ UnlinkRemoved(c)
       \/ WriteDefault(c) \/ CallLost(c)

Spec == Init /\ [][Next]_vars
-----------------------------------------------------------------------------
Paths == Names \cup Slugs \cup {External}
Row == [slug : Slugs, path : Paths, status : {"ACTIVE", "ARCHIVED", "GONE"}]
Form == [open : {"none", "create", "edit"}, id : Nat, path : Paths \cup {NoSlug}, fresh : BOOLEAN]
Upload == [n : Nat, by : Admins, id : Nat, made : Nat, path : Paths]
Call == [kind : {"update", "remove", "default"}, by : Admins, id : Nat, path : Paths, fresh : BOOLEAN,
         pc : {"read", "commit", "unlink"}, old : Paths \cup {NoSlug}]
Supply == [{"uploads", "saves", "removals", "defaults"} -> Nat]
Stocked == Seed \in Slugs /\ Supplies \subseteq Supply

TypeOK ==
  /\ rows \in Seq(Row)
  /\ \A i, j \in Ids : rows[i].slug = rows[j].slug /\ i # j => "GONE" \in {rows[i].status, rows[j].status}
  /\ default \in Slugs \cup {NoSlug}
  /\ files \subseteq Paths
  /\ form \in [Admins -> Form]
  /\ \A a \in Admins : form[a].open = "edit" => form[a].id \in Ids /\ form[a].path \in Paths
  /\ uploads \subseteq Upload
  /\ \A u \in uploads : u.id # 0 => u.id \in Ids
  /\ calls \subseteq Call
  /\ \A c \in calls : c.id \in Ids /\ (c.kind = "default" => c.path \in Slugs)
  /\ supply \in Supply
  /\ odd \in [named : SUBSET (Paths \X Nat), stale : SUBSET Nat, raced : BOOLEAN]

\* A row's image exists, through uploads, saves, replacements and removals of several
\* administrators, and the configured default is an active row; the exceptions are an image
\* that two rows have named (uploads of one file name, an upload that ends in another row's
\* form), a row saved from an outdated form, and a default chosen while its row went away
\* (BadgeGraphicService.update, remove, setDefaultSlug).
CatalogIsWhole ==
  /\ \A id \in Ids \ odd.stale :
       rows[id].status # "GONE" /\ {n \in odd.named : n[1] = rows[id].path} = {<<rows[id].path, id>>}
         => rows[id].path \in files
  /\ default # NoSlug /\ ~odd.raced => \E id \in Ids : Active(id) /\ rows[id].slug = default
=============================================================================
