--------------------------- MODULE KernelReleases ---------------------------
(***************************************************************************)
(* How the integration tells that a newer kernel is installed than the one *)
(* that runs (ssh_client.py: _kernel_flavor, _version_key,                 *)
(* _newest_kernel).  A release is its version, its flavor, and whether it  *)
(* is named in the numeric scheme "6.8.12-4-pve", which is the only one    *)
(* the flavor is recognised in; the others ("6.6.51+rpt-rpi-v8") have      *)
(* none.  Flavors are numbered in the order of their names.                *)
(***************************************************************************)
EXTENDS Integers

\* _KERNEL_FLAVOR_RE: the flavor, or none.
NoFlavor == -1
KernelFlavor(release) == IF release.numeric THEN release.flavor ELSE NoFlavor

\* The order of _version_key: by the numbers, then by the text after them.
Before(r, s) ==
    \/ r.version < s.version
    \/ r.version = s.version /\ r.flavor < s.flavor

\* Mutant of Candidates: kernels of every flavor are compared.
AllCandidates(running, releases) == releases

\* The installed kernels that are compared with the running one.
Candidates(running, releases) ==
    {r \in releases : KernelFlavor(r) = KernelFlavor(running)}

NewestKernel(running, releases) ==
    LET compared == {running} \cup Candidates(running, releases) IN
    CHOOSE r \in compared : \A s \in compared : ~Before(r, s)

\* kernel_reboot_required
NewerKernel(running, releases) == NewestKernel(running, releases) # running
=============================================================================
