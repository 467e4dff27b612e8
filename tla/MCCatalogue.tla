----------------------------- MODULE MCCatalogue -----------------------------
(* Two builds of one version, the later yet to come, and another version    *)
(* with the same minor, of Playwright.                                      *)
EXTENDS Catalogue

MCImages == {<<10, 1>>, <<10, 2>>, <<11, 1>>}
MCPlaywright == {<<11, 1>>}
MCFlagged == {<<10, 2>>}
MCPresent == {<<10, 1>>, <<11, 1>>}
==============================================================================
