------------------------------ MODULE MCCreator ------------------------------
(* Three orders of two categories, for one platform, any, and the other; a pool *)
(* for three thousand views; a profile with one link or none; two videos.       *)
EXTENDS Creator

CONSTANTS food, games, tiktok, vk
MCCategoryOf == <<food, games, food>>
MCStartLinks == {<<>>, <<"tube">>}
MCEarns == <<1, 3>>
MCPlatformsOf == <<{tiktok}, {}, {vk}>>
=============================================================================
