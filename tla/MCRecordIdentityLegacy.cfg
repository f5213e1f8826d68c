CONSTANTS
  n1 = n1
  n2 = n2
  n3 = n3
  n4 = n4
  listing = listing
  pages = pages
  t1 = t1
  t2 = t2
  d1 = d1
  d2 = d2
  search = search
  page3 = page3
  page4 = page4
  None = None
  Notices = {n1, n2, n3, n4}
  Sources = {listing, pages}
  Titles = {t1, t2}
  Deadlines = {d1, d2}
  Urls = {search, page3, page4}
  UrlSources = {pages}
  SourceOf <- MCSourceOf
  UrlOf <- MCUrlOf
  Editions <- MCAmbiguousEditions
  LegacyEdition <- MCLegacyEdition
  LegacyNumber <- MCLegacyNumber
SPECIFICATION Spec
INVARIANT OneNoticePerRow
