SPECIFICATION SiteSpec
CONSTANTS
    v1 = v1
    v2 = v2
    page = page
    page_html = page_html
    dir = dir
    index = index
    html = html
    none = none
    Clients = {v1, v2}
    Urls = {page, page_html}
    Paths = {dir, index, html, none}
    Url <- MCUrl
    Direct <- MCDirect
    Index <- MCIndex
    Html <- MCHtml
    HasExtension = {page_html}
    Published = {html}
    Big <- MCBig
    Undated <- MCUndated
    MaxChanges = 2
INVARIANTS
    SiteTypeOK
    CacheIsCurrent
PROPERTY
    ImplementsFileServer
